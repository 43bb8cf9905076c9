-------------------------- MODULE MapReduceProofs --------------------------
(* Proofs about the MapReduce master, for every command line and every      *)
(* number of reduce tasks, and about the job it forms with its workers, for *)
(* all workers and however many of them hang or are timed out.              *)
EXTENDS MapReduceJob, SequenceTheorems, FiniteSetTheorems, TLAPS

\* pop_back() leaves a sequence of the same elements, one shorter, and back() is
\* one of them.
LEMMA PopBackType ==
    ASSUME NEW S, NEW s \in Seq(S), s # <<>>
    PROVE  /\ Len(s) \in 1..Len(s)
           /\ Back(s) \in S
           /\ PopBack(s) \in Seq(S)
           /\ Len(PopBack(s)) = Len(s) - 1
           /\ \A i \in 1..(Len(s) - 1) : PopBack(s)[i] = s[i]
  <1>1. Len(s) \in Nat \ {0} /\ Len(s) \in 1..Len(s)
    BY EmptySeq
  <1>2. Back(s) \in S
    BY <1>1, ElementOfSeq DEF Back
  <1>3. \A i \in 1..(Len(s) - 1) : s[i] \in S
    BY <1>1, ElementOfSeq
  <1>4. /\ PopBack(s) \in Seq(S)
        /\ Len(PopBack(s)) = Len(s) - 1
        /\ \A i \in 1..(Len(s) - 1) : PopBack(s)[i] = s[i]
    <2> DEFINE n == Len(s) - 1
    <2>1. n \in Nat /\ 1 \in Int /\ n \in Int
      BY <1>1
    <2>2. /\ SubSeq(s, 1, n) \in Seq(S)
          /\ Len(SubSeq(s, 1, n)) = IF 1 <= n THEN n - 1 + 1 ELSE 0
          /\ \A i \in 1..(n - 1 + 1) : SubSeq(s, 1, n)[i] = s[1 + i - 1]
      <3> HIDE DEF n
      <3> QED BY <2>1, <1>3, SubSeqProperties DEF n
    <2>3. PopBack(s) = SubSeq(s, 1, n)
      BY DEF PopBack
    <2>4. \A i \in 1..n : 1 + i - 1 = i /\ i \in 1..(n - 1 + 1)
      BY <2>1
    <2>5. Len(PopBack(s)) = n
      <3> HIDE DEF n
      <3>1. CASE 1 <= n
        BY <3>1, <2>1, <2>2, <2>3
      <3>2. CASE ~(1 <= n)
        BY <3>2, <2>1, <2>2, <2>3
      <3> QED
        BY <3>1, <3>2
    <2> QED
      BY <2>2, <2>3, <2>4, <2>5
  <1> QED
    BY <1>1, <1>2, <1>4

\* A queue to which a timer appended is not empty.
LEMMA AppendNotEmpty ==
    ASSUME NEW S, NEW s \in Seq(S), NEW e
    PROVE  Append(s, e) # <<>> /\ Len(Append(s, e)) = Len(s) + 1
  <1>1. s \in Seq(S \cup {e}) /\ e \in S \cup {e}
    BY SeqMonotonic
  <1>2. Len(Append(s, e)) = Len(s) + 1 /\ Len(s) \in Nat
    BY <1>1, LenProperties
  <1> QED
    BY <1>2, EmptySeq

\* Reading a char* of the queue yields a file name or garbage.
LEMMA DerefType ==
    ASSUME TypeOK, NEW e \in Entry
    PROVE  Deref(e) \subseteq Names
  BY DEF Deref, Entry, Names, TypeOK

\* The constructor establishes the types.
LEMMA InitType == Init => TypeOK
  <1> SUFFICES ASSUME Init PROVE TypeOK
    OBVIOUS
  <1>1. m_list \in Seq(Entry)
    BY ArgvAssumption DEF Init, Entry, Names, Files
  <1>2. reduceIndex \in Seq(ReduceTasks)
    BY NumAssumption DEF Init, InitReduceIndex, ReduceTasks
  <1>3. rpc \in [pc : {"idle"} \cup MapPcs \cup ReducePcs,
                 task : Entry, idx : ReduceTasks \cup {NoTask}]
    BY DEF Init, Idle, Entry, Names
  <1> QED
    BY <1>1, <1>2, <1>3 DEF Init, TypeOK

\* The steps of the map phase preserve the type invariant.
LEMMA MapType ==
    ASSUME TypeOK,
           \/ AssignTask \/ PopTask \/ WaitMap
           \/ \E name \in Names : ReplyTask(name)
           \/ WaitMapTask
           \/ \E name \in Names : SetMapStat(name),
           OneTimerPerEntry
    PROVE  TypeOK'
  <1>1. CASE AssignTask
    BY <1>1 DEF AssignTask, TypeOK, mapVars, reduceVars, MapPcs
  <1>2. CASE PopTask
    <2>1. Back(m_list) \in Entry /\ PopBack(m_list) \in Seq(Entry)
      BY <1>2, PopBackType DEF PopTask, TypeOK
    <2> QED
      BY <1>2, <2>1 DEF PopTask, TypeOK, reduceVars, MapPcs
  <1>3. CASE WaitMap
    <2>1. rpc.task \in Entry
      BY DEF TypeOK
    <2>2. runningMapWork' \in Seq(Names)
      BY <1>3, <2>1, DerefType DEF WaitMap, TypeOK
    <2>3. mapCap' \in Nat
      BY <1>3 DEF WaitMap, GrowCap, TypeOK
    <2> QED
      BY <1>3, <2>2, <2>3 DEF WaitMap, TypeOK, reduceVars, MapPcs
  <1>4. CASE \E name \in Names : ReplyTask(name)
    BY <1>4 DEF ReplyTask, TypeOK, reduceVars, Idle, Entry, Names
  <1>5. CASE WaitMapTask
    <2>1. runningMapWork[curMapIndex + 1] \in Names
      BY <1>5 DEF WaitMapTask, TypeOK, OneTimerPerEntry
    <2>2. CStr(runningMapWork[curMapIndex + 1]) \in Entry
      BY <2>1 DEF CStr, Entry, TypeOK
    <2> QED
      BY <1>5, <2>2 DEF WaitMapTask, Requeue, TypeOK, reduceVars
  <1>6. CASE \E name \in Names : SetMapStat(name)
    BY <1>6 DEF SetMapStat, TypeOK, reduceVars
  <1> QED
    BY <1>1, <1>2, <1>3, <1>4, <1>5, <1>6

\* The steps of the reduce phase preserve the type invariant.
LEMMA ReduceType ==
    ASSUME TypeOK,
           \/ AssignReduceTask \/ PopReduceTask \/ WaitReduce
           \/ ReplyReduceTask \/ WaitReduceTask
           \/ \E idx \in ReduceTasks : SetReduceStat(idx),
           OneTimerPerEntry,
           rpc.pc \in {"waitReduce", "startReduce"} => rpc.idx \in ReduceTasks
    PROVE  TypeOK'
  <1>1. CASE AssignReduceTask
    BY <1>1 DEF AssignReduceTask, TypeOK, mapVars, reduceVars, ReducePcs
  <1>2. CASE PopReduceTask
    <2>1. Back(reduceIndex) \in ReduceTasks /\ PopBack(reduceIndex) \in Seq(ReduceTasks)
      BY <1>2, PopBackType DEF PopReduceTask, TypeOK
    <2> QED
      BY <1>2, <2>1 DEF PopReduceTask, TypeOK, mapVars, ReducePcs
  <1>3. CASE WaitReduce
    <2>1. runningReduceWork' \in Seq(ReduceTasks)
      BY <1>3 DEF WaitReduce, TypeOK
    <2>2. rpc' \in [pc : {"idle"} \cup MapPcs \cup ReducePcs,
                    task : Entry, idx : ReduceTasks \cup {NoTask}]
      BY <1>3 DEF WaitReduce, TypeOK, ReducePcs
    <2> QED
      BY <1>3, <2>1, <2>2 DEF WaitReduce, TypeOK, mapVars
  <1>4. CASE ReplyReduceTask
    BY <1>4 DEF ReplyReduceTask, TypeOK, mapVars, Idle, Entry, Names
  <1>5. CASE WaitReduceTask
    <2>1. runningReduceWork[curReduceIndex + 1] \in ReduceTasks
      BY <1>5 DEF WaitReduceTask, TypeOK, OneTimerPerEntry
    <2> QED
      BY <1>5, <2>1 DEF WaitReduceTask, RequeueReduce, TypeOK, mapVars
  <1>6. CASE \E idx \in ReduceTasks : SetReduceStat(idx)
    BY <1>6 DEF SetReduceStat, TypeOK, mapVars
  <1> QED
    BY <1>1, <1>2, <1>3, <1>4, <1>5, <1>6

\* The inductive invariant of the timer protocol.  Types alone are not
\* inductive: a timer thread indexes the running vector with the shared index.
TimerInv ==
    /\ TypeOK
    /\ OneTimerPerEntry
    /\ PopFindsTask
    /\ rpc.pc \in {"waitReduce", "startReduce"} => rpc.idx \in ReduceTasks

\* No task is out at the start.
LEMMA InitTimerInv == Init => TimerInv
  <1> SUFFICES ASSUME Init PROVE TimerInv
    OBVIOUS
  <1>1. TypeOK
    BY InitType
  <1> QED
    BY <1>1 DEF Init, Idle, TimerInv, OneTimerPerEntry, PopFindsTask

\* Every step keeps one timer per entry and the popping handler's task.
LEMMA NextTimerInv == TimerInv /\ [Next]_vars => TimerInv'
  <1> SUFFICES ASSUME TimerInv, [Next]_vars PROVE TimerInv'
    OBVIOUS
  <1>1. TypeOK'
    <2>1. CASE UNCHANGED vars
      BY <2>1 DEF TimerInv, TypeOK, vars, mapVars, reduceVars
    <2> QED
      BY <2>1, MapType, ReduceType DEF TimerInv, Next
  <1>2. OneTimerPerEntry' /\ PopFindsTask'
        /\ (rpc.pc \in {"waitReduce", "startReduce"} => rpc.idx \in ReduceTasks)'
    <2> USE DEF TimerInv, TypeOK, OneTimerPerEntry, PopFindsTask, mapVars, reduceVars
    <2>1. CASE AssignTask
      BY <2>1 DEF AssignTask
    <2>2. CASE PopTask
      BY <2>2 DEF PopTask
    <2>3. CASE WaitMap
      BY <2>3 DEF WaitMap
    <2>4. CASE \E name \in Names : ReplyTask(name)
      BY <2>4 DEF ReplyTask, Idle
    <2>5. CASE WaitMapTask
      <3>1. rpc.pc = "popMap" => m_list' # <<>>
        <4>1. m_list' = m_list \/ m_list' = Append(m_list, CStr(runningMapWork[curMapIndex + 1]))
          BY <2>5 DEF WaitMapTask, Requeue
        <4> QED
          BY <4>1, AppendNotEmpty
      <3> QED
        BY <2>5, <3>1 DEF WaitMapTask
    <2>6. CASE \E name \in Names : SetMapStat(name)
      BY <2>6 DEF SetMapStat
    <2>7. CASE AssignReduceTask
      BY <2>7 DEF AssignReduceTask
    <2>8. CASE PopReduceTask
      <3>1. Back(reduceIndex) \in ReduceTasks
        BY <2>8, PopBackType DEF PopReduceTask
      <3> QED
        BY <2>8, <3>1 DEF PopReduceTask
    <2>9. CASE WaitReduce
      <3>1. Len(runningReduceWork') = Len(runningReduceWork) + 1
        BY <2>9, AppendNotEmpty DEF WaitReduce
      <3>2. rpc.pc = "waitReduce" /\ rpc'.pc = "startReduce" /\ rpc'.idx = rpc.idx
        BY <2>9 DEF WaitReduce
      <3> QED
        BY <2>9, <3>1, <3>2 DEF WaitReduce
    <2>10. CASE ReplyReduceTask
      BY <2>10 DEF ReplyReduceTask, Idle
    <2>11. CASE WaitReduceTask
      <3>1. rpc.pc = "popReduce" => reduceIndex' # <<>>
        <4>1. \/ reduceIndex' = reduceIndex
              \/ reduceIndex' = Append(reduceIndex, runningReduceWork[curReduceIndex + 1])
          BY <2>11 DEF WaitReduceTask, RequeueReduce
        <4> QED
          BY <4>1, AppendNotEmpty
      <3>2. rpc' = rpc /\ PopFindsTask'
        BY <2>11, <3>1 DEF WaitReduceTask
      <3>3. /\ curReduceIndex' + reduceTimers' = curReduceIndex + reduceTimers
            /\ UNCHANGED <<runningReduceWork, runningMapWork, curMapIndex, mapTimers>>
        BY <2>11 DEF WaitReduceTask
      <3>4. OneTimerPerEntry'
        BY <3>2, <3>3
      <3> QED
        BY <3>2, <3>4
    <2>12. CASE \E idx \in ReduceTasks : SetReduceStat(idx)
      BY <2>12 DEF SetReduceStat
    <2>13. CASE UNCHANGED vars
      BY <2>13 DEF vars
    <2> QED
      BY <2>1, <2>2, <2>3, <2>4, <2>5, <2>6, <2>7, <2>8, <2>9, <2>10, <2>11,
         <2>12, <2>13 DEF Next
  <1> QED
    BY <1>1, <1>2 DEF TimerInv

\* The strengthened invariant holds throughout.
LEMMA AlwaysTimerInv == Spec => []TimerInv
  BY InitTimerInv, NextTimerInv, PTL DEF Spec

\* The master's fields keep their types, for any command line, small strings
\* and dangling pointers included.
THEOREM MasterTypeOK == Spec => []TypeOK
  <1>1. TimerInv => TypeOK
    BY DEF TimerInv
  <1> QED
    BY <1>1, AlwaysTimerInv, PTL

\* The timer threads of master.cpp share curMapIndex (curReduceIndex), and each
\* entry of the running vector is judged by exactly one of them.
THEOREM MasterTimers == Spec => []OneTimerPerEntry
  <1>1. TimerInv => OneTimerPerEntry
    BY DEF TimerInv
  <1> QED
    BY <1>1, AlwaysTimerInv, PTL

\* A handler that tested the queue without the lock never pops an empty queue.
THEOREM MasterPops == Spec => []PopFindsTask
  <1>1. TimerInv => PopFindsTask
    BY DEF TimerInv
  <1> QED
    BY <1>1, AlwaysTimerInv, PTL
-----------------------------------------------------------------------------
(* The tasks of a phase: a queue q, the vector r of tasks handed out whose   *)
(* timers have judged the first k entries, the task h a handler holds, the   *)
(* finished tasks f.                                                         *)

Queued(q) == {q[i] : i \in 1..Len(q)}
Out(r, k) == {r[i] : i \in (k + 1)..Len(r)}

\* Every task of T is finished or somewhere.
Kept(q, r, k, h, f, T) == T \subseteq f \cup Queued(q) \cup Out(r, k) \cup h

\* No task is in two places.
Single(q, r, k, h) ==
    /\ Injective(q, 1)
    /\ Injective(r, k + 1)
    /\ Queued(q) \cap Out(r, k) = {}
    /\ h \cap (Queued(q) \cup Out(r, k)) = {}

\* pop_back() moves a task from the queue into the hands of the handler
\* (master.cpp:97, 217).
LEMMA PopMoves ==
    ASSUME NEW S, NEW q \in Seq(S), q # <<>>, NEW r, NEW k, NEW f, NEW T,
           Kept(q, r, k, {}, f, T), Single(q, r, k, {})
    PROVE  /\ Kept(PopBack(q), r, k, {Back(q)}, f, T)
           /\ Single(PopBack(q), r, k, {Back(q)})
  <1>1. /\ Len(q) \in Nat /\ Len(q) >= 1
        /\ Len(PopBack(q)) = Len(q) - 1
        /\ \A i \in 1..(Len(q) - 1) : PopBack(q)[i] = q[i]
    BY PopBackType
  <1>2. \A i \in 1..Len(q) : i = Len(q) \/ i \in 1..(Len(q) - 1)
    BY <1>1
  <1>3. Queued(q) = Queued(PopBack(q)) \cup {Back(q)}
    BY <1>1, <1>2 DEF Queued, Back
  <1>4. Back(q) \notin Queued(PopBack(q))
    <2> SUFFICES ASSUME NEW i \in 1..(Len(q) - 1), q[i] = q[Len(q)] PROVE FALSE
      BY <1>1 DEF Queued, Back
    <2> QED
      BY <1>1 DEF Single, Injective
  <1>5. Injective(PopBack(q), 1)
    BY <1>1 DEF Single, Injective
  <1> QED
    BY <1>3, <1>4, <1>5 DEF Kept, Single

\* waitMap and waitReduce move the task of the handler into the vector of the
\* tasks handed out (master.cpp:104, 224).
LEMMA RecordMoves ==
    ASSUME NEW S, NEW r \in Seq(S), NEW x \in S, NEW k \in Nat, k <= Len(r),
           NEW q, NEW f, NEW T,
           Kept(q, r, k, {x}, f, T), Single(q, r, k, {x})
    PROVE  /\ Kept(q, Append(r, x), k, {}, f, T)
           /\ Single(q, Append(r, x), k, {})
  <1>1. /\ Len(r) \in Nat
        /\ Len(Append(r, x)) = Len(r) + 1
        /\ \A i \in 1..Len(r) : Append(r, x)[i] = r[i]
        /\ Append(r, x)[Len(r) + 1] = x
    BY LenProperties, AppendProperties
  <1>2. \A i \in (k + 1)..(Len(r) + 1) : i = Len(r) + 1 \/ i \in (k + 1)..Len(r)
    BY <1>1
  <1>3. (k + 1)..Len(r) \subseteq 1..Len(r) /\ Len(r) + 1 \in (k + 1)..(Len(r) + 1)
        /\ (k + 1)..Len(r) \subseteq (k + 1)..(Len(r) + 1)
    BY <1>1
  <1>4. Out(Append(r, x), k) = Out(r, k) \cup {x}
    BY <1>1, <1>2, <1>3 DEF Out
  <1>5. \A i \in (k + 1)..Len(r) : r[i] # x
    BY DEF Single, Out
  <1>6. Injective(Append(r, x), k + 1)
    BY <1>1, <1>2, <1>3, <1>5 DEF Single, Injective
  <1> QED
    BY <1>4, <1>6 DEF Kept, Single

\* A timer moves the entry it judges back to the queue, unless it is finished
\* (master.cpp:115-124, 234-243).
LEMMA JudgeMoves ==
    ASSUME NEW S, NEW q \in Seq(S), NEW r \in Seq(S), NEW k \in Nat,
           k + 1 <= Len(r), NEW h, NEW f, NEW T, NEW q2,
           q2 = IF r[k + 1] \in f THEN q ELSE Append(q, r[k + 1]),
           Kept(q, r, k, h, f, T), Single(q, r, k, h)
    PROVE  Kept(q2, r, k + 1, h, f, T) /\ Single(q2, r, k + 1, h)
  <1> DEFINE x == r[k + 1]
  <1>0. Len(r) \in Nat /\ Len(q) \in Nat
    BY LenProperties
  <1>1. /\ k + 1 \in (k + 1)..Len(r)
        /\ (k + 1 + 1)..Len(r) \subseteq (k + 1)..Len(r)
        /\ \A i \in (k + 1)..Len(r) : i = k + 1 \/ i \in (k + 1 + 1)..Len(r)
        /\ k + 1 \notin (k + 1 + 1)..Len(r)
        /\ k + 1 \in 1..Len(r)
    BY <1>0
  <1>2. x \in S
    BY <1>1, ElementOfSeq
  <1>3. Out(r, k) = Out(r, k + 1) \cup {x}
    BY <1>1 DEF Out
  <1>4. x \notin Out(r, k + 1)
    <2> SUFFICES ASSUME NEW i \in (k + 1 + 1)..Len(r), r[i] = x PROVE FALSE
      BY DEF Out
    <2>1. i = k + 1
      BY <1>1 DEF Single, Injective
    <2> QED
      BY <2>1, <1>1
  <1>5. Injective(r, k + 1 + 1)
    BY <1>1 DEF Single, Injective
  <1>6. CASE x \in f
    <2>1. q2 = q
      BY <1>6
    <2> QED
      BY <1>3, <1>5, <1>6, <2>1 DEF Kept, Single
  <1>7. CASE x \notin f
    <2>1. q2 = Append(q, x)
      BY <1>7
    <2>2. /\ Len(q2) = Len(q) + 1
          /\ \A i \in 1..Len(q) : q2[i] = q[i]
          /\ q2[Len(q) + 1] = x
      BY <2>1, <1>2, LenProperties, AppendProperties
    <2>3. /\ \A i \in 1..Len(q2) : i = Len(q) + 1 \/ i \in 1..Len(q)
          /\ Len(q) + 1 \in 1..Len(q2) /\ 1..Len(q) \subseteq 1..Len(q2)
      BY <1>0, <2>2
    <2>4. Queued(q2) = Queued(q) \cup {x}
      BY <2>2, <2>3 DEF Queued
    <2>5. x \notin Queued(q)
      BY <1>3 DEF Single
    <2>6. Injective(q2, 1)
      <3>1. \A i \in 1..Len(q) : q[i] # x
        BY <2>5 DEF Queued
      <3> QED
        BY <2>2, <2>3, <3>1 DEF Single, Injective
    <2> QED
      BY <1>3, <1>4, <1>5, <2>4, <2>5, <2>6 DEF Kept, Single
  <1> QED
    BY <1>6, <1>7

\* A report only adds to the finished tasks (master.cpp:132, 249).
LEMMA ReportKeeps ==
    ASSUME NEW q, NEW r, NEW k, NEW h, NEW f, NEW f2, NEW T, f \subseteq f2,
           Kept(q, r, k, h, f, T)
    PROVE  Kept(q, r, k, h, f2, T)
  BY DEF Kept

\* The names in the queue of the map phase, in its order.
ListNames == [i \in 1..Len(m_list) |-> m_list[i].name]

\* With no short names no pointer of the queue dangles.
Solid == [name : Files, cap : {0}]
FilesInv ==
    /\ m_list \in Seq(Solid)
    /\ rpc.pc \in {"waitMap", "startMap"} => rpc.task \in Solid
    /\ runningMapWork \in Seq(Files)
    /\ mapReply \subseteq Files
    /\ finishedMapTask \subseteq Files
    /\ rpc.pc = "waitReduce" => rpc.idx \in ReduceTasks

\* A queue of solid pointers is, as names, a sequence of files.
LEMMA NamesOfList ==
    ASSUME NEW s \in Seq(Solid), NEW n, n = [i \in 1..Len(s) |-> s[i].name]
    PROVE  /\ n \in Seq(Files) /\ Len(n) = Len(s)
           /\ \A i \in 1..Len(s) : n[i] = s[i].name
  <1>1. \A i \in 1..Len(s) : s[i].name \in Files
    <2> SUFFICES ASSUME NEW i \in 1..Len(s) PROVE s[i].name \in Files
      OBVIOUS
    <2>1. s[i] \in Solid
      BY ElementOfSeq
    <2> QED
      BY <2>1 DEF Solid
  <1>2. Len(s) \in Nat
    BY LenProperties
  <1>3. n \in Seq(Files)
    BY <1>1, <1>2, IsASeq
  <1>4. DOMAIN n = 1..Len(s)
    OBVIOUS
  <1>5. Len(n) = Len(s)
    BY <1>2, <1>3, <1>4, LenProperties
  <1> QED BY <1>3, <1>5

\* Where the tasks of the map phase are, and those of the reduce phase.
MapTasks ==
    /\ Kept(ListNames, runningMapWork, curMapIndex, MapHeld, finishedMapTask, Files)
    /\ Single(ListNames, runningMapWork, curMapIndex, MapHeld)
ReduceTasksKept ==
    /\ Kept(reduceIndex, runningReduceWork, curReduceIndex, ReduceHeld,
            finishedReduceTask, ReduceTasks)
    /\ Single(reduceIndex, runningReduceWork, curReduceIndex, ReduceHeld)

\* The inductive invariant of the tasks, on top of that of the timers.
TasksInv == FilesInv /\ MapTasks /\ ReduceTasksKept

\* All tasks are queued when the master starts.
LEMMA TasksInit == Init => TasksInv
  <1> SUFFICES ASSUME Init PROVE TasksInv
    OBVIOUS
  <1>1. Len(Argv) \in Nat /\ DOMAIN Argv = 1..Len(Argv)
    BY ArgvAssumption, LenProperties
  <1>2. m_list = [i \in 1..Len(Argv) |-> [name |-> Argv[i], cap |-> 0]]
    BY DEF Init
  <1>3. m_list \in Seq(Solid)
    <2>1. \A i \in 1..Len(Argv) : [name |-> Argv[i], cap |-> 0] \in Solid
      BY DEF Solid, Files
    <2> QED
      BY <1>1, <1>2, <2>1, IsASeq
  <1>4. Len(m_list) = Len(Argv)
    BY <1>1, <1>2, <1>3, LenProperties
  <1>5. ListNames \in Seq(Files) /\ Len(ListNames) = Len(Argv)
        /\ \A i \in 1..Len(Argv) : ListNames[i] = Argv[i]
    BY <1>2, <1>3, <1>4, NamesOfList DEF ListNames
  <1>6. Queued(ListNames) = Files
    BY <1>5 DEF Queued, Files
  <1>7. Injective(ListNames, 1)
    BY <1>5, ArgvAssumption DEF Injective
  <1>8. reduceIndex \in Seq(ReduceTasks) /\ Len(reduceIndex) = ReduceNum
        /\ \A i \in 1..ReduceNum : reduceIndex[i] = i - 1
    BY NumAssumption DEF Init, InitReduceIndex, ReduceTasks
  <1>9. Queued(reduceIndex) = ReduceTasks
    <2>1. \A t \in ReduceTasks : t + 1 \in 1..ReduceNum /\ (t + 1) - 1 = t
      BY NumAssumption DEF ReduceTasks
    <2>2. \A i \in 1..ReduceNum : i - 1 \in ReduceTasks
      BY NumAssumption DEF ReduceTasks
    <2> QED
      BY <1>8, <2>1, <2>2 DEF Queued
  <1>10. Injective(reduceIndex, 1)
    BY <1>8, NumAssumption DEF Injective
  <1>11. /\ Out(runningMapWork, curMapIndex) = {} /\ Injective(runningMapWork, curMapIndex + 1)
         /\ Out(runningReduceWork, curReduceIndex) = {}
         /\ Injective(runningReduceWork, curReduceIndex + 1)
    BY DEF Init, Out, Injective
  <1>12. rpc.pc = "idle" /\ MapHeld = {} /\ ReduceHeld = {}
    BY DEF Init, Idle, MapHeld, ReduceHeld
  <1>13. FilesInv
    BY <1>3, <1>12 DEF FilesInv, Init
  <1> QED
    BY <1>6, <1>7, <1>9, <1>10, <1>11, <1>12, <1>13 DEF TasksInv, MapTasks, ReduceTasksKept, Kept, Single

\* What the handlers and timers of the map phase do to the names and the pointers.
LEMMA FilesNext ==
    ASSUME Short = {}, TimerInv, FilesInv, [Next]_vars
    PROVE  FilesInv'
  <1> USE DEF FilesInv
  <1>0. \A e \in Solid : Deref(e) = {e.name}
    BY DEF Deref, Solid
  <1>1. CASE AssignTask
    BY <1>1 DEF AssignTask, mapVars, TimerInv, TypeOK
  <1>2. CASE PopTask
    <2>1. Back(m_list) \in Solid /\ PopBack(m_list) \in Seq(Solid)
      BY <1>2, PopBackType DEF PopTask
    <2>2. rpc'.pc = "waitMap" /\ rpc'.task = Back(m_list)
      BY <1>2 DEF PopTask, TimerInv, TypeOK
    <2> QED
      BY <1>2, <2>1, <2>2 DEF PopTask
  <1>3. CASE WaitMap
    <2>1. rpc.task \in Solid
      BY <1>3 DEF WaitMap
    <2>2. runningMapWork' = Append(runningMapWork, rpc.task.name) /\ rpc.task.name \in Files
      BY <1>3, <2>1, <1>0 DEF WaitMap, Solid
    <2>3. runningMapWork' \in Seq(Files)
      BY <2>2, AppendProperties
    <2>4. rpc'.pc = "startMap" /\ rpc'.task = rpc.task
      BY <1>3 DEF WaitMap, TimerInv, TypeOK
    <2> QED
      BY <1>3, <2>1, <2>3, <2>4 DEF WaitMap
  <1>4. CASE \E name \in Names : ReplyTask(name)
    <2>1. PICK name \in Names : ReplyTask(name)
      BY <1>4
    <2>2. rpc.task \in Solid
      BY <2>1 DEF ReplyTask
    <2>3. name = rpc.task.name
      BY <2>1, <2>2, <1>0 DEF ReplyTask
    <2>4. name \in Files
      BY <2>2, <2>3 DEF Solid
    <2> QED
      BY <2>1, <2>4 DEF ReplyTask, Idle
  <1>5. CASE WaitMapTask
    <2>1. curMapIndex + 1 \in 1..Len(runningMapWork)
      BY <1>5 DEF WaitMapTask, TimerInv, OneTimerPerEntry, TypeOK
    <2>2. runningMapWork[curMapIndex + 1] \in Files
      BY <2>1, ElementOfSeq
    <2>3. CStr(runningMapWork[curMapIndex + 1]) \in Solid
      BY <2>2, NamesAssumption DEF CStr, Solid
    <2>4. m_list' \in Seq(Solid)
      <3>1. \/ m_list' = m_list
            \/ m_list' = Append(m_list, CStr(runningMapWork[curMapIndex + 1]))
        BY <1>5 DEF WaitMapTask, Requeue
      <3> QED
        BY <3>1, <2>3, AppendProperties
    <2> QED
      BY <1>5, <2>4 DEF WaitMapTask
  <1>6. CASE \E name \in Names : SetMapStat(name)
    BY <1>6 DEF SetMapStat
  <1>7. CASE AssignReduceTask
    BY <1>7 DEF AssignReduceTask, mapVars, TimerInv, TypeOK
  <1>8. CASE PopReduceTask
    <2>1. Back(reduceIndex) \in ReduceTasks
      BY <1>8, PopBackType DEF PopReduceTask, TimerInv, TypeOK
    <2>2. rpc'.pc = "waitReduce" /\ rpc'.idx = Back(reduceIndex)
      BY <1>8 DEF PopReduceTask, TimerInv, TypeOK
    <2> QED
      BY <1>8, <2>1, <2>2 DEF PopReduceTask, mapVars
  <1>9. CASE WaitReduce
    BY <1>9 DEF WaitReduce, mapVars, TimerInv, TypeOK
  <1>10. CASE ReplyReduceTask
    BY <1>10 DEF ReplyReduceTask, mapVars, Idle
  <1>11. CASE WaitReduceTask
    BY <1>11 DEF WaitReduceTask, mapVars
  <1>12. CASE \E idx \in ReduceTasks : SetReduceStat(idx)
    BY <1>12 DEF SetReduceStat, mapVars
  <1>13. CASE UNCHANGED vars
    BY <1>13 DEF vars, mapVars
  <1> QED
    BY <1>1, <1>2, <1>3, <1>4, <1>5, <1>6, <1>7, <1>8, <1>9, <1>10, <1>11, <1>12,
       <1>13 DEF Next

\* The steps of the map phase move its tasks and lose none.
LEMMA MapTasksNext ==
    ASSUME Short = {}, TimerInv, FilesInv, MapTasks, [Next]_vars
    PROVE  MapTasks'
  <1>0. rpc \in [pc : {"idle"} \cup MapPcs \cup ReducePcs,
                 task : Entry, idx : ReduceTasks \cup {NoTask}]
    BY DEF TimerInv, TypeOK
  <1>n. /\ ListNames \in Seq(Files) /\ Len(ListNames) = Len(m_list)
        /\ \A i \in 1..Len(m_list) : ListNames[i] = m_list[i].name
    BY NamesOfList DEF FilesInv, ListNames
  <1>q. FilesInv'
    BY FilesNext
  <1>m. /\ ListNames' \in Seq(Files) /\ Len(ListNames') = Len(m_list')
        /\ \A i \in 1..Len(m_list') : ListNames'[i] = m_list'[i].name
    BY <1>q, NamesOfList DEF FilesInv, ListNames
  <1>k. curMapIndex \in Nat /\ curMapIndex <= Len(runningMapWork)
        /\ Len(runningMapWork) \in Nat /\ runningMapWork \in Seq(Files)
    BY DEF TimerInv, TypeOK, OneTimerPerEntry, FilesInv
  <1>l. Len(m_list) \in Nat /\ m_list \in Seq(Solid)
    BY LenProperties DEF FilesInv
  <1>1. CASE PopTask
    <2>1. ListNames # <<>>
      BY <1>1, <1>n, <1>l, EmptySeq DEF PopTask, FilesInv
    <2>2. /\ Len(PopBack(m_list)) = Len(m_list) - 1
          /\ \A i \in 1..(Len(m_list) - 1) : PopBack(m_list)[i] = m_list[i]
          /\ Len(m_list) \in 1..Len(m_list)
      BY <1>1, PopBackType DEF PopTask, FilesInv
    <2>3. /\ Len(PopBack(ListNames)) = Len(ListNames) - 1
          /\ \A i \in 1..(Len(ListNames) - 1) : PopBack(ListNames)[i] = ListNames[i]
          /\ PopBack(ListNames) \in Seq(Files)
      BY <2>1, <1>n, PopBackType
    <2>4. ListNames' = PopBack(ListNames)
      <3>1. m_list' = PopBack(m_list)
        BY <1>1 DEF PopTask
      <3>2. Len(ListNames') = Len(PopBack(ListNames))
        BY <1>m, <1>n, <2>2, <2>3, <3>1
      <3>3. \A i \in 1..Len(ListNames') : ListNames'[i] = PopBack(ListNames)[i]
        <4> SUFFICES ASSUME NEW i \in 1..Len(ListNames')
                     PROVE  ListNames'[i] = PopBack(ListNames)[i]
          OBVIOUS
        <4>1. i \in 1..(Len(m_list) - 1) /\ i \in 1..Len(m_list)
          BY <1>m, <2>2, <3>1, <1>l
        <4> QED
          BY <4>1, <1>m, <1>n, <2>2, <2>3, <3>1
      <3> QED
        BY <1>m, <2>3, <3>2, <3>3, SeqEqual
    <2>5. Back(ListNames) = Back(m_list).name
      BY <1>n, <2>2 DEF Back
    <2>6. MapHeld = {} /\ MapHeld' = {Back(ListNames)}
      BY <1>1, <1>0, <2>5 DEF PopTask, MapHeld
    <2> QED
      BY <1>1, <1>n, <2>1, <2>4, <2>6, PopMoves DEF PopTask, MapTasks
  <1>2. CASE WaitMap
    <2>1. rpc.task \in Solid /\ rpc.pc = "waitMap"
      BY <1>2 DEF WaitMap, FilesInv
    <2>2. runningMapWork' = Append(runningMapWork, rpc.task.name) /\ rpc.task.name \in Files
      BY <1>2, <2>1 DEF WaitMap, Solid, Deref
    <2>3. MapHeld = {rpc.task.name} /\ MapHeld' = {} /\ ListNames' = ListNames
      BY <1>2, <1>0 DEF WaitMap, MapHeld, ListNames
    <2> QED
      BY <1>2, <1>k, <2>2, <2>3, RecordMoves DEF WaitMap, MapTasks
  <1>3. CASE WaitMapTask
    <2>1. curMapIndex + 1 <= Len(runningMapWork)
      BY <1>3 DEF WaitMapTask, TimerInv, OneTimerPerEntry, TypeOK
    <2> DEFINE x == runningMapWork[curMapIndex + 1]
    <2>2. x \in Files
      BY <2>1, <1>k, ElementOfSeq
    <2>3. MapHeld' = MapHeld
      BY <1>3 DEF WaitMapTask, MapHeld
    <2>4. ListNames' = IF x \in finishedMapTask THEN ListNames ELSE Append(ListNames, x)
      <3>1. CASE x \in finishedMapTask
        BY <3>1, <1>3 DEF WaitMapTask, Requeue, ListNames
      <3>2. CASE x \notin finishedMapTask
        <4>1. m_list' = Append(m_list, CStr(x)) /\ CStr(x).name = x
          BY <3>2, <1>3 DEF WaitMapTask, Requeue, CStr
        <4>0. CStr(x) \in Solid
          BY <2>2, NamesAssumption DEF CStr, Solid
        <4>2. /\ Len(m_list') = Len(m_list) + 1
              /\ \A i \in 1..Len(m_list) : m_list'[i] = m_list[i]
              /\ m_list'[Len(m_list) + 1] = CStr(x)
          BY <4>1, <4>0, <1>l, AppendProperties
        <4>3. /\ Append(ListNames, x) \in Seq(Files)
              /\ Len(Append(ListNames, x)) = Len(ListNames) + 1
              /\ \A i \in 1..Len(ListNames) : Append(ListNames, x)[i] = ListNames[i]
              /\ Append(ListNames, x)[Len(ListNames) + 1] = x
          BY <1>n, <2>2, AppendProperties
        <4>4. \A i \in 1..Len(ListNames') : ListNames'[i] = Append(ListNames, x)[i]
          <5> SUFFICES ASSUME NEW i \in 1..Len(ListNames')
                       PROVE  ListNames'[i] = Append(ListNames, x)[i]
            OBVIOUS
          <5>1. i = Len(m_list) + 1 \/ i \in 1..Len(m_list)
            BY <1>m, <1>l, <4>2
          <5> QED
            BY <5>1, <1>m, <1>n, <4>1, <4>2, <4>3
        <4> QED
          BY <3>2, <1>m, <1>n, <4>2, <4>3, <4>4, SeqEqual
      <3> QED
        BY <3>1, <3>2
    <2>5. UNCHANGED <<runningMapWork, finishedMapTask>> /\ curMapIndex' = curMapIndex + 1
      BY <1>3 DEF WaitMapTask
    <2> QED
      BY <1>n, <1>k, <2>1, <2>3, <2>4, <2>5, JudgeMoves DEF MapTasks
  <1>4. CASE \E name \in Names : SetMapStat(name)
    <2>1. /\ UNCHANGED <<ListNames, runningMapWork, curMapIndex, MapHeld>>
          /\ finishedMapTask \subseteq finishedMapTask'
      BY <1>4 DEF SetMapStat, ListNames, MapHeld
    <2> QED
      BY <2>1, ReportKeeps DEF MapTasks
  <1>5. CASE \/ AssignTask \/ \E name \in Names : ReplyTask(name)
             \/ AssignReduceTask \/ PopReduceTask \/ WaitReduce
             \/ ReplyReduceTask \/ WaitReduceTask
             \/ \E idx \in ReduceTasks : SetReduceStat(idx)
             \/ UNCHANGED vars
    <2>1. UNCHANGED <<m_list, runningMapWork, curMapIndex, finishedMapTask>>
      BY <1>5 DEF AssignTask, ReplyTask, AssignReduceTask, PopReduceTask, WaitReduce,
         ReplyReduceTask, WaitReduceTask, SetReduceStat, vars, mapVars
    <2>2. UNCHANGED MapHeld
      <3>1. (rpc.pc # "waitMap" /\ rpc'.pc # "waitMap") \/ rpc' = rpc
        <4>1. CASE AssignTask
          BY <4>1, <1>0 DEF AssignTask
        <4>2. CASE \E name \in Names : ReplyTask(name)
          BY <4>2 DEF ReplyTask, Idle
        <4>3. CASE AssignReduceTask
          BY <4>3, <1>0 DEF AssignReduceTask
        <4>4. CASE PopReduceTask
          BY <4>4, <1>0 DEF PopReduceTask
        <4>5. CASE WaitReduce
          BY <4>5, <1>0 DEF WaitReduce
        <4>6. CASE ReplyReduceTask
          BY <4>6 DEF ReplyReduceTask, Idle
        <4>7. CASE WaitReduceTask \/ (\E idx \in ReduceTasks : SetReduceStat(idx)) \/ UNCHANGED vars
          BY <4>7 DEF WaitReduceTask, SetReduceStat, vars
        <4> QED
          BY <1>5, <4>1, <4>2, <4>3, <4>4, <4>5, <4>6, <4>7
      <3> QED
        BY <3>1 DEF MapHeld
    <2>3. UNCHANGED ListNames
      BY <2>1 DEF ListNames
    <2> QED
      BY <2>1, <2>2, <2>3 DEF MapTasks
  <1> QED
    BY <1>1, <1>2, <1>3, <1>4, <1>5 DEF Next

\* The steps of the reduce phase move its tasks and lose none.
LEMMA ReduceTasksNext ==
    ASSUME TimerInv, ReduceTasksKept, [Next]_vars
    PROVE  ReduceTasksKept'
  <1>0. rpc \in [pc : {"idle"} \cup MapPcs \cup ReducePcs,
                 task : Entry, idx : ReduceTasks \cup {NoTask}]
    BY DEF TimerInv, TypeOK
  <1>k. /\ curReduceIndex \in Nat /\ curReduceIndex <= Len(runningReduceWork)
        /\ runningReduceWork \in Seq(ReduceTasks) /\ reduceIndex \in Seq(ReduceTasks)
    BY DEF TimerInv, TypeOK, OneTimerPerEntry
  <1>1. CASE PopReduceTask
    <2>1. ReduceHeld = {} /\ ReduceHeld' = {Back(reduceIndex)}
      BY <1>1, <1>0 DEF PopReduceTask, ReduceHeld
    <2> QED
      BY <1>1, <1>k, <2>1, PopMoves DEF PopReduceTask, ReduceTasksKept
  <1>2. CASE WaitReduce
    <2>1. ReduceHeld = {rpc.idx} /\ ReduceHeld' = {} /\ rpc.idx \in ReduceTasks
      BY <1>2, <1>0 DEF WaitReduce, ReduceHeld, TimerInv
    <2> QED
      BY <1>2, <1>k, <2>1, RecordMoves DEF WaitReduce, ReduceTasksKept
  <1>3. CASE WaitReduceTask
    <2>1. curReduceIndex + 1 <= Len(runningReduceWork)
      BY <1>3 DEF WaitReduceTask, TimerInv, OneTimerPerEntry, TypeOK
    <2>2. ReduceHeld' = ReduceHeld
      BY <1>3 DEF WaitReduceTask, ReduceHeld
    <2>3. /\ reduceIndex' = IF runningReduceWork[curReduceIndex + 1] \in finishedReduceTask
                            THEN reduceIndex
                            ELSE Append(reduceIndex, runningReduceWork[curReduceIndex + 1])
          /\ UNCHANGED <<runningReduceWork, finishedReduceTask>>
          /\ curReduceIndex' = curReduceIndex + 1
      BY <1>3 DEF WaitReduceTask, RequeueReduce
    <2> QED
      BY <1>k, <2>1, <2>2, <2>3, JudgeMoves DEF ReduceTasksKept
  <1>4. CASE \E idx \in ReduceTasks : SetReduceStat(idx)
    <2>1. /\ UNCHANGED <<reduceIndex, runningReduceWork, curReduceIndex, ReduceHeld>>
          /\ finishedReduceTask \subseteq finishedReduceTask'
      BY <1>4 DEF SetReduceStat, ReduceHeld
    <2> QED
      BY <2>1, ReportKeeps DEF ReduceTasksKept
  <1>5. CASE \/ AssignReduceTask \/ ReplyReduceTask
             \/ AssignTask \/ PopTask \/ WaitMap
             \/ \E name \in Names : ReplyTask(name)
             \/ WaitMapTask
             \/ \E name \in Names : SetMapStat(name)
             \/ UNCHANGED vars
    <2>1. UNCHANGED <<reduceIndex, runningReduceWork, curReduceIndex, finishedReduceTask>>
      BY <1>5 DEF AssignReduceTask, ReplyReduceTask, AssignTask, PopTask, WaitMap,
         ReplyTask, WaitMapTask, SetMapStat, vars, reduceVars
    <2>2. UNCHANGED ReduceHeld
      <3>1. (rpc.pc # "waitReduce" /\ rpc'.pc # "waitReduce") \/ rpc' = rpc
        <4>1. CASE AssignReduceTask
          BY <4>1, <1>0 DEF AssignReduceTask
        <4>2. CASE ReplyReduceTask
          BY <4>2 DEF ReplyReduceTask, Idle
        <4>3. CASE AssignTask
          BY <4>3, <1>0 DEF AssignTask
        <4>4. CASE PopTask
          BY <4>4, <1>0 DEF PopTask
        <4>5. CASE WaitMap
          BY <4>5, <1>0 DEF WaitMap
        <4>6. CASE \E name \in Names : ReplyTask(name)
          BY <4>6 DEF ReplyTask, Idle
        <4>7. CASE WaitMapTask \/ (\E name \in Names : SetMapStat(name)) \/ UNCHANGED vars
          BY <4>7 DEF WaitMapTask, SetMapStat, vars
        <4> QED
          BY <1>5, <4>1, <4>2, <4>3, <4>4, <4>5, <4>6, <4>7
      <3> QED
        BY <3>1 DEF ReduceHeld
    <2> QED
      BY <2>1, <2>2 DEF ReduceTasksKept
  <1> QED
    BY <1>1, <1>2, <1>3, <1>4, <1>5 DEF Next

\* The master counts the files of the command line, and they are all different.
LEMMA FilesCount == IsFiniteSet(Files) /\ Cardinality(Files) = Len(Argv)
  <1>1. Len(Argv) \in Nat /\ DOMAIN Argv = 1..Len(Argv)
    BY ArgvAssumption, LenProperties
  <1>2. IsFiniteSet(1..Len(Argv)) /\ Cardinality(1..Len(Argv)) = Len(Argv)
    <2>1. 1 \in Int /\ Len(Argv) \in Int
          /\ (IF 1 > Len(Argv) THEN 0 ELSE Len(Argv) - 1 + 1) = Len(Argv)
      BY <1>1
    <2> QED
      BY <2>1, FS_Interval
  <1>3. Argv \in Surjection(1..Len(Argv), Files) /\ Argv \in Injection(1..Len(Argv), Files)
    <2>1. Argv \in [1..Len(Argv) -> Files]
      BY <1>1, ArgvAssumption, ElementOfSeq DEF Files
    <2> QED
      BY <2>1, ArgvAssumption DEF Surjection, Injection, Files, IsInjective
  <1> QED
    BY <1>2, <1>3, FS_Surjection

\* A set of finished tasks as large as the command line, or as the number of
\* reduce tasks, is all of them.
LEMMA SizesTell == TimerInv /\ FilesInv => DoneMeansAllReported
  <1> SUFFICES ASSUME TimerInv, FilesInv PROVE DoneMeansAllReported
    OBVIOUS
  <1>1. IsMapDone => Files \subseteq finishedMapTask
    BY FilesCount, FS_Subset DEF IsMapDone, FilesInv
  <1>2. IsFiniteSet(ReduceTasks) /\ Cardinality(ReduceTasks) = ReduceNum
    <2>1. 0 \in Int /\ ReduceNum - 1 \in Int /\ ~(0 > ReduceNum - 1)
          /\ ReduceNum - 1 - 0 + 1 = ReduceNum
      BY NumAssumption
    <2> QED
      BY <2>1, FS_Interval DEF ReduceTasks
  <1>3. Done => ReduceTasks \subseteq finishedReduceTask
    BY <1>2, FS_Subset DEF Done, TimerInv, TypeOK
  <1> QED
    BY <1>1, <1>3 DEF DoneMeansAllReported

\* Where the tasks are, in the words of the properties.
LEMMA TasksTell == TasksInv => NoTaskLost /\ OneCopyPerTask
  <1> SUFFICES ASSUME FilesInv, MapTasks, ReduceTasksKept PROVE NoTaskLost /\ OneCopyPerTask
    BY DEF TasksInv
  <1>1. Len(ListNames) = Len(m_list) /\ \A i \in 1..Len(m_list) : ListNames[i] = m_list[i].name
    BY NamesOfList DEF FilesInv, ListNames
  <1>2. Queued(ListNames) = MapQueued /\ Queued(reduceIndex) = ReduceQueued
    BY <1>1 DEF Queued, MapQueued, ReduceQueued
  <1>3. /\ Out(runningMapWork, curMapIndex) = MapOut
        /\ Out(runningReduceWork, curReduceIndex) = ReduceOut
    BY DEF Out, MapOut, ReduceOut
  <1>4. \A i, j \in 1..Len(m_list) : m_list[i].name = m_list[j].name => i = j
    BY <1>1 DEF MapTasks, Single, Injective
  <1> QED
    BY <1>2, <1>3, <1>4 DEF MapTasks, ReduceTasksKept, Kept, Single, NoTaskLost, OneCopyPerTask

\* Redistribution loses nothing: with names too long for the small-string
\* optimisation, as those of the books are, every task of either phase is finished
\* or in exactly one place, whatever workers report late or never and in whatever
\* order timers end, and isMapDone and Done say true only when all were reported.
THEOREM MasterTasks ==
    ASSUME Short = {}
    PROVE  Spec => []TasksAccounted
  <1>1. TimerInv /\ TasksInv /\ [Next]_vars => TasksInv'
    BY FilesNext, MapTasksNext, ReduceTasksNext DEF TasksInv
  <1>2. TimerInv /\ TasksInv => TasksAccounted
    BY SizesTell, TasksTell DEF TasksInv, TasksAccounted
  <1> QED
    BY <1>1, <1>2, TasksInit, AlwaysTimerInv, PTL DEF Spec

-----------------------------------------------------------------------------
(* The job: the master together with the worker process.                    *)

\* Where a worker thread can be in worker.cpp, and what Myshuffle reads from its bucket.
Pcs == {"unborn", "poll", "ask", "called", "got", "hung", "write", "shuffle", "read",
        "report", "broadcast", "exit"}
Read == [text : [MapWorkers -> [Names -> Nat]], ownOutput : BOOLEAN]

\* The types of what the worker process adds.
JobTypes ==
    /\ wpc \in [Workers -> Pcs]
    /\ task \in [Workers -> Names \cup ReduceTasks \cup {NoTask}]
    /\ todo \in [MapWorkers -> SUBSET ReduceTasks]
    /\ mapHolder \in Seq(Workers)
    /\ reduceHolder \in Seq(Workers)
    /\ Len(mapHolder) = Len(runningMapWork) /\ Len(reduceHolder) = Len(runningReduceWork)
    /\ early \in Nat
    /\ inter \in [MapWorkers -> [ReduceTasks -> [Names -> Nat]]]
    /\ toRead \in [ReduceWorkers -> SUBSET MapWorkers]
    /\ seen \in [ReduceWorkers -> Read]
    /\ output \in [ReduceTasks -> Seq(Read)]

\* A handler in progress is that of a worker which is blocked in the call, and a worker
\* that was answered has a task of its phase.
MapBusy == {"got", "write"}
ReduceBusy == {"got", "shuffle", "read", "write", "report"}
CallerInv ==
    /\ mpc = "start" => \A w \in Workers : wpc[w] = "unborn"
    /\ mpc \in {"start", "spawned", "wait", "woken"} => \A w \in ReduceWorkers : wpc[w] = "unborn"
    /\ rpc.pc \in MapPcs => caller \in MapWorkers /\ wpc[caller] = "called"
    /\ rpc.pc \in ReducePcs => caller \in ReduceWorkers /\ wpc[caller] = "called"
    /\ \A w \in MapWorkers : wpc[w] \in MapBusy => task[w] \in Files
    /\ \A w \in ReduceWorkers : wpc[w] \in ReduceBusy => task[w] \in ReduceTasks

\* Whatever belongs to the reduce phase comes when all files are reported.
MapsDone == Files \subseteq finishedMapTask
Cleaning == mpc \in {"remove", "exit"}
PhaseInv ==
    /\ mpc \in {"woken", "poll", "remove", "exit"} => MapsDone
    /\ \A w \in MapWorkers : wpc[w] = "broadcast" => MapsDone
    /\ \A w \in ReduceWorkers : wpc[w] # "unborn" => MapsDone
    /\ reduceReply # {} => MapsDone
    /\ Cleaning => ReduceTasks \subseteq finishedReduceTask

\* Until main removes the files, what is reported has been appended to every bucket, so
\* has what a mapper has behind it, and the files a reducer has listed are there.
Written(f, j) == \E i \in MapWorkers : inter[i][j][f] >= 1
WrittenInv ==
    ~Cleaning =>
       /\ \A j \in ReduceTasks :
             /\ \A f \in finishedMapTask : Written(f, j)
             /\ \A w \in MapWorkers :
                   wpc[w] = "write" /\ j \notin todo[w] => inter[w][j][task[w]] >= 1
       /\ \A w \in ReduceWorkers :
             wpc[w] = "read" => \A i \in toRead[w] : inter[i][task[w]] # NoFile

\* A reducer that works on a task not yet reported has read the words of every file, or
\* has them before it, and one that reports has appended a complete block.
Ahead(w, f) == \E i \in MapWorkers :
    IF i \in toRead[w] THEN inter[i][task[w]][f] >= 1 ELSE seen[w].text[i][f] >= 1
HasComplete(j) == \E k \in 1..Len(output[j]) : Complete(output[j][k])
Shuffled(w) == task[w] \notin finishedReduceTask =>
    /\ wpc[w] = "read" => \A f \in Files : Ahead(w, f)
    /\ wpc[w] \in {"write", "report"} => Complete(seen[w])
    /\ wpc[w] = "report" => HasComplete(task[w])
ShuffledInv ==
    /\ \A w \in ReduceWorkers : Shuffled(w)
    /\ \A j \in finishedReduceTask : HasComplete(j)

\* Worker w was given entry k of the vector r, whose timer has not judged it yet.
Holds(w, x, r, holder, k) == \E i \in (k + 1)..Len(r) : r[i] = x /\ holder[i] = w

\* If no live worker was timed out, a task that is not finished has one live worker at
\* most, and what is in the files is due to that one or to a report.
Writing(w, f, j) == wpc[w] = "write" /\ task[w] = f /\ j \notin todo[w]
NoCopy(f, j) == \A i \in MapWorkers : inter[i][j][f] = 0
OneCopy(f, j) == \E i \in MapWorkers :
    inter[i][j][f] = 1 /\ \A k \in MapWorkers \ {i} : inter[k][j][f] = 0
MapFiles == ~Cleaning =>
    \A f \in Names, j \in ReduceTasks :
       IF f \in finishedMapTask \/ \E w \in MapWorkers : Writing(w, f, j)
       THEN OneCopy(f, j) ELSE NoCopy(f, j)
MapOnTime ==
    /\ finishedMapTask \cap (MapQueued \cup MapHeld) = {}
    /\ rpc.pc = "startMap" =>
          LET k == Len(runningMapWork) IN
          /\ runningMapWork[k] = rpc.task.name /\ mapHolder[k] = caller
          /\ rpc.task.name \notin finishedMapTask
    /\ \A w \in MapWorkers : wpc[w] \in MapBusy =>
          /\ task[w] \notin finishedMapTask
          /\ Holds(w, task[w], runningMapWork, mapHolder, curMapIndex)
    /\ MapFiles

\* A reducer on its way through the files, and the file it appends to.
HalfRead(w) ==
    /\ ~seen[w].ownOutput
    /\ \A i \in MapWorkers :
          seen[w].text[i] = IF i \in toRead[w] THEN NoFile ELSE inter[i][task[w]]
Reporting(w, j) == wpc[w] = "report" /\ task[w] = j
Reads == \A w \in ReduceWorkers :
    /\ wpc[w] = "read" => HalfRead(w)
    /\ wpc[w] = "write" => Exact(seen[w])
Outputs == \A j \in ReduceTasks :
    IF j \in finishedReduceTask \/ \E w \in ReduceWorkers : Reporting(w, j)
    THEN Len(output[j]) = 1 /\ Exact(output[j][1]) ELSE output[j] = <<>>
ReduceOnTime ==
    /\ finishedReduceTask \cap (ReduceQueued \cup ReduceHeld) = {}
    /\ rpc.pc = "startReduce" =>
          LET k == Len(runningReduceWork) IN
          /\ runningReduceWork[k] = rpc.idx /\ reduceHolder[k] = caller
          /\ rpc.idx \notin finishedReduceTask
    /\ \A w \in ReduceWorkers : wpc[w] \in ReduceBusy =>
          /\ task[w] \notin finishedReduceTask
          /\ Holds(w, task[w], runningReduceWork, reduceHolder, curReduceIndex)
    /\ Reads
    /\ Outputs

\* Both phases, as long as no timer gives up on a live worker.
OnTimeInv == early = 0 => MapOnTime /\ ReduceOnTime

\* What a job does to the master is a step of the master, or none.
LEMMA JobStep == TimerInv /\ [JobNext]_allVars => [Next]_vars
  <1> SUFFICES ASSUME TimerInv, [JobNext]_allVars PROVE [Next]_vars
    OBVIOUS
  <1>0. mapReply \subseteq Names /\ reduceReply \subseteq ReduceTasks
    BY DEF TimerInv, TypeOK
  <1>1. CASE Server
    BY <1>1 DEF Server, ServePop, ServeWaitMap, ServeReplyMap, ServeWaitReduce, ServeReplyReduce, Next
  <1>2. CASE Main
    BY <1>2 DEF Main, MainSpawnMap, MainWait, MainSpawnReduce, MainDone, RemoveFile, MainExit
  <1>3. CASE MapTimer \/ ReduceTimer
    BY <1>3 DEF MapTimer, ReduceTimer, Next
  <1>4. CASE \E w \in MapWorkers : MapWorker(w)
    <2>1. PICK w \in MapWorkers : MapWorker(w)
      BY <1>4
    <2>2. CASE MapAsk(w)
      BY <2>2 DEF MapAsk, Next
    <2>3. CASE MapReport(w)
      <3>1. SetMapStat(task[w]) /\ task[w] \in Names
        BY <2>3, <1>0 DEF MapReport, SetMapStat
      <3> QED BY <3>1 DEF Next
    <2>4. CASE ~MapAsk(w) /\ ~MapReport(w)
      BY <2>1, <2>4 DEF MapWorker, MapPoll, MapBroadcast, MapAskEmpty, MapGot, MapWrite, MapWriteFails
    <2> QED BY <2>2, <2>3, <2>4
  <1>5. CASE \E w \in ReduceWorkers : ReduceWorker(w)
    <2>1. PICK w \in ReduceWorkers : ReduceWorker(w)
      BY <1>5
    <2>2. CASE ReduceAsk(w)
      BY <2>2 DEF ReduceAsk, Next
    <2>3. CASE ReduceReport(w)
      <3>1. SetReduceStat(task[w]) /\ task[w] \in ReduceTasks
        BY <2>3, <1>0 DEF ReduceReport, SetReduceStat
      <3> QED BY <3>1 DEF Next
    <2>4. CASE ~ReduceAsk(w) /\ ~ReduceReport(w)
      BY <2>1, <2>4 DEF ReduceWorker, ReducePoll, ReduceAskEmpty, ReduceGot, ReduceList, ReduceRead,
                        ReduceReadFails, ReduceWrite
    <2> QED BY <2>2, <2>3, <2>4
  <1>6. CASE UNCHANGED allVars
    BY <1>6 DEF allVars
  <1> QED BY <1>1, <1>2, <1>3, <1>4, <1>5, <1>6 DEF JobNext

\* The master of a job is the master alone, as far as timers go.
LEMMA JobTimers == JobSpec => []TimerInv
  <1>1. JobInit => TimerInv
    BY InitTimerInv DEF JobInit
  <1> QED BY <1>1, JobStep, NextTimerInv, PTL DEF JobSpec

\* The RPC handlers and timers behave in a job as the module of the master says, although
\* there tasks are reported at any time by anyone who was ever given one.
THEOREM JobOfMaster == JobSpec => Spec
  <1>1. JobInit => Init
    BY DEF JobInit
  <1> QED BY <1>1, JobStep, JobTimers, PTL DEF JobSpec, Spec

\* A vector grows by one entry.
LEMMA Grows ==
    ASSUME NEW S, NEW s \in Seq(S), NEW x \in S
    PROVE  /\ Append(s, x) \in Seq(S) /\ Len(s) \in Nat /\ Len(Append(s, x)) = Len(s) + 1
           /\ \A i \in 1..Len(s) : Append(s, x)[i] = s[i]
           /\ Append(s, x)[Len(s) + 1] = x
  BY LenProperties, AppendProperties

\* What the process adds has its types at the start, and no worker has a task.
LEMMA JobInitially == JobInit => JobTypes /\ CallerInv /\ PhaseInv /\ WrittenInv /\ ShuffledInv
  <1> SUFFICES ASSUME JobInit PROVE JobTypes /\ CallerInv /\ PhaseInv /\ WrittenInv /\ ShuffledInv
    OBVIOUS
  <1>1. Init
    BY DEF JobInit
  <1>2. /\ runningMapWork = <<>> /\ runningReduceWork = <<>> /\ finishedMapTask = {}
        /\ finishedReduceTask = {} /\ reduceReply = {} /\ rpc.pc = "idle"
    BY <1>1 DEF Init, Idle
  <1>3. JobTypes
    <2>1. NothingRead \in Read /\ NoFile \in [Names -> Nat]
      BY DEF NothingRead, NoFile, Read
    <2> QED BY <1>2, <2>1, NumAssumption DEF JobInit, JobTypes, Pcs, NoTask
  <1>4. CallerInv
    BY <1>2 DEF JobInit, CallerInv, MapPcs, ReducePcs, MapBusy, ReduceBusy, Workers
  <1>5. PhaseInv
    BY <1>2 DEF JobInit, PhaseInv, Cleaning, Workers
  <1>6. WrittenInv
    BY <1>2 DEF JobInit, WrittenInv, Workers
  <1>7. ShuffledInv
    BY <1>2 DEF JobInit, ShuffledInv, Shuffled, Workers
  <1> QED BY <1>3, <1>4, <1>5, <1>6, <1>7

\* The steps of the worker process keep its types.
LEMMA JobTyped ==
    ASSUME TimerInv, FilesInv, JobTypes, CallerInv, [JobNext]_allVars
    PROVE  JobTypes'
  <1> USE DEF JobTypes, Workers, fileVars
  <1>0. /\ DOMAIN wpc = Workers /\ MapWorkers \cap ReduceWorkers = {}
        /\ rpc \in [pc : {"idle"} \cup MapPcs \cup ReducePcs, task : Entry, idx : ReduceTasks \cup {NoTask}]
        /\ runningMapWork \in Seq(Names) /\ runningReduceWork \in Seq(ReduceTasks)
    BY WorkersAssumption DEF TimerInv, TypeOK
  <1>1. CASE ServePop
    BY <1>1 DEF ServePop, PopTask, PopReduceTask, mapVars, reduceVars, jobVars
  <1>2. CASE ServeWaitMap
    <2>1. caller \in MapWorkers
      BY <1>2 DEF ServeWaitMap, WaitMap, CallerInv, MapPcs
    <2>2. PICK name \in Deref(rpc.task) : runningMapWork' = Append(runningMapWork, name)
      BY <1>2 DEF ServeWaitMap, WaitMap
    <2>3. name \in Names
      BY <1>0, DerefType DEF TimerInv
    <2>4. /\ mapHolder' \in Seq(Workers)
          /\ Len(mapHolder') = Len(mapHolder) + 1
      BY <1>2, <2>1, Grows DEF ServeWaitMap
    <2>5. Len(runningMapWork') = Len(runningMapWork) + 1
      BY <1>0, <2>2, <2>3, Grows
    <2> QED BY <1>2, <2>4, <2>5 DEF ServeWaitMap, WaitMap, reduceVars
  <1>3. CASE \E name \in Names : ServeReplyMap(name)
    <2>1. PICK name \in Names : ServeReplyMap(name)
      BY <1>3
    <2>2. /\ task' = [task EXCEPT ![caller] = name] /\ wpc' = [wpc EXCEPT ![caller] = "got"]
          /\ UNCHANGED <<todo, mapHolder, reduceHolder, early, fileVars, runningMapWork,
                         runningReduceWork>>
      BY <2>1 DEF ServeReplyMap, ReplyTask, Goto, reduceVars
    <2> QED BY <2>2 DEF Pcs
  <1>4. CASE ServeWaitReduce
    <2>1. caller \in ReduceWorkers
      BY <1>4 DEF ServeWaitReduce, WaitReduce, CallerInv, ReducePcs
    <2>2. runningReduceWork' = Append(runningReduceWork, rpc.idx) /\ rpc.idx \in ReduceTasks
      BY <1>4 DEF ServeWaitReduce, WaitReduce, TimerInv
    <2>3. /\ reduceHolder' \in Seq(Workers)
          /\ Len(reduceHolder') = Len(reduceHolder) + 1
      BY <1>4, <2>1, Grows DEF ServeWaitReduce
    <2>4. Len(runningReduceWork') = Len(runningReduceWork) + 1
      BY <1>0, <2>2, Grows
    <2> QED BY <1>4, <2>3, <2>4 DEF ServeWaitReduce, WaitReduce, mapVars
  <1>5. CASE ServeReplyReduce
    <2>1. rpc.idx \in ReduceTasks
      BY <1>5 DEF ServeReplyReduce, ReplyReduceTask, TimerInv
    <2> QED BY <1>5, <2>1 DEF ServeReplyReduce, ReplyReduceTask, Goto, Pcs, mapVars
  <1>6. CASE Main
    <2>1. CASE MainSpawnMap \/ MainWait \/ MainSpawnReduce
      BY <2>1 DEF MainSpawnMap, MainWait, MainSpawnReduce, Pcs, vars, mapVars, reduceVars
    <2>2. CASE MainDone \/ MainExit
      BY <2>2 DEF MainDone, MainExit, vars, mapVars, reduceVars
    <2>3. CASE \E i \in MapWorkers, j \in ReduceTasks : RemoveFile(i, j)
      <3>1. NoFile \in [Names -> Nat]
        BY DEF NoFile
      <3> QED BY <2>3, <3>1 DEF RemoveFile, vars, mapVars, reduceVars
    <2> QED BY <1>6, <2>1, <2>2, <2>3 DEF Main
  <1>7. CASE MapTimer
    BY <1>7 DEF MapTimer, WaitMapTask, reduceVars
  <1>8. CASE ReduceTimer
    BY <1>8 DEF ReduceTimer, WaitReduceTask, mapVars
  <1>9. CASE \E w \in MapWorkers : MapWorker(w)
    <2>1. PICK w \in MapWorkers : MapWorker(w)
      BY <1>9
    <2>2. CASE MapPoll(w) \/ MapBroadcast(w) \/ MapAskEmpty(w)
      BY <2>2 DEF MapPoll, MapBroadcast, MapAskEmpty, Goto, Pcs, vars, mapVars, reduceVars
    <2>7. CASE MapGot(w)
      BY <2>7 DEF MapGot, Goto, Pcs, vars, mapVars, reduceVars
    <2>3. CASE MapAsk(w)
      BY <2>3 DEF MapAsk, AssignTask, Goto, Pcs, mapVars, reduceVars
    <2>4. CASE MapWrite(w)
      <3>1. task[w] \in Names
        BY <2>4 DEF MapWrite, Running, CallerInv, MapBusy, Names
      <3> QED BY <2>4, <3>1 DEF MapWrite, vars, mapVars, reduceVars
    <2>5. CASE MapReport(w)
      BY <2>5 DEF MapReport, SetMapStat, Goto, Pcs, reduceVars
    <2>6. CASE MapWriteFails(w)
      BY <2>6 DEF MapWriteFails, vars, mapVars, reduceVars
    <2> QED BY <2>1, <2>2, <2>3, <2>4, <2>5, <2>6, <2>7 DEF MapWorker
  <1>10. CASE \E w \in ReduceWorkers : ReduceWorker(w)
    <2>1. PICK w \in ReduceWorkers : ReduceWorker(w)
      BY <1>10
    <2>2. CASE ReducePoll(w) \/ ReduceAskEmpty(w) \/ ReduceGot(w)
      BY <2>2 DEF ReducePoll, ReduceAskEmpty, ReduceGot, Goto, Pcs, vars, mapVars, reduceVars
    <2>3. CASE ReduceAsk(w)
      BY <2>3 DEF ReduceAsk, AssignReduceTask, Goto, Pcs, mapVars, reduceVars
    <2>4. CASE ReduceList(w)
      <3>1. [NothingRead EXCEPT !.ownOutput = output[task[w]] # <<>>] \in Read
        BY DEF NothingRead, NoFile, Read
      <3>2. {i \in MapWorkers : inter[i][task[w]] # NoFile} \in SUBSET MapWorkers
        OBVIOUS
      <3> QED BY <2>4, <3>1, <3>2 DEF ReduceList, Goto, Pcs, vars, mapVars, reduceVars
    <2>7. CASE ReduceRead(w)
      <3>1. task[w] \in ReduceTasks
        BY <2>7 DEF ReduceRead, Running, CallerInv, ReduceBusy
      <3>2. PICK i \in toRead[w] : /\ seen' = [seen EXCEPT ![w].text[i] = inter[i][task[w]]]
                                   /\ toRead' = [toRead EXCEPT ![w] = @ \ {i}]
        BY <2>7 DEF ReduceRead
      <3>3. i \in MapWorkers /\ inter[i][task[w]] \in [Names -> Nat] /\ seen[w] \in Read
        BY <3>1, <3>2
      <3>4. seen' \in [ReduceWorkers -> Read]
        BY <3>2, <3>3 DEF Read
      <3>5. toRead' \in [ReduceWorkers -> SUBSET MapWorkers]
        BY <3>2
      <3> QED BY <2>7, <3>4, <3>5 DEF ReduceRead, Goto, Pcs, vars, mapVars, reduceVars
    <2>8. CASE ReduceReadFails(w)
      BY <2>8 DEF ReduceReadFails, vars, mapVars, reduceVars
    <2>5. CASE ReduceWrite(w)
      <3>1. task[w] \in ReduceTasks
        BY <2>5 DEF ReduceWrite, Running, CallerInv, ReduceBusy
      <3>2. Append(output[task[w]], seen[w]) \in Seq(Read)
        BY <3>1, Grows
      <3> QED BY <2>5, <3>2 DEF ReduceWrite, Goto, Pcs, vars, mapVars, reduceVars
    <2>6. CASE ReduceReport(w)
      BY <2>6 DEF ReduceReport, SetReduceStat, Goto, Pcs, mapVars
    <2> QED BY <2>1, <2>2, <2>3, <2>4, <2>5, <2>6, <2>7, <2>8 DEF ReduceWorker
  <1>11. CASE UNCHANGED allVars
    BY <1>11 DEF allVars, vars, jobVars, mapVars, reduceVars
  <1> QED BY <1>1, <1>2, <1>3, <1>4, <1>5, <1>6, <1>7, <1>8, <1>9, <1>10, <1>11 DEF JobNext, Server

\* A worker is answered in its own call, with a task of its phase.
LEMMA CallerNext ==
    ASSUME Short = {}, TimerInv, FilesInv, JobTypes, CallerInv, [JobNext]_allVars
    PROVE  CallerInv'
  <1> USE DEF CallerInv, MapPcs, ReducePcs, MapBusy, ReduceBusy
  <1>0. /\ wpc \in [Workers -> Pcs] /\ task \in [Workers -> Names \cup ReduceTasks \cup {NoTask}]
        /\ MapWorkers \cap ReduceWorkers = {} /\ MapWorkers \subseteq Workers /\ ReduceWorkers \subseteq Workers
        /\ rpc \in [pc : {"idle"} \cup MapPcs \cup ReducePcs, task : Entry, idx : ReduceTasks \cup {NoTask}]
    BY WorkersAssumption DEF JobTypes, TimerInv, TypeOK, Workers
  <1>1. CASE ServePop \/ ServeWaitMap \/ ServeWaitReduce
    BY <1>0, <1>1 DEF ServePop, ServeWaitMap, ServeWaitReduce, PopTask, PopReduceTask, WaitMap, WaitReduce, jobVars
  <1>2. CASE \E name \in Names : ServeReplyMap(name)
    <2>1. PICK name \in Names : ServeReplyMap(name)
      BY <1>2
    <2>2. caller \in MapWorkers /\ rpc.task \in Solid /\ name \in Deref(rpc.task) /\ rpc' = Idle
      BY <2>1 DEF ServeReplyMap, ReplyTask, FilesInv
    <2>3. name \in Files
      BY <2>2 DEF Solid, Deref
    <2>4. /\ task' = [task EXCEPT ![caller] = name] /\ wpc' = [wpc EXCEPT ![caller] = "got"] /\ mpc' = mpc
          /\ wpc[caller] = "called"
      BY <2>1 DEF ServeReplyMap, ReplyTask, Goto
    <2> QED BY <1>0, <2>2, <2>3, <2>4 DEF Idle
  <1>3. CASE ServeReplyReduce
    <2>1. caller \in ReduceWorkers /\ rpc.idx \in ReduceTasks /\ rpc' = Idle
      BY <1>3 DEF ServeReplyReduce, ReplyReduceTask, TimerInv
    <2>2. /\ task' = [task EXCEPT ![caller] = rpc.idx] /\ wpc' = [wpc EXCEPT ![caller] = "got"] /\ mpc' = mpc
          /\ wpc[caller] = "called"
      BY <1>3 DEF ServeReplyReduce, ReplyReduceTask, Goto
    <2> QED BY <1>0, <2>1, <2>2 DEF Idle
  <1>4. CASE Main
    <2>1. CASE MainSpawnMap
      BY <1>0, <2>1 DEF MainSpawnMap, vars
    <2>2. CASE \/ MainWait \/ MainDone \/ MainExit
               \/ \E i \in MapWorkers, j \in ReduceTasks : RemoveFile(i, j)
      BY <1>0, <2>2 DEF MainWait, MainDone, RemoveFile, MainExit, vars
    <2>3. CASE MainSpawnReduce
      BY <1>0, <2>3 DEF MainSpawnReduce, vars
    <2> QED BY <1>4, <2>1, <2>2, <2>3 DEF Main
  <1>5. CASE MapTimer \/ ReduceTimer
    BY <1>5 DEF MapTimer, ReduceTimer, WaitMapTask, WaitReduceTask
  <1>6. CASE \E w \in MapWorkers : MapWorker(w)
    <2>1. PICK w \in MapWorkers : MapWorker(w)
      BY <1>6
    <2>2. CASE \/ MapPoll(w) \/ MapBroadcast(w) \/ MapAskEmpty(w) \/ MapGot(w)
               \/ MapWrite(w) \/ MapWriteFails(w)
      BY <1>0, <2>2 DEF MapPoll, MapBroadcast, MapAskEmpty, MapGot, MapWrite, MapWriteFails, Running, Goto, vars
    <2>3. CASE MapAsk(w)
      BY <1>0, <2>3 DEF MapAsk, AssignTask, Running, Goto
    <2>4. CASE MapReport(w)
      BY <1>0, <2>4 DEF MapReport, SetMapStat, Running, Goto
    <2> QED BY <2>1, <2>2, <2>3, <2>4 DEF MapWorker
  <1>7. CASE \E w \in ReduceWorkers : ReduceWorker(w)
    <2>1. PICK w \in ReduceWorkers : ReduceWorker(w)
      BY <1>7
    <2>2. CASE \/ ReducePoll(w) \/ ReduceAskEmpty(w) \/ ReduceGot(w) \/ ReduceList(w)
               \/ ReduceReadFails(w) \/ ReduceWrite(w)
      BY <1>0, <2>2 DEF ReducePoll, ReduceAskEmpty, ReduceGot, ReduceList, ReduceReadFails, ReduceWrite,
                        Running, Goto, vars
    <2>5. CASE ReduceRead(w)
      BY <1>0, <2>5 DEF ReduceRead, Running, Goto, vars
    <2>3. CASE ReduceAsk(w)
      BY <1>0, <2>3 DEF ReduceAsk, AssignReduceTask, Running, Goto
    <2>4. CASE ReduceReport(w)
      BY <1>0, <2>4 DEF ReduceReport, SetReduceStat, Running, Goto
    <2> QED BY <2>1, <2>2, <2>3, <2>4, <2>5 DEF ReduceWorker
  <1>8. CASE UNCHANGED allVars
    BY <1>8 DEF allVars, vars, jobVars
  <1> QED BY <1>1, <1>2, <1>3, <1>4, <1>5, <1>6, <1>7, <1>8 DEF JobNext, Server

\* isMapDone compares sizes; it says that every file was reported.
LEMMA MapsTell ==
    ASSUME TimerInv, FilesInv
    PROVE  /\ IsMapDone <=> MapsDone
           /\ Done => ReduceTasks \subseteq finishedReduceTask
  <1>1. MapsDone => finishedMapTask = Files
    BY DEF MapsDone, FilesInv
  <1> QED BY <1>1, FilesCount, SizesTell DEF IsMapDone, MapsDone, DoneMeansAllReported

\* What was reported stays so.
LEMMA ReportsStay ==
    ASSUME [Next]_vars
    PROVE  finishedMapTask \subseteq finishedMapTask' /\ finishedReduceTask \subseteq finishedReduceTask'
  BY DEF Next, AssignTask, PopTask, WaitMap, ReplyTask, WaitMapTask, SetMapStat, AssignReduceTask,
         PopReduceTask, WaitReduce, ReplyReduceTask, WaitReduceTask, SetReduceStat, vars, mapVars, reduceVars

\* main goes on to the reduce phase when somebody broadcasts while it waits, which only
\* a mapper does that has heard that the map phase is over.
LEMMA PhaseNext ==
    ASSUME TimerInv, FilesInv, JobTypes, CallerInv, PhaseInv, WrittenInv, [JobNext]_allVars
    PROVE  PhaseInv'
  <1> USE DEF PhaseInv, Cleaning
  <1>0. /\ wpc \in [Workers -> Pcs] /\ MapWorkers \cap ReduceWorkers = {}
        /\ MapWorkers \subseteq Workers /\ ReduceWorkers \subseteq Workers
        /\ MapsDone => MapsDone'
        /\ finishedReduceTask \subseteq finishedReduceTask'
    BY WorkersAssumption, JobStep, ReportsStay DEF JobTypes, Workers, MapsDone
  <1>1. CASE ServePop \/ ServeWaitMap \/ ServeWaitReduce
    BY <1>0, <1>1 DEF ServePop, ServeWaitMap, ServeWaitReduce, PopTask, PopReduceTask, WaitMap, WaitReduce, jobVars
  <1>2. CASE \E name \in Names : ServeReplyMap(name)
    <2>1. /\ caller \in MapWorkers /\ wpc' = [wpc EXCEPT ![caller] = "got"] /\ mpc' = mpc
          /\ reduceReply' = reduceReply
      BY <1>2 DEF ServeReplyMap, ReplyTask, CallerInv, MapPcs, Goto
    <2> QED BY <1>0, <2>1
  <1>3. CASE ServeReplyReduce
    <2>1. /\ caller \in ReduceWorkers /\ wpc[caller] = "called" /\ mpc' = mpc
          /\ wpc' = [wpc EXCEPT ![caller] = "got"]
      BY <1>3 DEF ServeReplyReduce, ReplyReduceTask, CallerInv, ReducePcs, Goto
    <2> QED BY <1>0, <2>1
  <1>4. CASE Main
    <2>1. CASE MainSpawnMap
      BY <1>0, <2>1 DEF MainSpawnMap, vars
    <2>2. CASE MainWait
      BY <1>0, <2>2 DEF MainWait, vars
    <2>3. CASE MainSpawnReduce
      BY <1>0, <2>3 DEF MainSpawnReduce, vars
    <2>4. CASE MainDone
      BY <1>0, <2>4, MapsTell DEF MainDone, Cleaning, vars
    <2>5. CASE MainExit \/ \E i \in MapWorkers, j \in ReduceTasks : RemoveFile(i, j)
      BY <1>0, <2>5 DEF MainExit, RemoveFile, Cleaning, vars
    <2> QED BY <1>4, <2>1, <2>2, <2>3, <2>4, <2>5 DEF Main
  <1>5. CASE MapTimer \/ ReduceTimer
    BY <1>0, <1>5 DEF MapTimer, ReduceTimer, WaitMapTask, WaitReduceTask
  <1>6. CASE \E w \in MapWorkers : MapWorker(w)
    <2>1. PICK w \in MapWorkers : MapWorker(w)
      BY <1>6
    <2>2. CASE MapPoll(w)
      BY <1>0, <2>2, MapsTell DEF MapPoll, Goto, vars
    <2>3. CASE MapBroadcast(w)
      BY <1>0, <2>3 DEF MapBroadcast, Running, Goto, vars
    <2>4. CASE MapAskEmpty(w) \/ MapGot(w) \/ MapWrite(w) \/ MapWriteFails(w)
      BY <1>0, <2>4 DEF MapAskEmpty, MapGot, MapWrite, MapWriteFails, Goto, vars
    <2>5. CASE MapAsk(w)
      BY <1>0, <2>5 DEF MapAsk, AssignTask, Goto
    <2>6. CASE MapReport(w)
      BY <1>0, <2>6 DEF MapReport, SetMapStat, Goto
    <2> QED BY <2>1, <2>2, <2>3, <2>4, <2>5, <2>6 DEF MapWorker
  <1>7. CASE \E w \in ReduceWorkers : ReduceWorker(w)
    <2>1. PICK w \in ReduceWorkers : ReduceWorker(w)
      BY <1>7
    <2>2. CASE \/ ReducePoll(w) \/ ReduceAskEmpty(w) \/ ReduceGot(w) \/ ReduceList(w) \/ ReduceWrite(w)
      BY <1>0, <2>2 DEF ReducePoll, ReduceAskEmpty, ReduceGot, ReduceList, ReduceWrite, Running, Goto, vars
    <2>5. CASE ReduceRead(w)
      BY <1>0, <2>5 DEF ReduceRead, Running, Goto, vars
    <2>6. CASE ReduceReadFails(w)
      BY <1>0, <2>6 DEF ReduceReadFails, Running, WrittenInv, Cleaning, vars
    <2>3. CASE ReduceAsk(w)
      BY <1>0, <2>3 DEF ReduceAsk, AssignReduceTask, Running, Goto
    <2>4. CASE ReduceReport(w)
      BY <1>0, <2>4 DEF ReduceReport, SetReduceStat, Running, Goto
    <2> QED BY <2>1, <2>2, <2>3, <2>4, <2>5, <2>6 DEF ReduceWorker
  <1>8. CASE UNCHANGED allVars
    BY <1>0, <1>8 DEF allVars, vars, jobVars
  <1> QED BY <1>1, <1>2, <1>3, <1>4, <1>5, <1>6, <1>7, <1>8 DEF JobNext, Server

\* Once main removes the files it does so until the process ends, and until then only
\* mappers touch them.
LEMMA FilesStay ==
    ASSUME [JobNext]_allVars, ~Cleaning'
    PROVE  /\ ~Cleaning
           /\ UNCHANGED inter \/ \E w \in MapWorkers : MapWrite(w)
  <1> USE DEF Cleaning, vars, jobVars, fileVars, Goto
  <1>1. CASE Server
    BY <1>1 DEF Server, ServePop, ServeWaitMap, ServeReplyMap, ServeWaitReduce, ServeReplyReduce
  <1>2. CASE Main
    BY <1>2 DEF Main, MainSpawnMap, MainWait, MainSpawnReduce, MainDone, RemoveFile, MainExit
  <1>3. CASE MapTimer \/ ReduceTimer
    BY <1>3 DEF MapTimer, ReduceTimer
  <1>4. CASE \E w \in MapWorkers : MapWorker(w)
    BY <1>4 DEF MapWorker, MapPoll, MapBroadcast, MapAsk, MapAskEmpty, MapGot, MapWrite, MapWriteFails, MapReport
  <1>5. CASE \E w \in ReduceWorkers : ReduceWorker(w)
    BY <1>5 DEF ReduceWorker, ReducePoll, ReduceAsk, ReduceAskEmpty, ReduceGot, ReduceList, ReduceRead,
                ReduceReadFails, ReduceWrite, ReduceReport
  <1>6. CASE UNCHANGED allVars
    BY <1>6 DEF allVars
  <1> QED BY <1>1, <1>2, <1>3, <1>4, <1>5, <1>6 DEF JobNext

\* What a mapper appends.
LEMMA Appended ==
    ASSUME JobTypes, CallerInv, NEW w \in MapWorkers, MapWrite(w)
    PROVE  \E j \in todo[w] :
              /\ j \in ReduceTasks /\ task[w] \in Names /\ wpc[w] = "write" /\ task[w] \in Files
              /\ todo' = [todo EXCEPT ![w] = @ \ {j}]
              /\ inter'[w][j][task[w]] = inter[w][j][task[w]] + 1
              /\ \A i \in MapWorkers, k \in ReduceTasks, f \in Names :
                    /\ inter[i][k][f] \in Nat /\ inter'[i][k][f] \in Nat
                    /\ ~(i = w /\ k = j /\ f = task[w]) => inter'[i][k][f] = inter[i][k][f]
              /\ \A i \in MapWorkers, k \in ReduceTasks : inter[i][k] # NoFile => inter'[i][k] # NoFile
              /\ UNCHANGED <<vars, mpc, wpc, task, early, toRead, seen, output>>
  <1>1. PICK j \in todo[w] : /\ inter' = [inter EXCEPT ![w][j][task[w]] = @ + 1]
                             /\ todo' = [todo EXCEPT ![w] = @ \ {j}]
    BY DEF MapWrite
  <1>2. j \in ReduceTasks /\ task[w] \in Names /\ wpc[w] = "write" /\ task[w] \in Files
    BY <1>1 DEF MapWrite, Running, CallerInv, MapBusy, Names, JobTypes
  <1>3. inter \in [MapWorkers -> [ReduceTasks -> [Names -> Nat]]]
    BY DEF JobTypes
  <1>4. inter'[w][j][task[w]] = inter[w][j][task[w]] + 1
    BY <1>1, <1>2, <1>3
  <1>5. \A i \in MapWorkers, k \in ReduceTasks, f \in Names :
           /\ inter[i][k][f] \in Nat /\ inter'[i][k][f] \in Nat
           /\ ~(i = w /\ k = j /\ f = task[w]) => inter'[i][k][f] = inter[i][k][f]
    BY <1>1, <1>2, <1>3
  <1>6. ASSUME NEW i \in MapWorkers, NEW k \in ReduceTasks, inter[i][k] # NoFile
        PROVE  inter'[i][k] # NoFile
    <2>1. CASE i = w /\ k = j
      BY <1>2, <1>4, <1>5, <2>1 DEF NoFile
    <2>2. CASE ~(i = w /\ k = j)
      BY <1>1, <1>2, <1>3, <1>6, <2>2
    <2> QED BY <2>1, <2>2
  <1> QED BY <1>1, <1>2, <1>4, <1>5, <1>6 DEF MapWrite

\* writeInDisk has appended every bucket when the mapper reports, and the files Myshuffle
\* has listed are removed by nobody but main.
LEMMA WrittenNext ==
    ASSUME TimerInv, FilesInv, JobTypes, CallerInv, PhaseInv, WrittenInv, [JobNext]_allVars
    PROVE  WrittenInv'
  <1> SUFFICES ASSUME ~Cleaning'
               PROVE  WrittenInv'
    BY DEF WrittenInv
  <1> USE DEF WrittenInv, Written
  <1>0. /\ wpc \in [Workers -> Pcs] /\ MapWorkers \cap ReduceWorkers = {}
        /\ MapWorkers \subseteq Workers /\ ReduceWorkers \subseteq Workers
        /\ finishedMapTask \subseteq Files /\ todo \in [MapWorkers -> SUBSET ReduceTasks]
        /\ toRead \in [ReduceWorkers -> SUBSET MapWorkers]
        /\ task \in [Workers -> Names \cup ReduceTasks \cup {NoTask}] /\ Files \subseteq Names
        /\ ~Cleaning
    BY WorkersAssumption, FilesStay DEF JobTypes, Workers, FilesInv, Names
  <1>1. CASE ServePop \/ ServeWaitMap \/ ServeWaitReduce
    BY <1>0, <1>1 DEF ServePop, ServeWaitMap, ServeWaitReduce, PopTask, PopReduceTask, WaitMap, WaitReduce, jobVars,
                fileVars, mapVars
  <1>2. CASE \E name \in Names : ServeReplyMap(name)
    <2>1. PICK name \in Names : ServeReplyMap(name)
      BY <1>2
    <2>2. /\ caller \in MapWorkers /\ wpc' = [wpc EXCEPT ![caller] = "got"]
          /\ task' = [task EXCEPT ![caller] = name] /\ UNCHANGED <<finishedMapTask, inter, toRead, todo>>
      BY <2>1 DEF ServeReplyMap, ReplyTask, CallerInv, MapPcs, Goto, fileVars
    <2> QED BY <1>0, <2>2
  <1>3. CASE ServeReplyReduce
    <2>1. /\ caller \in ReduceWorkers /\ wpc' = [wpc EXCEPT ![caller] = "got"]
          /\ task' = [task EXCEPT ![caller] = rpc.idx] /\ UNCHANGED <<finishedMapTask, inter, toRead, todo>>
      BY <1>3 DEF ServeReplyReduce, ReplyReduceTask, CallerInv, ReducePcs, Goto, mapVars, fileVars
    <2> QED BY <1>0, <2>1
  <1>4. CASE Main
    <2>1. CASE MainSpawnMap
      BY <1>0, <2>1 DEF MainSpawnMap, vars, mapVars, fileVars
    <2>2. CASE MainWait
      BY <1>0, <2>2 DEF MainWait, vars, mapVars, fileVars
    <2>3. CASE MainSpawnReduce
      BY <1>0, <2>3 DEF MainSpawnReduce, vars, mapVars, fileVars
    <2>4. CASE MainDone \/ MainExit \/ \E i \in MapWorkers, j \in ReduceTasks : RemoveFile(i, j)
      BY <1>0, <2>4 DEF MainDone, MainExit, RemoveFile, Cleaning
    <2> QED BY <1>4, <2>1, <2>2, <2>3, <2>4 DEF Main
  <1>5. CASE MapTimer \/ ReduceTimer
    BY <1>0, <1>5 DEF MapTimer, ReduceTimer, WaitMapTask, WaitReduceTask, mapVars, fileVars
  <1>6. CASE \E w \in MapWorkers : MapWorker(w)
    <2>1. PICK w \in MapWorkers : MapWorker(w)
      BY <1>6
    <2>2. CASE MapPoll(w) \/ MapBroadcast(w) \/ MapAskEmpty(w) \/ MapGot(w)
      BY <1>0, <2>2 DEF MapPoll, MapBroadcast, MapAskEmpty, MapGot, Running, Goto, vars, mapVars, fileVars
    <2>3. CASE MapAsk(w)
      BY <1>0, <2>3 DEF MapAsk, AssignTask, Goto, mapVars, fileVars
    <2>4. CASE MapWrite(w)
      <3>1. PICK j \in todo[w] :
               /\ j \in ReduceTasks /\ task[w] \in Names /\ wpc[w] = "write"
               /\ todo' = [todo EXCEPT ![w] = @ \ {j}]
               /\ inter'[w][j][task[w]] = inter[w][j][task[w]] + 1
               /\ \A i \in MapWorkers, k \in ReduceTasks, f \in Names :
                     /\ inter[i][k][f] \in Nat /\ inter'[i][k][f] \in Nat
                     /\ ~(i = w /\ k = j /\ f = task[w]) => inter'[i][k][f] = inter[i][k][f]
               /\ \A i \in MapWorkers, k \in ReduceTasks : inter[i][k] # NoFile => inter'[i][k] # NoFile
               /\ UNCHANGED <<wpc, task, toRead, finishedMapTask>>
        BY <2>4, Appended DEF vars, mapVars
      <3>3. \A i \in MapWorkers, k \in ReduceTasks, f \in Names : inter'[i][k][f] >= inter[i][k][f]
        <4>1. ASSUME NEW i \in MapWorkers, NEW k \in ReduceTasks, NEW f \in Names
              PROVE  inter'[i][k][f] >= inter[i][k][f]
          <5>1. CASE i = w /\ k = j /\ f = task[w]
            BY <3>1, <5>1
          <5>2. CASE ~(i = w /\ k = j /\ f = task[w])
            BY <3>1, <5>2
          <5> QED BY <5>1, <5>2
        <4> QED BY <4>1
      <3>5. ASSUME NEW f \in finishedMapTask, NEW k \in ReduceTasks
            PROVE  \E i \in MapWorkers : inter'[i][k][f] >= 1
        <4>1. PICK i \in MapWorkers : inter[i][k][f] >= 1
          BY <1>0
        <4> QED BY <1>0, <3>1, <3>3, <4>1
      <3>6. ASSUME NEW v \in MapWorkers, NEW k \in ReduceTasks, wpc[v] = "write", k \notin todo'[v]
            PROVE  inter'[v][k][task[v]] >= 1
        <4>1. task[v] \in Names
          BY <1>0, <3>6 DEF CallerInv, MapBusy
        <4>2. CASE v = w /\ k = j
          BY <3>1, <4>2
        <4>3. CASE ~(v = w /\ k = j)
          <5>1. k \notin todo[v]
            BY <1>0, <3>1, <3>6, <4>3
          <5>2. inter[v][k][task[v]] >= 1
            BY <1>0, <3>6, <5>1
          <5> QED BY <3>1, <3>3, <4>1, <5>2
        <4> QED BY <4>2, <4>3
      <3>7. ASSUME NEW v \in ReduceWorkers, wpc[v] = "read", NEW i \in toRead[v]
            PROVE  inter'[i][task[v]] # NoFile
        <4>1. task[v] \in ReduceTasks /\ i \in MapWorkers
          BY <1>0, <3>7 DEF CallerInv, ReduceBusy
        <4> QED BY <1>0, <3>1, <3>7, <4>1
      <3> QED BY <3>1, <3>5, <3>6, <3>7
    <2>5. CASE MapReport(w)
      <3>1. /\ finishedMapTask' = finishedMapTask \cup {task[w]} /\ wpc' = [wpc EXCEPT ![w] = "poll"]
            /\ todo[w] = {} /\ wpc[w] = "write"
            /\ UNCHANGED <<task, todo, inter, toRead>>
        BY <2>5 DEF MapReport, SetMapStat, Running, Goto, fileVars
      <3>2. \A j \in ReduceTasks : inter[w][j][task[w]] >= 1
        BY <1>0, <3>1
      <3> QED BY <1>0, <3>1, <3>2
    <2>6. CASE MapWriteFails(w)
      BY <2>6 DEF MapWriteFails, Cleaning
    <2> QED BY <2>1, <2>2, <2>3, <2>4, <2>5, <2>6 DEF MapWorker
  <1>7. CASE \E w \in ReduceWorkers : ReduceWorker(w)
    <2>1. PICK w \in ReduceWorkers : ReduceWorker(w)
      BY <1>7
    <2>2. CASE \/ ReducePoll(w) \/ ReduceAskEmpty(w) \/ ReduceGot(w) \/ ReduceWrite(w)
      BY <1>0, <2>2 DEF ReducePoll, ReduceAskEmpty, ReduceGot, ReduceWrite, Running, Goto, vars, mapVars, fileVars
    <2>3. CASE ReduceList(w)
      <3>1. /\ wpc' \in [Workers -> Pcs] /\ \A v \in Workers \ {w} : wpc'[v] = wpc[v]
            /\ toRead' = [toRead EXCEPT ![w] = {i \in MapWorkers : inter[i][task[w]] # NoFile}]
            /\ wpc'[w] \in {"read", "write"}
            /\ UNCHANGED <<task, todo, inter, finishedMapTask>>
        BY <1>0, <2>3 DEF ReduceList, Goto, vars, mapVars, Pcs
      <3> QED BY <1>0, <3>1
    <2>6. CASE ReduceRead(w)
      <3>1. /\ \A v \in Workers \ {w} : wpc'[v] = wpc[v]
            /\ wpc[w] = "read" /\ toRead'[w] \subseteq toRead[w]
            /\ \A v \in ReduceWorkers \ {w} : toRead'[v] = toRead[v]
            /\ UNCHANGED <<task, todo, inter, finishedMapTask>>
        BY <1>0, <2>6 DEF ReduceRead, Running, Goto, vars, mapVars
      <3> QED BY <1>0, <3>1
    <2>7. CASE ReduceReadFails(w)
      BY <2>7 DEF ReduceReadFails, Cleaning
    <2>4. CASE ReduceAsk(w)
      BY <1>0, <2>4 DEF ReduceAsk, AssignReduceTask, Running, Goto, mapVars, fileVars
    <2>5. CASE ReduceReport(w)
      BY <1>0, <2>5 DEF ReduceReport, SetReduceStat, Running, Goto, mapVars, fileVars
    <2> QED BY <2>1, <2>2, <2>3, <2>4, <2>5, <2>6, <2>7 DEF ReduceWorker
  <1>8. CASE UNCHANGED allVars
    BY <1>0, <1>8 DEF allVars, vars, jobVars, mapVars, fileVars
  <1> QED BY <1>1, <1>2, <1>3, <1>4, <1>5, <1>6, <1>7, <1>8 DEF JobNext, Server

\* A reducer finds the words of every file in its bucket while its task is not reported,
\* for main removes no file before; and a block once appended stays.
LEMMA ShuffledNext ==
    ASSUME TimerInv, FilesInv, JobTypes, CallerInv, PhaseInv, WrittenInv, ShuffledInv, [JobNext]_allVars
    PROVE  ShuffledInv'
  <1>0. /\ wpc \in [Workers -> Pcs] /\ MapWorkers \cap ReduceWorkers = {}
        /\ MapWorkers \subseteq Workers /\ ReduceWorkers \subseteq Workers
        /\ toRead \in [ReduceWorkers -> SUBSET MapWorkers] /\ Files \subseteq Names
        /\ seen \in [ReduceWorkers -> Read] /\ output \in [ReduceTasks -> Seq(Read)]
        /\ inter \in [MapWorkers -> [ReduceTasks -> [Names -> Nat]]]
        /\ task \in [Workers -> Names \cup ReduceTasks \cup {NoTask}]
        /\ finishedReduceTask \subseteq finishedReduceTask'
    BY WorkersAssumption, JobStep, ReportsStay DEF JobTypes, Workers, Names
  <1>a. ASSUME NEW w \in ReduceWorkers, wpc[w] \in ReduceBusy, task[w] \notin finishedReduceTask
        PROVE  ~Cleaning /\ MapsDone /\ task[w] \in ReduceTasks
    BY <1>a DEF PhaseInv, CallerInv, ReduceBusy
  <1> DEFINE Still == UNCHANGED <<toRead, seen, output, inter>>
             Same(w) == wpc'[w] = wpc[w] /\ task'[w] = task[w]
             Away(w) == wpc'[w] \notin {"read", "write", "report"}
  <1>b. ASSUME Still, UNCHANGED finishedReduceTask, \A w \in ReduceWorkers : Same(w) \/ Away(w)
        PROVE  ShuffledInv'
    BY <1>b DEF ShuffledInv, Shuffled, Ahead, Complete, HasComplete
  <1>c. ASSUME NEW v \in ReduceWorkers, Same(v), seen'[v] = seen[v], UNCHANGED <<output, finishedReduceTask>>,
               wpc[v] = "read" /\ task[v] \notin finishedReduceTask => \A f \in Files : Ahead(v, f)'
        PROVE  Shuffled(v)'
    <2>1. Shuffled(v)
      BY DEF ShuffledInv
    <2>2. Complete(seen[v])' <=> Complete(seen[v])
      BY <1>c DEF Complete
    <2>3. HasComplete(task[v])' <=> HasComplete(task[v])
      BY <1>c DEF Complete, HasComplete
    <2> QED BY <1>c, <2>1, <2>2, <2>3 DEF Shuffled
  <1>d. output' = output => \A j : HasComplete(j) <=> HasComplete(j)'
    BY DEF Complete, HasComplete
  <1>1. CASE ServePop \/ ServeWaitMap \/ ServeWaitReduce
    <2>1. Still /\ UNCHANGED <<finishedReduceTask, wpc, task>>
      BY <1>1 DEF ServePop, ServeWaitMap, ServeWaitReduce, PopTask, PopReduceTask, WaitMap, WaitReduce, jobVars,
                  fileVars, reduceVars
    <2> QED BY <1>b, <2>1
  <1>2. CASE \E name \in Names : ServeReplyMap(name)
    <2>1. PICK name \in Names : ServeReplyMap(name)
      BY <1>2
    <2>2. /\ caller \in MapWorkers /\ wpc' = [wpc EXCEPT ![caller] = "got"]
          /\ task' = [task EXCEPT ![caller] = name] /\ Still /\ UNCHANGED finishedReduceTask
      BY <2>1 DEF ServeReplyMap, ReplyTask, CallerInv, MapPcs, Goto, fileVars, reduceVars
    <2> QED BY <1>0, <1>b, <2>2
  <1>3. CASE ServeReplyReduce
    <2>1. /\ caller \in ReduceWorkers /\ wpc' = [wpc EXCEPT ![caller] = "got"]
          /\ task' = [task EXCEPT ![caller] = rpc.idx] /\ Still /\ UNCHANGED finishedReduceTask
      BY <1>3 DEF ServeReplyReduce, ReplyReduceTask, CallerInv, ReducePcs, Goto, fileVars
    <2> QED BY <1>0, <1>b, <2>1
  <1>4. CASE Main
    <2> USE DEF vars, reduceVars, fileVars
    <2>1. CASE MainSpawnMap
      BY <1>0, <1>b, <2>1 DEF MainSpawnMap
    <2>2. CASE MainWait \/ MainDone \/ MainExit
      BY <1>b, <2>2 DEF MainWait, MainDone, MainExit
    <2>3. CASE MainSpawnReduce
      BY <1>0, <1>b, <2>3 DEF MainSpawnReduce
    <2>4. CASE \E i \in MapWorkers, j \in ReduceTasks : RemoveFile(i, j)
      <3>1. UNCHANGED <<toRead, seen, output, wpc, task, finishedReduceTask>> /\ Cleaning
        BY <2>4 DEF RemoveFile, Cleaning
      <3>2. \A w \in ReduceWorkers : wpc[w] \in ReduceBusy => task[w] \in finishedReduceTask
        BY <1>a, <3>1
      <3> QED BY <3>1, <3>2 DEF ShuffledInv, Shuffled, Complete, HasComplete, ReduceBusy
    <2> QED BY <1>4, <2>1, <2>2, <2>3, <2>4 DEF Main
  <1>5. CASE MapTimer \/ ReduceTimer
    <2>1. Still /\ UNCHANGED <<finishedReduceTask, wpc, task>>
      BY <1>5 DEF MapTimer, ReduceTimer, WaitMapTask, WaitReduceTask, fileVars, reduceVars
    <2> QED BY <1>b, <2>1
  <1>6. CASE \E w \in MapWorkers : MapWorker(w)
    <2>1. PICK w \in MapWorkers : MapWorker(w)
      BY <1>6
    <2>2. CASE MapPoll(w) \/ MapBroadcast(w) \/ MapAskEmpty(w) \/ MapGot(w) \/ MapWriteFails(w)
      <3>1. /\ Still /\ UNCHANGED <<finishedReduceTask, task>>
            /\ \A v \in ReduceWorkers : wpc'[v] = wpc[v]
        BY <1>0, <2>2 DEF MapPoll, MapBroadcast, MapAskEmpty, MapGot, MapWriteFails, Goto, vars, reduceVars, fileVars
      <3> QED BY <1>b, <3>1
    <2>3. CASE MapAsk(w) \/ MapReport(w)
      <3>1. /\ Still /\ UNCHANGED <<finishedReduceTask, task>>
            /\ \A v \in ReduceWorkers : wpc'[v] = wpc[v]
        BY <1>0, <2>3 DEF MapAsk, AssignTask, MapReport, SetMapStat, Goto, reduceVars, fileVars
      <3> QED BY <1>b, <3>1
    <2>4. CASE MapWrite(w)
      <3>1. PICK j \in todo[w] :
               /\ j \in ReduceTasks /\ task[w] \in Names
               /\ inter'[w][j][task[w]] = inter[w][j][task[w]] + 1
               /\ \A i \in MapWorkers, k \in ReduceTasks, f \in Names :
                     /\ inter[i][k][f] \in Nat /\ inter'[i][k][f] \in Nat
                     /\ ~(i = w /\ k = j /\ f = task[w]) => inter'[i][k][f] = inter[i][k][f]
               /\ UNCHANGED <<wpc, task, toRead, seen, output, finishedReduceTask>>
        BY <2>4, Appended DEF vars, reduceVars
      <3>2. ASSUME NEW i \in MapWorkers, NEW k \in ReduceTasks, NEW f \in Names
            PROVE  inter'[i][k][f] >= inter[i][k][f]
        <4>1. CASE i = w /\ k = j /\ f = task[w]
          BY <3>1, <4>1
        <4>2. CASE ~(i = w /\ k = j /\ f = task[w])
          BY <3>1, <4>2
        <4> QED BY <4>1, <4>2
      <3>3. ASSUME NEW v \in ReduceWorkers, wpc[v] = "read", task[v] \notin finishedReduceTask,
                   NEW f \in Files
            PROVE  Ahead(v, f)'
        <4>1. task[v] \in ReduceTasks /\ Ahead(v, f) /\ f \in Names
          BY <1>0, <1>a, <3>3 DEF ReduceBusy, ShuffledInv, Shuffled
        <4>2. PICK i \in MapWorkers :
                 IF i \in toRead[v] THEN inter[i][task[v]][f] >= 1 ELSE seen[v].text[i][f] >= 1
          BY <4>1 DEF Ahead
        <4>3. inter[i][task[v]][f] >= 1 => inter'[i][task[v]][f] >= 1
          BY <3>1, <3>2, <4>1
        <4> QED BY <3>1, <4>2, <4>3 DEF Ahead
      <3>4. \A v \in ReduceWorkers : Shuffled(v)'
        BY <1>c, <3>1, <3>3
      <3> QED BY <1>d, <3>1, <3>4 DEF ShuffledInv
    <2> QED BY <2>1, <2>2, <2>3, <2>4 DEF MapWorker
  <1>7. CASE \E w \in ReduceWorkers : ReduceWorker(w)
    <2>1. PICK w \in ReduceWorkers : ReduceWorker(w)
      BY <1>7
    <2>2. CASE ReducePoll(w) \/ ReduceAskEmpty(w) \/ ReduceGot(w) \/ ReduceReadFails(w)
      <3>1. /\ Still /\ UNCHANGED <<finishedReduceTask, task>>
            /\ \A v \in ReduceWorkers : Same(v) \/ Away(v)
        BY <1>0, <2>2 DEF ReducePoll, ReduceAskEmpty, ReduceGot, ReduceReadFails, Goto, vars, reduceVars, fileVars
      <3> QED BY <1>b, <3>1
    <2>3. CASE ReduceAsk(w)
      <3>1. /\ Still /\ UNCHANGED <<finishedReduceTask, task>>
            /\ \A v \in ReduceWorkers : Same(v) \/ Away(v)
        BY <1>0, <2>3 DEF ReduceAsk, AssignReduceTask, Goto, fileVars, reduceVars
      <3> QED BY <1>b, <3>1
    <2>4. CASE ReduceList(w)
      <3> DEFINE listed == {i \in MapWorkers : inter[i][task[w]] # NoFile}
      <3>1. /\ wpc[w] = "shuffle" /\ wpc'[w] = IF listed = {} THEN "write" ELSE "read"
            /\ \A v \in Workers \ {w} : wpc'[v] = wpc[v]
            /\ toRead' = [toRead EXCEPT ![w] = listed]
            /\ \A v \in ReduceWorkers \ {w} : seen'[v] = seen[v]
            /\ UNCHANGED <<task, inter, output, finishedReduceTask>>
        BY <1>0, <2>4 DEF ReduceList, Running, Goto, vars, reduceVars
      <3>2. ASSUME task[w] \notin finishedReduceTask, NEW f \in Files
            PROVE  \E i \in listed : inter[i][task[w]][f] >= 1
        <4>1. Written(f, task[w]) /\ f \in Names
          BY <1>0, <1>a, <3>1, <3>2 DEF WrittenInv, MapsDone, ReduceBusy
        <4>2. PICK i \in MapWorkers : inter[i][task[w]][f] >= 1
          BY <4>1 DEF Written
        <4>3. inter[i][task[w]] # NoFile
          BY <4>1, <4>2 DEF NoFile
        <4> QED BY <4>2, <4>3
      <3>3. task[w] \notin finishedReduceTask /\ wpc'[w] = "read" => \A f \in Files : Ahead(w, f)'
        BY <1>0, <3>1, <3>2 DEF Ahead
      <3>4. task[w] \notin finishedReduceTask /\ wpc'[w] = "write" => Complete(seen[w])'
        BY <3>1, <3>2 DEF Complete
      <3>5. \A v \in ReduceWorkers \ {w}, f \in Files : Ahead(v, f) => Ahead(v, f)'
        BY <1>0, <3>1 DEF Ahead
      <3>6. Shuffled(w)'
        BY <1>0, <3>1, <3>3, <3>4 DEF Shuffled
      <3>7. \A v \in ReduceWorkers \ {w} : Shuffled(v)'
        BY <1>0, <1>c, <3>1, <3>5 DEF ShuffledInv, Shuffled
      <3> QED BY <1>d, <3>1, <3>6, <3>7 DEF ShuffledInv
    <2>5. CASE ReduceRead(w)
      <3>1. PICK i \in toRead[w] : /\ seen' = [seen EXCEPT ![w].text[i] = inter[i][task[w]]]
                                   /\ toRead' = [toRead EXCEPT ![w] = @ \ {i}]
        BY <2>5 DEF ReduceRead
      <3>2. /\ wpc[w] = "read" /\ wpc'[w] = IF toRead'[w] = {} THEN "write" ELSE "read"
            /\ \A v \in Workers \ {w} : wpc'[v] = wpc[v]
            /\ UNCHANGED <<task, inter, output, finishedReduceTask>>
        BY <1>0, <2>5 DEF ReduceRead, Running, Goto, vars, reduceVars
      <3>3. i \in MapWorkers /\ seen[w] \in Read
        BY <1>0, <3>1
      <3>4. /\ seen'[w].text[i] = inter[i][task[w]]
            /\ \A k \in MapWorkers \ {i} : seen'[w].text[k] = seen[w].text[k]
            /\ \A v \in ReduceWorkers \ {w} : seen'[v] = seen[v] /\ toRead'[v] = toRead[v]
            /\ toRead'[w] = toRead[w] \ {i}
        BY <1>0, <3>1, <3>3 DEF Read
      <3>5. ASSUME task[w] \notin finishedReduceTask, NEW f \in Files
            PROVE  Ahead(w, f)'
        <4>1. PICK k \in MapWorkers :
                 IF k \in toRead[w] THEN inter[k][task[w]][f] >= 1 ELSE seen[w].text[k][f] >= 1
          BY <3>2, <3>5 DEF ShuffledInv, Shuffled, Ahead
        <4> QED BY <3>2, <3>4, <4>1 DEF Ahead
      <3>6. task[w] \notin finishedReduceTask /\ wpc'[w] = "write" => Complete(seen[w])'
        BY <3>2, <3>5 DEF Ahead, Complete
      <3>7. \A v \in ReduceWorkers \ {w}, f \in Files : Ahead(v, f) => Ahead(v, f)'
        BY <3>2, <3>4 DEF Ahead
      <3>8. Shuffled(w)'
        BY <1>0, <3>2, <3>5, <3>6 DEF Shuffled
      <3>9. \A v \in ReduceWorkers \ {w} : Shuffled(v)'
        BY <1>0, <1>c, <3>2, <3>4, <3>7 DEF ShuffledInv, Shuffled
      <3> QED BY <1>d, <3>2, <3>8, <3>9 DEF ShuffledInv
    <2>6. CASE ReduceWrite(w)
      <3>1. /\ wpc[w] = "write" /\ wpc' = [wpc EXCEPT ![w] = "report"]
            /\ output' = [output EXCEPT ![task[w]] = Append(@, seen[w])]
            /\ UNCHANGED <<task, inter, toRead, seen, finishedReduceTask>>
        BY <2>6 DEF ReduceWrite, Running, Goto, vars, reduceVars
      <3>2. /\ task[w] \in ReduceTasks /\ output[task[w]] \in Seq(Read) /\ seen[w] \in Read
            /\ output'[task[w]] = Append(output[task[w]], seen[w])
            /\ \A j \in ReduceTasks \ {task[w]} : output'[j] = output[j]
        BY <1>0, <3>1 DEF CallerInv, ReduceBusy
      <3>3. /\ Len(output[task[w]]) \in Nat /\ Len(output'[task[w]]) = Len(output[task[w]]) + 1
            /\ \A k \in 1..Len(output[task[w]]) : output'[task[w]][k] = output[task[w]][k]
            /\ output'[task[w]][Len(output[task[w]]) + 1] = seen[w]
        BY <3>2, Grows
      <3>4. Complete(seen[w]) => HasComplete(task[w])'
        <4>1. Len(output[task[w]]) + 1 \in 1..Len(output'[task[w]])
          BY <3>3
        <4> QED BY <3>1, <3>3, <4>1 DEF Complete, HasComplete
      <3>5. ASSUME NEW j \in ReduceTasks, HasComplete(j) PROVE HasComplete(j)'
        <4>1. PICK k \in 1..Len(output[j]) : Complete(output[j][k])
          BY <3>5 DEF HasComplete
        <4>2. k \in 1..Len(output'[j]) /\ output'[j][k] = output[j][k]
          <5>1. CASE j = task[w]
            BY <3>3, <4>1, <5>1
          <5>2. CASE j # task[w]
            BY <3>2, <4>1, <5>2
          <5> QED BY <5>1, <5>2
        <4> QED BY <4>1, <4>2 DEF Complete, HasComplete
      <3>6. \A v \in ReduceWorkers : wpc'[v] = "report" /\ task[v] \notin finishedReduceTask => HasComplete(task[v])'
        BY <1>0, <1>a, <3>1, <3>4, <3>5 DEF ShuffledInv, Shuffled, ReduceBusy
      <3>7. \A j \in finishedReduceTask : HasComplete(j)'
        BY <3>5 DEF ShuffledInv, TimerInv, TypeOK
      <3>8. \A v \in ReduceWorkers : Shuffled(v)'
        BY <1>0, <3>1, <3>6 DEF ShuffledInv, Shuffled, Ahead, Complete
      <3> QED BY <3>1, <3>7, <3>8 DEF ShuffledInv
    <2>7. CASE ReduceReport(w)
      <3>1. /\ wpc[w] = "report" /\ wpc' = [wpc EXCEPT ![w] = "poll"]
            /\ finishedReduceTask' = finishedReduceTask \cup {task[w]}
            /\ UNCHANGED <<task, inter, toRead, seen, output>>
        BY <2>7 DEF ReduceReport, SetReduceStat, Running, Goto, fileVars
      <3>2. HasComplete(task[w])
        BY <3>1 DEF ShuffledInv, Shuffled
      <3>3. \A v \in ReduceWorkers : Shuffled(v)'
        BY <1>0, <3>1 DEF ShuffledInv, Shuffled, Ahead, Complete, HasComplete
      <3> QED BY <3>1, <3>2, <3>3 DEF ShuffledInv, Complete, HasComplete
    <2> QED BY <2>1, <2>2, <2>3, <2>4, <2>5, <2>6, <2>7 DEF ReduceWorker
  <1>8. CASE UNCHANGED allVars
    BY <1>b, <1>8 DEF allVars, vars, jobVars, fileVars, reduceVars
  <1> QED BY <1>1, <1>2, <1>3, <1>4, <1>5, <1>6, <1>7, <1>8 DEF JobNext, Server

\* All of this holds at any time of a job.
JobInv == TimerInv /\ TasksInv /\ JobTypes /\ CallerInv /\ PhaseInv /\ WrittenInv /\ ShuffledInv

\* No step of the master, of a timer or of a worker breaks it.
LEMMA JobAlways ==
    ASSUME Short = {}
    PROVE  JobSpec => []JobInv
  <1>1. JobInit => JobInv
    BY InitTimerInv, TasksInit, JobInitially DEF JobInit, JobInv
  <1>2. JobInv /\ [JobNext]_allVars => JobInv'
    BY JobStep, NextTimerInv, FilesNext, MapTasksNext, ReduceTasksNext, JobTyped, CallerNext, PhaseNext,
       WrittenNext, ShuffledNext DEF JobInv, TasksInv
  <1> QED BY <1>1, <1>2, PTL DEF JobSpec

\* The phases of a job do not overlap (worker.cpp:375 waits without a predicate), and
\* nothing is lost between them, whatever workers hang and whatever timers give up: the
\* result of a reduce task is computed from all files, removed one by one only when
\* every task is reported.
THEOREM JobReadsAll ==
    ASSUME Short = {}
    PROVE  JobSpec => []ReduceReadsAll
  <1>1. JobInv => ReduceReadsAll
    BY MapsTell DEF JobInv, TasksInv, PhaseInv, ShuffledInv, Shuffled, HasComplete, ReduceReadsAll, ReduceAfterMap,
                    NothingShuffledAway
  <1> QED BY <1>1, JobAlways, PTL

-----------------------------------------------------------------------------
(* A job in which no live worker is timed out.                               *)

\* Tasks that are out have one entry whose timer is still to come, and one holder.
LEMMA OneHolder ==
    ASSUME NEW r, NEW k, Injective(r, k + 1), NEW holder, NEW x, NEW w, NEW v,
           Holds(w, x, r, holder, k), Holds(v, x, r, holder, k)
    PROVE  w = v
  BY DEF Holds, Injective

\* Who holds a task goes on to hold it when another is handed out, and when a timer
\* judges the entry of a task that is finished or whose worker hangs.
LEMMA HoldsGrows ==
    ASSUME NEW S, NEW T, NEW r \in Seq(S), NEW y \in S, NEW holder \in Seq(T), NEW v \in T, NEW k \in Nat,
           Len(holder) = Len(r), NEW x, NEW w, Holds(w, x, r, holder, k)
    PROVE  Holds(w, x, Append(r, y), Append(holder, v), k)
  <1>1. PICK i \in (k + 1)..Len(r) : r[i] = x /\ holder[i] = w
    BY DEF Holds
  <1>2. /\ Len(r) \in Nat /\ Len(Append(r, y)) = Len(r) + 1
        /\ \A j \in 1..Len(r) : Append(r, y)[j] = r[j] /\ Append(holder, v)[j] = holder[j]
    BY Grows
  <1>3. i \in 1..Len(r) /\ i \in (k + 1)..Len(Append(r, y))
    BY <1>1, <1>2
  <1> QED BY <1>1, <1>2, <1>3 DEF Holds

\* A timer that judges an entry of another task, or of another worker, leaves
\* what this one holds.
LEMMA HoldsJudged ==
    ASSUME NEW r, Len(r) \in Nat, NEW holder, NEW k \in Nat, NEW x, NEW w, Holds(w, x, r, holder, k),
           r[k + 1] # x \/ holder[k + 1] # w
    PROVE  Holds(w, x, r, holder, k + 1)
  BY DEF Holds

\* The entry waitMap or waitReduce has just added is held by the caller.
LEMMA HoldsLast ==
    ASSUME NEW r, Len(r) \in Nat, NEW k \in Nat, k < Len(r), NEW holder
    PROVE  Holds(holder[Len(r)], r[Len(r)], r, holder, k)
  BY DEF Holds

\* Steps that hand out, judge, write and report nothing of the map phase, or of the
\* reduce phase.
MapQuiet ==
    /\ UNCHANGED <<m_list, finishedMapTask, runningMapWork, curMapIndex, mapHolder>>
    /\ MapHeld' \subseteq MapHeld
    /\ rpc'.pc = "startMap" => rpc.pc = "startMap" /\ rpc'.task = rpc.task /\ caller' = caller
    /\ \A w \in MapWorkers :
          \/ wpc'[w] = wpc[w] /\ task'[w] = task[w] /\ todo'[w] = todo[w]
          \/ wpc[w] # "write" /\ wpc'[w] \notin MapBusy
    /\ ~Cleaning' => ~Cleaning /\ inter' = inter

ReduceQuiet ==
    /\ UNCHANGED <<reduceIndex, finishedReduceTask, runningReduceWork, curReduceIndex, reduceHolder, output>>
    /\ ReduceHeld' \subseteq ReduceHeld
    /\ rpc'.pc = "startReduce" => rpc.pc = "startReduce" /\ rpc'.idx = rpc.idx /\ caller' = caller
    /\ \A w \in ReduceWorkers :
          \/ /\ wpc'[w] = wpc[w] /\ task'[w] = task[w]
             /\ seen'[w] = seen[w] /\ toRead'[w] = toRead[w]
          \/ wpc[w] # "report" /\ wpc'[w] \notin ReduceBusy
    /\ (\E w \in ReduceWorkers : wpc'[w] = "read") => inter' = inter

\* What has been written is the same if nobody writes or reports.
LEMMA MapFilesStay ==
    ASSUME MapFiles, ~Cleaning' => ~Cleaning /\ inter' = inter, finishedMapTask' = finishedMapTask,
           \A w \in MapWorkers : \A f : \A j \in ReduceTasks : Writing(w, f, j)' <=> Writing(w, f, j)
    PROVE  MapFiles'
  BY DEF MapFiles, OneCopy, NoCopy

\* What reducers have read is the same if none of them goes on.
LEMMA ReadsStay ==
    ASSUME Reads,
           \A v \in ReduceWorkers : wpc'[v] \in {"read", "write"} =>
              /\ wpc'[v] = wpc[v] /\ task'[v] = task[v]
              /\ seen'[v] = seen[v] /\ toRead'[v] = toRead[v],
           (\E v \in ReduceWorkers : wpc'[v] = "read") => inter' = inter
    PROVE  Reads'
  BY DEF Reads, HalfRead, Exact

\* What has been appended to the result is the same if nobody appends or reports.
LEMMA OutputsStay ==
    ASSUME Outputs, UNCHANGED <<output, finishedReduceTask>>,
           \A w \in ReduceWorkers : \A j \in ReduceTasks : Reporting(w, j)' <=> Reporting(w, j)
    PROVE  Outputs'
  <1>1. \A j \in ReduceTasks : Exact(output[j][1])' <=> Exact(output[j][1])
    BY DEF Exact
  <1> QED BY <1>1 DEF Outputs

\* What is said of the map phase stays true in a step that is quiet for it.
LEMMA MapStill == MapOnTime /\ MapQuiet => MapOnTime'
  <1> SUFFICES ASSUME MapOnTime, MapQuiet PROVE MapOnTime'
    OBVIOUS
  <1> USE DEF MapQuiet
  <1>1. (finishedMapTask \cap (MapQueued \cup MapHeld) = {})'
    BY DEF MapOnTime, MapQueued
  <1>2. ASSUME NEW w \in MapWorkers, wpc'[w] \in MapBusy
        PROVE  /\ task'[w] \notin finishedMapTask
               /\ Holds(w, task'[w], runningMapWork, mapHolder, curMapIndex)
    BY <1>2 DEF MapOnTime
  <1>3. \A w \in MapWorkers : \A f, j : Writing(w, f, j)' <=> Writing(w, f, j)
    BY DEF Writing, MapBusy
  <1>4. MapFiles'
    BY <1>3, MapFilesStay DEF MapOnTime
  <1> QED BY <1>1, <1>2, <1>4 DEF MapOnTime, Holds

\* What is said of the reduce phase stays true in a step that is quiet for it.
LEMMA ReduceStill == ReduceOnTime /\ ReduceQuiet => ReduceOnTime'
  <1> SUFFICES ASSUME ReduceOnTime, ReduceQuiet PROVE ReduceOnTime'
    OBVIOUS
  <1> USE DEF ReduceQuiet
  <1>1. (finishedReduceTask \cap (ReduceQueued \cup ReduceHeld) = {})'
    BY DEF ReduceOnTime, ReduceQueued
  <1>2. ASSUME NEW w \in ReduceWorkers, wpc'[w] \in ReduceBusy
        PROVE  /\ task'[w] \notin finishedReduceTask
               /\ Holds(w, task'[w], runningReduceWork, reduceHolder, curReduceIndex)
    BY <1>2 DEF ReduceOnTime
  <1>3. Reads'
    BY ReadsStay DEF ReduceOnTime, ReduceBusy
  <1>4. \A w \in ReduceWorkers : \A j : Reporting(w, j)' <=> Reporting(w, j)
    BY DEF Reporting, ReduceBusy
  <1>5. Outputs'
    BY <1>4, OutputsStay DEF ReduceOnTime
  <1>6. rpc'.pc = "startReduce" =>
            LET k == Len(runningReduceWork) IN
            /\ runningReduceWork[k] = rpc'.idx /\ reduceHolder[k] = caller'
            /\ rpc'.idx \notin finishedReduceTask
    BY DEF ReduceOnTime
  <1> QED BY <1>1, <1>2, <1>3, <1>5, <1>6 DEF ReduceOnTime, Holds

\* The types of what the map phase works with.
MapData ==
    /\ runningMapWork \in Seq(Files) /\ mapHolder \in Seq(Workers) /\ Len(mapHolder) = Len(runningMapWork)
    /\ Len(runningMapWork) \in Nat /\ curMapIndex \in Nat /\ mapTimers \in Nat
    /\ m_list \in Seq(Solid) /\ mapReply \subseteq Files /\ finishedMapTask \subseteq Files
    /\ wpc \in [Workers -> Pcs] /\ task \in [Workers -> Names \cup ReduceTasks \cup {NoTask}]
    /\ todo \in [MapWorkers -> SUBSET ReduceTasks] /\ inter \in [MapWorkers -> [ReduceTasks -> [Names -> Nat]]]
    /\ MapWorkers \cap ReduceWorkers = {} /\ MapWorkers \subseteq Workers /\ ReduceWorkers \subseteq Workers
    /\ Files \subseteq Names /\ early \in Nat
    /\ rpc \in [pc : {"idle"} \cup MapPcs \cup ReducePcs, task : Entry, idx : ReduceTasks \cup {NoTask}]

\* At any time of a job they are what the proofs of the map phase expect.
LEMMA HasMapData == JobInv => MapData
  BY WorkersAssumption, LenProperties
     DEF JobInv, TasksInv, FilesInv, TimerInv, TypeOK, JobTypes, MapData, Names, Workers

\* A task that is out is neither queued nor held, and is out once.
LEMMA MapOnce ==
    ASSUME JobInv
    PROVE  /\ Injective(runningMapWork, curMapIndex + 1)
           /\ MapQueued \cap MapOut = {} /\ MapHeld \cap (MapQueued \cup MapOut) = {}
           /\ \A w, x : Holds(w, x, runningMapWork, mapHolder, curMapIndex) => x \in MapOut
  BY TasksTell DEF JobInv, OneCopyPerTask, Holds, MapOut

\* The task a handler pops was queued.
LEMMA OnTimePop ==
    ASSUME JobInv, MapOnTime, PopTask, UNCHANGED jobVars
    PROVE  MapOnTime'
  <1>0. MapData
    BY HasMapData
  <1>1. /\ rpc'.pc = "waitMap" /\ rpc'.task = Back(m_list) /\ m_list' = PopBack(m_list) /\ m_list # <<>>
        /\ UNCHANGED <<finishedMapTask, runningMapWork, curMapIndex>>
    BY <1>0 DEF PopTask, MapData
  <1>2. /\ Len(m_list) \in 1..Len(m_list) /\ Len(PopBack(m_list)) = Len(m_list) - 1 /\ Len(m_list) \in Nat
        /\ \A i \in 1..(Len(m_list) - 1) : PopBack(m_list)[i] = m_list[i]
    <2>1. m_list \in Seq(Solid) /\ m_list # <<>>
      BY <1>0, <1>1 DEF MapData
    <2>2. Len(m_list) \in Nat
      BY <2>1, LenProperties
    <2> QED BY <2>1, <2>2, PopBackType
  <1>3. MapQueued' \subseteq MapQueued
    BY <1>1, <1>2 DEF MapQueued
  <1>4. MapHeld' = {m_list[Len(m_list)].name}
    BY <1>1 DEF MapHeld, Back
  <1>5. MapHeld' \subseteq MapQueued
    BY <1>2, <1>4 DEF MapQueued
  <1>6. MapFiles'
    BY <1>1, MapFilesStay DEF MapOnTime, Writing, Cleaning, jobVars, fileVars
  <1> QED BY <1>1, <1>3, <1>5, <1>6 DEF MapOnTime, Holds, jobVars

\* What waitMap records is not finished, and its worker is the caller.
LEMMA OnTimeWait ==
    ASSUME Short = {}, JobInv, MapOnTime, ServeWaitMap
    PROVE  MapOnTime'
  <1>0. MapData
    BY HasMapData
  <1>1. /\ rpc.pc = "waitMap" /\ rpc.task \in Solid /\ caller \in MapWorkers
    BY DEF ServeWaitMap, WaitMap, JobInv, TasksInv, FilesInv, CallerInv, MapPcs
  <1>2. PICK name \in Deref(rpc.task) : runningMapWork' = Append(runningMapWork, name)
    BY DEF ServeWaitMap, WaitMap
  <1>3. name = rpc.task.name /\ name \in Files
    BY <1>1 DEF Deref, Solid
  <1>4. /\ rpc'.pc = "startMap" /\ rpc'.task = rpc.task /\ mapHolder' = Append(mapHolder, caller)
        /\ UNCHANGED <<m_list, finishedMapTask, curMapIndex, mpc, wpc, task, todo, inter, caller>>
    BY <1>0 DEF ServeWaitMap, WaitMap, MapData, fileVars
  <1>5. /\ Len(runningMapWork') = Len(runningMapWork) + 1
        /\ runningMapWork'[Len(runningMapWork')] = name /\ mapHolder'[Len(runningMapWork')] = caller
    BY <1>0, <1>1, <1>2, <1>3, <1>4, Grows DEF MapData
  <1>6. name \notin finishedMapTask /\ MapHeld' = {}
    BY <1>1, <1>3, <1>4 DEF MapOnTime, MapHeld
  <1>7. ASSUME NEW w \in MapWorkers, wpc[w] \in MapBusy
        PROVE  Holds(w, task[w], runningMapWork', mapHolder', curMapIndex)
    <2>1. Holds(w, task[w], runningMapWork, mapHolder, curMapIndex)
      BY <1>7 DEF MapOnTime
    <2> QED BY <1>0, <1>1, <1>2, <1>3, <1>4, <2>1, HoldsGrows DEF MapData
  <1>8. MapFiles'
    BY <1>4, MapFilesStay DEF MapOnTime, Writing, Cleaning
  <1> QED BY <1>3, <1>4, <1>5, <1>6, <1>7, <1>8 DEF MapOnTime, MapQueued

\* The worker that is answered holds the task.
LEMMA OnTimeReply ==
    ASSUME Short = {}, JobInv, MapOnTime, NEW name \in Names, ServeReplyMap(name)
    PROVE  MapOnTime'
  <1>0. MapData
    BY HasMapData
  <1>1. /\ rpc.pc = "startMap" /\ rpc.task \in Solid /\ caller \in MapWorkers /\ wpc[caller] = "called"
    BY DEF ServeReplyMap, ReplyTask, JobInv, TasksInv, FilesInv, CallerInv, MapPcs
  <1>2. name = rpc.task.name
    BY <1>1 DEF ServeReplyMap, ReplyTask, Deref, Solid
  <1>3. /\ rpc' = Idle /\ task' = [task EXCEPT ![caller] = name] /\ wpc' = [wpc EXCEPT ![caller] = "got"]
        /\ UNCHANGED <<m_list, finishedMapTask, runningMapWork, curMapIndex, mapHolder, mpc, todo, inter>>
    BY DEF ServeReplyMap, ReplyTask, Goto, fileVars
  <1>4. curMapIndex < Len(runningMapWork)
    BY <1>0, <1>1 DEF JobInv, TimerInv, OneTimerPerEntry, MapData
  <1>5. Holds(caller, name, runningMapWork, mapHolder, curMapIndex) /\ name \notin finishedMapTask
    BY <1>0, <1>1, <1>2, <1>4, HoldsLast DEF MapOnTime, MapData
  <1>6. MapHeld' = {} /\ rpc'.pc = "idle"
    BY <1>3 DEF MapHeld, Idle
  <1>7. \A w \in MapWorkers : \A f, j : Writing(w, f, j)' <=> Writing(w, f, j)
    BY <1>0, <1>1, <1>3 DEF Writing, MapData
  <1>8. ASSUME NEW w \in MapWorkers, wpc'[w] \in MapBusy
        PROVE  /\ task'[w] \notin finishedMapTask
               /\ Holds(w, task'[w], runningMapWork, mapHolder, curMapIndex)
    <2>1. CASE w = caller
      BY <1>0, <1>3, <1>5, <2>1 DEF MapData
    <2>2. CASE w # caller
      BY <1>0, <1>3, <1>8, <2>2 DEF MapOnTime, MapData
    <2> QED BY <2>1, <2>2
  <1>9. MapFiles'
    BY <1>3, <1>7, MapFilesStay DEF MapOnTime, Cleaning
  <1>10. (finishedMapTask \cap (MapQueued \cup MapHeld) = {})'
    BY <1>3, <1>6 DEF MapOnTime, MapQueued
  <1> QED BY <1>3, <1>6, <1>8, <1>9, <1>10 DEF MapOnTime, Holds

\* A timer that is on time puts back the task of a worker that hangs, or none.
LEMMA OnTimeTimer ==
    ASSUME JobInv, MapOnTime, MapTimer, early' = 0, early = 0
    PROVE  MapOnTime'
  <1>0. MapData
    BY HasMapData
  <1> DEFINE k == curMapIndex + 1
  <1>1. /\ mapTimers > 0 /\ m_list' = Requeue(runningMapWork[k]) /\ curMapIndex' = k
        /\ UNCHANGED <<finishedMapTask, runningMapWork, rpc, mpc, wpc, caller, task, todo, mapHolder, inter>>
    BY DEF MapTimer, WaitMapTask, fileVars
  <1>2. k \in 1..Len(runningMapWork) /\ (rpc.pc = "startMap" => k < Len(runningMapWork))
    BY <1>0, <1>1 DEF JobInv, TimerInv, OneTimerPerEntry, MapData
  <1>3. runningMapWork[k] \in finishedMapTask \/ wpc[mapHolder[k]] = "hung"
    BY DEF MapTimer, Slow
  <1>4. runningMapWork[k] \in MapOut /\ CStr(runningMapWork[k]).name = runningMapWork[k]
    BY <1>0, <1>2 DEF MapOut, CStr, MapData
  <1>5. MapQueued' \subseteq MapQueued \cup ({runningMapWork[k]} \ finishedMapTask)
    <2>1. CASE runningMapWork[k] \in finishedMapTask
      BY <1>1, <2>1 DEF Requeue, MapQueued
    <2>2. CASE runningMapWork[k] \notin finishedMapTask
      <3>1. m_list' = Append(m_list, CStr(runningMapWork[k]))
        BY <1>1, <2>2 DEF Requeue
      <3>2. runningMapWork[k] \in Files
        BY <1>0, <1>2, ElementOfSeq DEF MapData
      <3>3. m_list \in Seq(Solid \cup {CStr(runningMapWork[k])})
        BY <1>0, SeqMonotonic DEF MapData
      <3>4. /\ Len(m_list') = Len(m_list) + 1 /\ Len(m_list) \in Nat
            /\ \A i \in 1..Len(m_list) : m_list'[i] = m_list[i]
            /\ m_list'[Len(m_list) + 1] = CStr(runningMapWork[k])
        BY <3>1, <3>3, Grows
      <3>5. \A i \in 1..Len(m_list') : m_list'[i].name \in MapQueued \cup {runningMapWork[k]}
        BY <1>4, <3>4 DEF MapQueued
      <3> QED BY <2>2, <3>5 DEF MapQueued
    <2> QED BY <2>1, <2>2
  <1>6. (finishedMapTask \cap (MapQueued \cup MapHeld) = {})'
    BY <1>1, <1>5 DEF MapOnTime, MapHeld
  <1>7. ASSUME NEW w \in MapWorkers, wpc[w] \in MapBusy
        PROVE  Holds(w, task[w], runningMapWork, mapHolder, k)
    <2>1. Holds(w, task[w], runningMapWork, mapHolder, curMapIndex) /\ task[w] \notin finishedMapTask
      BY <1>7 DEF MapOnTime
    <2>2. runningMapWork[k] # task[w] \/ mapHolder[k] # w
      BY <1>3, <1>7, <2>1 DEF MapBusy
    <2> QED BY <1>0, <2>1, <2>2, HoldsJudged DEF MapData
  <1>8. MapFiles'
    BY <1>1, MapFilesStay DEF MapOnTime, Writing, Cleaning
  <1> QED BY <1>1, <1>6, <1>7, <1>8 DEF MapOnTime

\* A mapper that does not hang starts with every bucket to write.
LEMMA OnTimeGot ==
    ASSUME JobInv, MapOnTime, NEW w \in MapWorkers, MapGot(w)
    PROVE  MapOnTime'
  <1>0. MapData
    BY HasMapData
  <1>1. /\ wpc[w] = "got" /\ wpc'[w] \in {"hung", "write"}
        /\ \A v \in MapWorkers \ {w} : wpc'[v] = wpc[v] /\ todo'[v] = todo[v]
        /\ todo'[w] = ReduceTasks
        /\ UNCHANGED <<m_list, finishedMapTask, runningMapWork, curMapIndex, mapHolder, rpc, caller, mpc, task, inter>>
    BY <1>0 DEF MapGot, Running, Goto, vars, mapVars, fileVars, MapData
  <1>2. \A v \in MapWorkers : \A f : \A j \in ReduceTasks : Writing(v, f, j)' <=> Writing(v, f, j)
    BY <1>1 DEF Writing
  <1>3. \A v \in MapWorkers : wpc'[v] \in MapBusy => wpc[v] \in MapBusy
    BY <1>1 DEF MapBusy
  <1>4. (finishedMapTask \cap (MapQueued \cup MapHeld) = {})'
    BY <1>1 DEF MapOnTime, MapQueued, MapHeld
  <1>5. MapFiles'
    BY <1>1, <1>2, MapFilesStay DEF MapOnTime, Cleaning
  <1> QED BY <1>1, <1>3, <1>4, <1>5 DEF MapOnTime, Holds

\* What a mapper appends nobody else has appended.
LEMMA OnTimeWrite ==
    ASSUME JobInv, MapOnTime, NEW w \in MapWorkers, MapWrite(w)
    PROVE  MapOnTime'
  <1>0. MapData
    BY HasMapData
  <1>1. /\ wpc[w] = "write"
        /\ UNCHANGED <<m_list, finishedMapTask, runningMapWork, curMapIndex, mapHolder, rpc, caller, mpc, wpc, task>>
    BY DEF MapWrite, Running, vars, mapVars
  <1>2. PICK j \in todo[w] :
           /\ j \in ReduceTasks /\ task[w] \in Names
           /\ todo' = [todo EXCEPT ![w] = @ \ {j}]
           /\ inter'[w][j][task[w]] = inter[w][j][task[w]] + 1
           /\ \A i \in MapWorkers, k \in ReduceTasks, f \in Names :
                 ~(i = w /\ k = j /\ f = task[w]) => inter'[i][k][f] = inter[i][k][f]
    BY Appended DEF JobInv
  <1>3. /\ task[w] \notin finishedMapTask
        /\ Holds(w, task[w], runningMapWork, mapHolder, curMapIndex)
    BY <1>1 DEF MapOnTime, MapBusy
  <1>4. \A v \in MapWorkers : Writing(v, task[w], j) => v = w
    BY <1>1, <1>3, MapOnce, OneHolder DEF MapOnTime, MapBusy, Writing
  <1>5. ~Cleaning => NoCopy(task[w], j)
    BY <1>1, <1>2, <1>3, <1>4 DEF MapOnTime, MapFiles, Writing
  <1>6. ~Cleaning => OneCopy(task[w], j)'
    <2>1. ~Cleaning => /\ inter'[w][j][task[w]] = 1
                      /\ \A k \in MapWorkers \ {w} : inter'[k][j][task[w]] = 0
      BY <1>2, <1>5 DEF NoCopy
    <2> QED BY <1>1, <2>1 DEF OneCopy
  <1>7. /\ Writing(w, task[w], j)'
        /\ \A v \in MapWorkers, f \in Names, i \in ReduceTasks :
              ~(f = task[w] /\ i = j) => (Writing(v, f, i)' <=> Writing(v, f, i))
    BY <1>0, <1>1, <1>2 DEF Writing, MapData
  <1>8. ASSUME ~Cleaning', NEW f \in Names, NEW i \in ReduceTasks
        PROVE  IF f \in finishedMapTask \/ \E v \in MapWorkers : Writing(v, f, i)'
               THEN OneCopy(f, i)' ELSE NoCopy(f, i)'
    <2>0. ~Cleaning
      BY <1>1, <1>8 DEF Cleaning
    <2>1. CASE f = task[w] /\ i = j
      BY <1>1, <1>6, <1>7, <2>0, <2>1
    <2>2. CASE ~(f = task[w] /\ i = j)
      <3>1. \A v \in MapWorkers : inter'[v][i][f] = inter[v][i][f]
        BY <1>2, <2>2
      <3>2. (OneCopy(f, i)' <=> OneCopy(f, i)) /\ (NoCopy(f, i)' <=> NoCopy(f, i))
        BY <3>1 DEF OneCopy, NoCopy
      <3>3. IF f \in finishedMapTask \/ \E v \in MapWorkers : Writing(v, f, i)
            THEN OneCopy(f, i) ELSE NoCopy(f, i)
        BY <2>0 DEF MapOnTime, MapFiles
      <3> QED BY <1>7, <2>2, <3>2, <3>3
    <2> QED BY <2>1, <2>2
  <1>9. (finishedMapTask \cap (MapQueued \cup MapHeld) = {})'
    BY <1>1 DEF MapOnTime, MapQueued, MapHeld
  <1>10. MapFiles'
    BY <1>1, <1>8 DEF MapFiles
  <1> QED BY <1>1, <1>9, <1>10 DEF MapOnTime, Holds

\* What a mapper reports is not queued, nor does another work on it.
LEMMA OnTimeReport ==
    ASSUME JobInv, MapOnTime, NEW w \in MapWorkers, MapReport(w)
    PROVE  MapOnTime'
  <1>0. MapData
    BY HasMapData
  <1>1. /\ wpc[w] = "write" /\ todo[w] = {} /\ rpc.pc = "idle"
        /\ finishedMapTask' = finishedMapTask \cup {task[w]} /\ wpc' = [wpc EXCEPT ![w] = "poll"]
        /\ UNCHANGED <<m_list, runningMapWork, curMapIndex, mapHolder, rpc, caller, mpc, task, todo, inter>>
    BY DEF MapReport, SetMapStat, Running, Goto, fileVars
  <1>2. task[w] \notin finishedMapTask /\ Holds(w, task[w], runningMapWork, mapHolder, curMapIndex)
    BY <1>1 DEF MapOnTime, MapBusy
  <1>3. task[w] \notin MapQueued /\ task[w] \notin MapHeld
    BY <1>2, MapOnce
  <1>4. (finishedMapTask \cap (MapQueued \cup MapHeld) = {})'
    BY <1>1, <1>3 DEF MapOnTime, MapQueued, MapHeld
  <1>5. ASSUME NEW v \in MapWorkers, wpc'[v] \in MapBusy
        PROVE  task[v] \notin finishedMapTask' /\ Holds(v, task[v], runningMapWork, mapHolder, curMapIndex)
    <2>1. v # w /\ wpc[v] \in MapBusy
      BY <1>0, <1>1, <1>5 DEF MapBusy, MapData
    <2>2. task[v] \notin finishedMapTask /\ Holds(v, task[v], runningMapWork, mapHolder, curMapIndex)
      BY <2>1 DEF MapOnTime
    <2>3. task[v] # task[w]
      BY <1>2, <2>1, <2>2, MapOnce, OneHolder
    <2> QED BY <1>1, <2>2, <2>3
  <1>6. ASSUME ~Cleaning', NEW f \in Names, NEW i \in ReduceTasks
        PROVE  IF f \in finishedMapTask' \/ \E v \in MapWorkers : Writing(v, f, i)'
               THEN OneCopy(f, i)' ELSE NoCopy(f, i)'
    <2>0. (OneCopy(f, i)' <=> OneCopy(f, i)) /\ (NoCopy(f, i)' <=> NoCopy(f, i))
      BY <1>1 DEF OneCopy, NoCopy
    <2>1. IF f \in finishedMapTask \/ \E v \in MapWorkers : Writing(v, f, i)
          THEN OneCopy(f, i) ELSE NoCopy(f, i)
      BY <1>1, <1>6 DEF MapOnTime, MapFiles, Cleaning
    <2>2. CASE f = task[w]
      <3>1. Writing(w, f, i)
        BY <1>1, <2>2 DEF Writing
      <3> QED BY <1>1, <2>0, <2>1, <2>2, <3>1
    <2>3. CASE f # task[w]
      <3>1. \A v \in MapWorkers : Writing(v, f, i)' <=> Writing(v, f, i)
        BY <1>0, <1>1, <2>3 DEF Writing, MapData
      <3> QED BY <1>1, <2>0, <2>1, <2>3, <3>1
    <2> QED BY <2>2, <2>3
  <1>7. MapFiles'
    BY <1>6 DEF MapFiles
  <1> QED BY <1>1, <1>4, <1>5, <1>7 DEF MapOnTime, Holds

\* The reduce phase, with integers and the blocks of the result.
ReduceData ==
    /\ runningReduceWork \in Seq(ReduceTasks) /\ reduceHolder \in Seq(Workers)
    /\ Len(reduceHolder) = Len(runningReduceWork)
    /\ Len(runningReduceWork) \in Nat /\ curReduceIndex \in Nat /\ reduceTimers \in Nat
    /\ reduceIndex \in Seq(ReduceTasks) /\ finishedReduceTask \subseteq ReduceTasks
    /\ wpc \in [Workers -> Pcs] /\ task \in [Workers -> Names \cup ReduceTasks \cup {NoTask}]
    /\ seen \in [ReduceWorkers -> Read] /\ output \in [ReduceTasks -> Seq(Read)]
    /\ toRead \in [ReduceWorkers -> SUBSET MapWorkers]
    /\ MapWorkers \cap ReduceWorkers = {} /\ MapWorkers \subseteq Workers /\ ReduceWorkers \subseteq Workers
    /\ rpc \in [pc : {"idle"} \cup MapPcs \cup ReducePcs, task : Entry, idx : ReduceTasks \cup {NoTask}]

\* At any time of a job they are what the proofs of the reduce phase expect.
LEMMA HasReduceData == JobInv => ReduceData
  BY WorkersAssumption, LenProperties DEF JobInv, TimerInv, TypeOK, JobTypes, ReduceData, Workers

\* A reduce task that is out is neither queued nor held, and is out once.
LEMMA ReduceOnce ==
    ASSUME JobInv
    PROVE  /\ Injective(runningReduceWork, curReduceIndex + 1)
           /\ ReduceQueued \cap ReduceOut = {} /\ ReduceHeld \cap (ReduceQueued \cup ReduceOut) = {}
           /\ \A w, x : Holds(w, x, runningReduceWork, reduceHolder, curReduceIndex) => x \in ReduceOut
  BY TasksTell DEF JobInv, OneCopyPerTask, Holds, ReduceOut

\* The reduce task a handler pops was queued.
LEMMA OnTimePopReduce ==
    ASSUME JobInv, ReduceOnTime, PopReduceTask, UNCHANGED jobVars
    PROVE  ReduceOnTime'
  <1>0. ReduceData
    BY HasReduceData
  <1>1. /\ rpc'.pc = "waitReduce" /\ rpc'.idx = Back(reduceIndex) /\ reduceIndex' = PopBack(reduceIndex)
        /\ reduceIndex # <<>> /\ UNCHANGED <<finishedReduceTask, runningReduceWork, curReduceIndex>>
    BY <1>0 DEF PopReduceTask, ReduceData
  <1>2. /\ Len(reduceIndex) \in 1..Len(reduceIndex) /\ Len(PopBack(reduceIndex)) = Len(reduceIndex) - 1
        /\ Len(reduceIndex) \in Nat
        /\ \A i \in 1..(Len(reduceIndex) - 1) : PopBack(reduceIndex)[i] = reduceIndex[i]
    <2>1. reduceIndex \in Seq(ReduceTasks) /\ reduceIndex # <<>>
      BY <1>0, <1>1 DEF ReduceData
    <2>2. Len(reduceIndex) \in Nat
      BY <2>1, LenProperties
    <2> QED BY <2>1, <2>2, PopBackType
  <1>3. ReduceQueued' \subseteq ReduceQueued
    BY <1>1, <1>2 DEF ReduceQueued
  <1>4. ReduceHeld' = {reduceIndex[Len(reduceIndex)]}
    BY <1>1 DEF ReduceHeld, Back
  <1>5. ReduceHeld' \subseteq ReduceQueued
    BY <1>2, <1>4 DEF ReduceQueued
  <1>6. Reads' /\ Outputs'
    BY <1>1, ReadsStay, OutputsStay DEF ReduceOnTime, Reporting, jobVars, fileVars
  <1> QED BY <1>1, <1>3, <1>5, <1>6 DEF ReduceOnTime, Holds, jobVars

\* What waitReduce records is not finished, and its worker is the caller.
LEMMA OnTimeWaitReduce ==
    ASSUME JobInv, ReduceOnTime, ServeWaitReduce
    PROVE  ReduceOnTime'
  <1>0. ReduceData
    BY HasReduceData
  <1>1. rpc.pc = "waitReduce" /\ rpc.idx \in ReduceTasks /\ caller \in ReduceWorkers
    BY DEF ServeWaitReduce, WaitReduce, JobInv, TimerInv, CallerInv, ReducePcs
  <1>2. /\ rpc'.pc = "startReduce" /\ rpc'.idx = rpc.idx /\ reduceHolder' = Append(reduceHolder, caller)
        /\ runningReduceWork' = Append(runningReduceWork, rpc.idx)
        /\ UNCHANGED <<reduceIndex, finishedReduceTask, curReduceIndex, wpc, task, fileVars, caller>>
    BY <1>0 DEF ServeWaitReduce, WaitReduce, ReduceData
  <1>3. /\ runningReduceWork'[Len(runningReduceWork')] = rpc.idx
        /\ reduceHolder'[Len(runningReduceWork')] = caller
    BY <1>0, <1>1, <1>2, Grows DEF ReduceData
  <1>4. rpc.idx \notin finishedReduceTask /\ ReduceHeld' = {}
    BY <1>1, <1>2 DEF ReduceOnTime, ReduceHeld
  <1>5. ASSUME NEW w \in ReduceWorkers, wpc[w] \in ReduceBusy
        PROVE  Holds(w, task[w], runningReduceWork', reduceHolder', curReduceIndex)
    <2>1. Holds(w, task[w], runningReduceWork, reduceHolder, curReduceIndex)
      BY <1>5 DEF ReduceOnTime
    <2> QED BY <1>0, <1>1, <1>2, <2>1, HoldsGrows DEF ReduceData
  <1>6. Reads' /\ Outputs'
    BY <1>2, ReadsStay, OutputsStay DEF ReduceOnTime, Reporting, fileVars
  <1> QED BY <1>2, <1>3, <1>4, <1>5, <1>6 DEF ReduceOnTime, ReduceQueued

\* The reducer that is answered holds the task.
LEMMA OnTimeReplyReduce ==
    ASSUME JobInv, ReduceOnTime, ServeReplyReduce
    PROVE  ReduceOnTime'
  <1>0. ReduceData
    BY HasReduceData
  <1>1. rpc.pc = "startReduce" /\ caller \in ReduceWorkers /\ wpc[caller] = "called"
    BY DEF ServeReplyReduce, ReplyReduceTask, JobInv, CallerInv, ReducePcs
  <1>2. /\ rpc' = Idle /\ task' = [task EXCEPT ![caller] = rpc.idx] /\ wpc' = [wpc EXCEPT ![caller] = "got"]
        /\ UNCHANGED <<reduceIndex, finishedReduceTask, runningReduceWork, curReduceIndex, reduceHolder, fileVars>>
    BY DEF ServeReplyReduce, ReplyReduceTask, Goto
  <1>3. curReduceIndex < Len(runningReduceWork)
    BY <1>0, <1>1 DEF JobInv, TimerInv, OneTimerPerEntry, ReduceData
  <1>4. /\ Holds(caller, rpc.idx, runningReduceWork, reduceHolder, curReduceIndex)
        /\ rpc.idx \notin finishedReduceTask
    BY <1>0, <1>1, <1>3, HoldsLast DEF ReduceOnTime, ReduceData
  <1>5. ReduceHeld' = {} /\ rpc'.pc = "idle"
    BY <1>2 DEF ReduceHeld, Idle
  <1>6. /\ \A w \in ReduceWorkers : \A j : Reporting(w, j)' <=> Reporting(w, j)
        /\ Reads'
    <2>1. \A w \in ReduceWorkers : w = caller \/ (wpc'[w] = wpc[w] /\ task'[w] = task[w])
      BY <1>0, <1>2 DEF ReduceData
    <2>2. wpc'[caller] = "got"
      BY <1>0, <1>1, <1>2 DEF ReduceData
    <2>3. Reads'
      BY <1>2, <2>1, <2>2, ReadsStay DEF ReduceOnTime, fileVars
    <2> QED BY <1>1, <2>1, <2>2, <2>3 DEF Reporting
  <1>7. ASSUME NEW w \in ReduceWorkers, wpc'[w] \in ReduceBusy
        PROVE  /\ task'[w] \notin finishedReduceTask
               /\ Holds(w, task'[w], runningReduceWork, reduceHolder, curReduceIndex)
    <2>1. CASE w = caller
      BY <1>0, <1>1, <1>2, <1>4, <2>1 DEF ReduceData
    <2>2. CASE w # caller
      BY <1>0, <1>2, <1>7, <2>2 DEF ReduceOnTime, ReduceData
    <2> QED BY <2>1, <2>2
  <1>8. Outputs'
    BY <1>2, <1>6, OutputsStay DEF ReduceOnTime, fileVars
  <1>9. (finishedReduceTask \cap (ReduceQueued \cup ReduceHeld) = {})'
    BY <1>2, <1>5 DEF ReduceOnTime, ReduceQueued
  <1> QED BY <1>2, <1>5, <1>6, <1>7, <1>8, <1>9 DEF ReduceOnTime, Holds

\* A timer that is on time puts back the reduce task of a worker that hangs, or none.
LEMMA OnTimeReduceTimer ==
    ASSUME JobInv, ReduceOnTime, ReduceTimer, early' = 0, early = 0
    PROVE  ReduceOnTime'
  <1>0. ReduceData
    BY HasReduceData
  <1> DEFINE k == curReduceIndex + 1
  <1>1. /\ reduceTimers > 0 /\ reduceIndex' = RequeueReduce(runningReduceWork[k]) /\ curReduceIndex' = k
        /\ UNCHANGED <<finishedReduceTask, runningReduceWork, rpc, wpc, caller, task, reduceHolder, fileVars>>
    BY DEF ReduceTimer, WaitReduceTask
  <1>2. k \in 1..Len(runningReduceWork)
    BY <1>0, <1>1 DEF JobInv, TimerInv, OneTimerPerEntry, ReduceData
  <1>3. runningReduceWork[k] \in finishedReduceTask \/ wpc[reduceHolder[k]] = "hung"
    BY <1>0 DEF ReduceTimer, Slow
  <1>4. ReduceQueued' \subseteq ReduceQueued \cup ({runningReduceWork[k]} \ finishedReduceTask)
    <2>1. CASE runningReduceWork[k] \in finishedReduceTask
      BY <1>1, <2>1 DEF RequeueReduce, ReduceQueued
    <2>2. CASE runningReduceWork[k] \notin finishedReduceTask
      <3>1. reduceIndex' = Append(reduceIndex, runningReduceWork[k]) /\ runningReduceWork[k] \in ReduceTasks
        BY <1>0, <1>1, <1>2, <2>2, ElementOfSeq DEF RequeueReduce, ReduceData
      <3>2. /\ Len(reduceIndex') = Len(reduceIndex) + 1 /\ Len(reduceIndex) \in Nat
            /\ \A i \in 1..Len(reduceIndex) : reduceIndex'[i] = reduceIndex[i]
            /\ reduceIndex'[Len(reduceIndex) + 1] = runningReduceWork[k]
        BY <1>0, <3>1, Grows DEF ReduceData
      <3>3. \A i \in 1..Len(reduceIndex') : reduceIndex'[i] \in ReduceQueued \cup {runningReduceWork[k]}
        BY <3>2 DEF ReduceQueued
      <3> QED BY <2>2, <3>3 DEF ReduceQueued
    <2> QED BY <2>1, <2>2
  <1>5. (finishedReduceTask \cap (ReduceQueued \cup ReduceHeld) = {})'
    BY <1>1, <1>4 DEF ReduceOnTime, ReduceHeld
  <1>6. ASSUME NEW w \in ReduceWorkers, wpc[w] \in ReduceBusy
        PROVE  Holds(w, task[w], runningReduceWork, reduceHolder, k)
    <2>1. Holds(w, task[w], runningReduceWork, reduceHolder, curReduceIndex) /\ task[w] \notin finishedReduceTask
      BY <1>6 DEF ReduceOnTime
    <2>2. runningReduceWork[k] # task[w] \/ reduceHolder[k] # w
      BY <1>3, <1>6, <2>1 DEF ReduceBusy
    <2> QED BY <1>0, <2>1, <2>2, HoldsJudged DEF ReduceData
  <1>7. Reads' /\ Outputs'
    BY <1>1, ReadsStay, OutputsStay DEF ReduceOnTime, Reporting, fileVars
  <1> QED BY <1>1, <1>5, <1>6, <1>7 DEF ReduceOnTime

\* A reducer that does not hang goes on to Myshuffle with its task.
LEMMA OnTimeGotReduce ==
    ASSUME JobInv, ReduceOnTime, NEW w \in ReduceWorkers, ReduceGot(w)
    PROVE  ReduceOnTime'
  <1>0. ReduceData
    BY HasReduceData
  <1>1. /\ wpc[w] = "got" /\ wpc'[w] \in {"hung", "shuffle"} /\ \A v \in ReduceWorkers \ {w} : wpc'[v] = wpc[v]
        /\ UNCHANGED <<reduceIndex, finishedReduceTask, runningReduceWork, curReduceIndex, reduceHolder, rpc,
                       caller, task, fileVars>>
    BY <1>0 DEF ReduceGot, Running, Goto, vars, reduceVars, ReduceData
  <1>2. /\ \A v \in ReduceWorkers : \A j : Reporting(v, j)' <=> Reporting(v, j)
        /\ \A v \in ReduceWorkers : wpc'[v] \in ReduceBusy => wpc[v] \in ReduceBusy
    BY <1>1 DEF Reporting, ReduceBusy
  <1>3. (finishedReduceTask \cap (ReduceQueued \cup ReduceHeld) = {})'
    BY <1>1 DEF ReduceOnTime, ReduceQueued, ReduceHeld
  <1>4. Reads' /\ Outputs'
    BY <1>1, <1>2, ReadsStay, OutputsStay DEF ReduceOnTime, fileVars
  <1> QED BY <1>1, <1>2, <1>3, <1>4 DEF ReduceOnTime, Holds

\* All files are reported, and nobody writes any more, when a reducer is among them: what
\* it has read when it has read them all is one copy.
LEMMA AllReadIsExact ==
    ASSUME JobInv, MapOnTime, ReduceOnTime, NEW w \in ReduceWorkers, wpc[w] \in ReduceBusy,
           NEW block, ~block.ownOutput, \A i \in MapWorkers : block.text[i] = inter[i][task[w]]
    PROVE  Exact(block)
  <1>1. task[w] \in ReduceTasks /\ MapsDone /\ ~Cleaning
    BY DEF JobInv, CallerInv, PhaseInv, ReduceOnTime, ReduceBusy
  <1>2. \A f \in Files : f \in Names /\ OneCopy(f, task[w])
    BY <1>1 DEF MapOnTime, MapFiles, MapsDone, Names
  <1>3. NoCopy(Garbage, task[w])
    <2>1. Garbage \in Names /\ Garbage \notin Files
      BY NamesAssumption DEF Names
    <2>2. Garbage \notin finishedMapTask /\ \A v \in MapWorkers : ~Writing(v, Garbage, task[w])
      BY <2>1 DEF Writing, JobInv, TasksInv, FilesInv, CallerInv, MapBusy
    <2> QED BY <1>1, <2>1, <2>2 DEF MapOnTime, MapFiles
  <1> QED BY <1>2, <1>3 DEF Exact, OneCopy, NoCopy

\* Nobody has appended to the file of a task whose reducer is still reading.
LEMMA NobodyAppended ==
    ASSUME JobInv, ReduceOnTime, NEW w \in ReduceWorkers, wpc[w] \in ReduceBusy \ {"report"}
    PROVE  /\ task[w] \in ReduceTasks /\ task[w] \notin finishedReduceTask
           /\ output[task[w]] = <<>>
           /\ \A v \in ReduceWorkers : ~Reporting(v, task[w])
  <1>1. /\ task[w] \in ReduceTasks /\ task[w] \notin finishedReduceTask
        /\ Holds(w, task[w], runningReduceWork, reduceHolder, curReduceIndex)
    BY DEF ReduceOnTime, ReduceBusy, JobInv, CallerInv
  <1>2. \A v \in ReduceWorkers : Reporting(v, task[w]) => v = w
    BY <1>1, ReduceOnce, OneHolder DEF ReduceOnTime, ReduceBusy, Reporting
  <1>3. \A v \in ReduceWorkers : ~Reporting(v, task[w])
    BY <1>2 DEF Reporting
  <1> QED BY <1>1, <1>3 DEF ReduceOnTime, Outputs

\* Myshuffle lists the files that are there; what it does not list has no words.
LEMMA OnTimeList ==
    ASSUME JobInv, MapOnTime, ReduceOnTime, NEW w \in ReduceWorkers, ReduceList(w)
    PROVE  ReduceOnTime'
  <1>0. ReduceData
    BY HasReduceData
  <1> DEFINE listed == {i \in MapWorkers : inter[i][task[w]] # NoFile}
  <1>1. /\ wpc[w] = "shuffle" /\ wpc'[w] = IF listed = {} THEN "write" ELSE "read"
        /\ \A v \in ReduceWorkers \ {w} : wpc'[v] = wpc[v]
        /\ toRead' = [toRead EXCEPT ![w] = listed]
        /\ seen' = [seen EXCEPT ![w] = [NothingRead EXCEPT !.ownOutput = output[task[w]] # <<>>]]
        /\ UNCHANGED <<reduceIndex, finishedReduceTask, runningReduceWork, curReduceIndex, reduceHolder, rpc,
                       caller, task, inter, output>>
    BY <1>0 DEF ReduceList, Running, Goto, vars, reduceVars, ReduceData
  <1>2. wpc[w] \in ReduceBusy \ {"report"}
    BY <1>1 DEF ReduceBusy
  <1>3. /\ ~seen'[w].ownOutput /\ \A i \in MapWorkers : seen'[w].text[i] = NoFile
        /\ toRead'[w] = listed
        /\ \A v \in ReduceWorkers \ {w} : seen'[v] = seen[v] /\ toRead'[v] = toRead[v]
    BY <1>0, <1>1, <1>2, NobodyAppended DEF ReduceData, NothingRead
  <1>4. HalfRead(w)'
    BY <1>1, <1>3 DEF HalfRead
  <1>5. listed = {} => Exact(seen'[w])
    <2>1. listed = {} => \A i \in MapWorkers : seen'[w].text[i] = inter[i][task[w]]
      BY <1>3
    <2> QED BY <1>2, <1>3, <2>1, AllReadIsExact
  <1>6. Reads'
    <2>1. \A v \in ReduceWorkers \ {w} : /\ wpc'[v] = "read" => HalfRead(v)'
                                         /\ wpc'[v] = "write" => Exact(seen'[v])
      BY <1>1, <1>3 DEF ReduceOnTime, Reads, HalfRead
    <2>2. wpc'[w] = "write" => Exact(seen[w])'
      BY <1>1, <1>5 DEF Exact
    <2>3. wpc'[w] = "read" => HalfRead(w)'
      BY <1>4
    <2>4. ASSUME NEW v \in ReduceWorkers
          PROVE  /\ (wpc[v] = "read")' => HalfRead(v)'
                 /\ (wpc[v] = "write")' => Exact(seen[v])'
      <3>1. CASE v = w
        BY <2>2, <2>3, <3>1 DEF HalfRead, Exact
      <3>2. CASE v # w
        BY <2>1, <3>2 DEF HalfRead, Exact
      <3> QED BY <3>1, <3>2
    <2> QED BY <2>4 DEF Reads
  <1>7. /\ \A v \in ReduceWorkers : \A j : Reporting(v, j)' <=> Reporting(v, j)
        /\ \A v \in ReduceWorkers : wpc'[v] \in ReduceBusy => wpc[v] \in ReduceBusy
    BY <1>1 DEF Reporting, ReduceBusy
  <1>8. Outputs'
    BY <1>1, <1>7, OutputsStay DEF ReduceOnTime
  <1>9. (finishedReduceTask \cap (ReduceQueued \cup ReduceHeld) = {})'
    BY <1>1 DEF ReduceOnTime, ReduceQueued, ReduceHeld
  <1> QED BY <1>1, <1>6, <1>7, <1>8, <1>9 DEF ReduceOnTime, Holds

\* Then it reads them one after the other, and nobody changes or removes one.
LEMMA OnTimeRead ==
    ASSUME JobInv, MapOnTime, ReduceOnTime, NEW w \in ReduceWorkers, ReduceRead(w)
    PROVE  ReduceOnTime'
  <1>0. ReduceData
    BY HasReduceData
  <1>1. PICK i \in toRead[w] : /\ seen' = [seen EXCEPT ![w].text[i] = inter[i][task[w]]]
                               /\ toRead' = [toRead EXCEPT ![w] = @ \ {i}]
    BY DEF ReduceRead
  <1>2. /\ wpc[w] = "read" /\ wpc'[w] = IF toRead'[w] = {} THEN "write" ELSE "read"
        /\ \A v \in ReduceWorkers \ {w} : wpc'[v] = wpc[v]
        /\ UNCHANGED <<reduceIndex, finishedReduceTask, runningReduceWork, curReduceIndex, reduceHolder, rpc,
                       caller, task, inter, output>>
    BY <1>0 DEF ReduceRead, Running, Goto, vars, reduceVars, ReduceData
  <1>3. i \in MapWorkers /\ seen[w] \in Read
    BY <1>0, <1>1 DEF ReduceData
  <1>4. /\ seen'[w].text[i] = inter[i][task[w]]
        /\ \A k \in MapWorkers \ {i} : seen'[w].text[k] = seen[w].text[k]
        /\ seen'[w].ownOutput = seen[w].ownOutput
        /\ \A v \in ReduceWorkers \ {w} : seen'[v] = seen[v] /\ toRead'[v] = toRead[v]
        /\ toRead'[w] = toRead[w] \ {i}
    BY <1>0, <1>1, <1>3 DEF Read, ReduceData
  <1>5. HalfRead(w)
    BY <1>2 DEF ReduceOnTime, Reads
  <1>6. HalfRead(w)'
    BY <1>2, <1>4, <1>5 DEF HalfRead
  <1>7. toRead'[w] = {} => Exact(seen'[w])
    <2>1. /\ ~seen'[w].ownOutput
          /\ toRead'[w] = {} => \A k \in MapWorkers : seen'[w].text[k] = inter[k][task[w]]
      BY <1>2, <1>6 DEF HalfRead
    <2>2. wpc[w] \in ReduceBusy
      BY <1>2 DEF ReduceBusy
    <2> QED BY <2>1, <2>2, AllReadIsExact
  <1>8. Reads'
    <2>1. \A v \in ReduceWorkers \ {w} : /\ wpc'[v] = "read" => HalfRead(v)'
                                         /\ wpc'[v] = "write" => Exact(seen'[v])
      BY <1>2, <1>4 DEF ReduceOnTime, Reads, HalfRead
    <2>2. wpc'[w] = "write" => Exact(seen[w])'
      BY <1>2, <1>7 DEF Exact
    <2>3. wpc'[w] = "read" => HalfRead(w)'
      BY <1>6
    <2>4. ASSUME NEW v \in ReduceWorkers
          PROVE  /\ (wpc[v] = "read")' => HalfRead(v)'
                 /\ (wpc[v] = "write")' => Exact(seen[v])'
      <3>1. CASE v = w
        BY <2>2, <2>3, <3>1 DEF HalfRead, Exact
      <3>2. CASE v # w
        BY <2>1, <3>2 DEF HalfRead, Exact
      <3> QED BY <3>1, <3>2
    <2> QED BY <2>4 DEF Reads
  <1>9. /\ \A v \in ReduceWorkers : \A j : Reporting(v, j)' <=> Reporting(v, j)
        /\ \A v \in ReduceWorkers : wpc'[v] \in ReduceBusy => wpc[v] \in ReduceBusy
    BY <1>2 DEF Reporting, ReduceBusy
  <1>10. Outputs'
    BY <1>2, <1>9, OutputsStay DEF ReduceOnTime
  <1>11. (finishedReduceTask \cap (ReduceQueued \cup ReduceHeld) = {})'
    BY <1>2 DEF ReduceOnTime, ReduceQueued, ReduceHeld
  <1> QED BY <1>2, <1>8, <1>9, <1>10, <1>11 DEF ReduceOnTime, Holds

\* A reducer is the first to append to its file.
LEMMA OnTimeResult ==
    ASSUME JobInv, ReduceOnTime, NEW w \in ReduceWorkers, ReduceWrite(w)
    PROVE  ReduceOnTime'
  <1>0. ReduceData
    BY HasReduceData
  <1>1. /\ wpc[w] = "write" /\ wpc' = [wpc EXCEPT ![w] = "report"]
        /\ output' = [output EXCEPT ![task[w]] = Append(@, seen[w])]
        /\ UNCHANGED <<reduceIndex, finishedReduceTask, runningReduceWork, curReduceIndex, reduceHolder, rpc,
                       caller, task, seen, toRead, inter>>
    BY DEF ReduceWrite, Running, Goto, vars, reduceVars
  <1>2. /\ task[w] \in ReduceTasks /\ task[w] \notin finishedReduceTask /\ Exact(seen[w])
        /\ output[task[w]] = <<>>
    BY <1>1, NobodyAppended DEF ReduceOnTime, Reads, ReduceBusy
  <1>3. /\ Len(output'[task[w]]) = 1 /\ output'[task[w]][1] = seen[w]
        /\ \A j \in ReduceTasks \ {task[w]} : output'[j] = output[j]
    BY <1>0, <1>1, <1>2 DEF ReduceData
  <1>4. /\ Reporting(w, task[w])'
        /\ \A v \in ReduceWorkers, j \in ReduceTasks \ {task[w]} : Reporting(v, j)' <=> Reporting(v, j)
        /\ \A v \in ReduceWorkers : wpc'[v] \in ReduceBusy => wpc[v] \in ReduceBusy
    BY <1>0, <1>1 DEF Reporting, ReduceBusy, ReduceData
  <1>5. ASSUME NEW j \in ReduceTasks
        PROVE  IF j \in finishedReduceTask \/ \E v \in ReduceWorkers : Reporting(v, j)'
               THEN Len(output'[j]) = 1 /\ Exact(output'[j][1]) ELSE output'[j] = <<>>
    <2>1. CASE j = task[w]
      BY <1>1, <1>2, <1>3, <1>4, <2>1
    <2>2. CASE j # task[w]
      <3>1. IF j \in finishedReduceTask \/ \E v \in ReduceWorkers : Reporting(v, j)
            THEN Len(output[j]) = 1 /\ Exact(output[j][1]) ELSE output[j] = <<>>
        BY DEF ReduceOnTime, Outputs
      <3>2. output'[j] = output[j] /\ \A v \in ReduceWorkers : Reporting(v, j)' <=> Reporting(v, j)
        BY <1>3, <1>4, <2>2
      <3> QED BY <3>1, <3>2
    <2> QED BY <2>1, <2>2
  <1>6. Outputs'
    BY <1>1, <1>5 DEF Outputs, Exact
  <1>7. Reads'
    BY <1>0, <1>1, ReadsStay DEF ReduceOnTime, ReduceData
  <1>8. (finishedReduceTask \cap (ReduceQueued \cup ReduceHeld) = {})'
    BY <1>1 DEF ReduceOnTime, ReduceQueued, ReduceHeld
  <1> QED BY <1>1, <1>4, <1>6, <1>7, <1>8 DEF ReduceOnTime, Holds

\* What a reducer reports is not queued, nor has another written its result.
LEMMA OnTimeReportReduce ==
    ASSUME JobInv, ReduceOnTime, NEW w \in ReduceWorkers, ReduceReport(w)
    PROVE  ReduceOnTime'
  <1>0. ReduceData
    BY HasReduceData
  <1>1. /\ wpc[w] = "report" /\ rpc.pc = "idle"
        /\ finishedReduceTask' = finishedReduceTask \cup {task[w]} /\ wpc' = [wpc EXCEPT ![w] = "poll"]
        /\ UNCHANGED <<reduceIndex, runningReduceWork, curReduceIndex, reduceHolder, rpc, caller, task, fileVars>>
    BY DEF ReduceReport, SetReduceStat, Running, Goto
  <1>2. task[w] \notin finishedReduceTask /\ Holds(w, task[w], runningReduceWork, reduceHolder, curReduceIndex)
    BY <1>1 DEF ReduceOnTime, ReduceBusy
  <1>3. task[w] \notin ReduceQueued /\ task[w] \notin ReduceHeld
    BY <1>2, ReduceOnce
  <1>4. (finishedReduceTask \cap (ReduceQueued \cup ReduceHeld) = {})'
    BY <1>1, <1>3 DEF ReduceOnTime, ReduceQueued, ReduceHeld
  <1>5. ASSUME NEW v \in ReduceWorkers, wpc'[v] \in ReduceBusy
        PROVE  /\ task[v] \notin finishedReduceTask'
               /\ Holds(v, task[v], runningReduceWork, reduceHolder, curReduceIndex)
    <2>1. v # w /\ wpc[v] \in ReduceBusy
      BY <1>0, <1>1, <1>5 DEF ReduceBusy, ReduceData
    <2>2. task[v] \notin finishedReduceTask /\ Holds(v, task[v], runningReduceWork, reduceHolder, curReduceIndex)
      BY <2>1 DEF ReduceOnTime
    <2>3. task[v] # task[w]
      BY <1>2, <2>1, <2>2, ReduceOnce, OneHolder
    <2> QED BY <1>1, <2>2, <2>3
  <1>6. ASSUME NEW j \in ReduceTasks
        PROVE  IF j \in finishedReduceTask' \/ \E v \in ReduceWorkers : Reporting(v, j)'
               THEN Len(output[j]) = 1 /\ Exact(output[j][1]) ELSE output[j] = <<>>
    <2>1. IF j \in finishedReduceTask \/ \E v \in ReduceWorkers : Reporting(v, j)
          THEN Len(output[j]) = 1 /\ Exact(output[j][1]) ELSE output[j] = <<>>
      BY DEF ReduceOnTime, Outputs
    <2>2. CASE j = task[w]
      <3>1. Reporting(w, j)
        BY <1>1, <2>2 DEF Reporting
      <3> QED BY <1>1, <2>1, <2>2, <3>1
    <2>3. CASE j # task[w]
      <3>1. \A v \in ReduceWorkers : Reporting(v, j)' <=> Reporting(v, j)
        BY <1>0, <1>1, <2>3 DEF Reporting, ReduceData
      <3> QED BY <1>1, <2>1, <2>3, <3>1
    <2> QED BY <2>2, <2>3
  <1>7. Outputs'
    BY <1>1, <1>6 DEF Outputs, Exact, fileVars
  <1>8. Reads'
    BY <1>0, <1>1, ReadsStay DEF ReduceOnTime, ReduceData, fileVars
  <1> QED BY <1>1, <1>4, <1>5, <1>7, <1>8 DEF ReduceOnTime, Holds

\* Each phase is quiet while the other one moves.
LEMMA Quiet ==
    ASSUME JobInv, MapOnTime, ReduceOnTime, [JobNext]_allVars
    PROVE  /\ \/ MapQuiet \/ (PopTask /\ UNCHANGED jobVars) \/ ServeWaitMap \/ MapTimer
              \/ \E name \in Names : ServeReplyMap(name)
              \/ \E w \in MapWorkers : MapGot(w) \/ MapWrite(w) \/ MapReport(w)
           /\ \/ ReduceQuiet \/ (PopReduceTask /\ UNCHANGED jobVars) \/ ServeWaitReduce \/ ReduceTimer
              \/ ServeReplyReduce
              \/ \E w \in ReduceWorkers :
                    \/ ReduceGot(w) \/ ReduceList(w) \/ ReduceRead(w)
                    \/ ReduceWrite(w) \/ ReduceReport(w)
  <1> USE DEF MapQuiet, ReduceQuiet, MapHeld, ReduceHeld, Cleaning, fileVars
  <1>0. /\ wpc \in [Workers -> Pcs] /\ task \in [Workers -> Names \cup ReduceTasks \cup {NoTask}]
        /\ MapWorkers \cap ReduceWorkers = {} /\ MapWorkers \subseteq Workers /\ ReduceWorkers \subseteq Workers
        /\ rpc \in [pc : {"idle"} \cup MapPcs \cup ReducePcs, task : Entry, idx : ReduceTasks \cup {NoTask}]
    BY HasMapData DEF MapData
  <1>1. CASE ServePop
    <2>1. CASE PopTask
      BY <1>0, <1>1, <2>1 DEF ServePop, PopTask, jobVars, reduceVars
    <2>2. CASE PopReduceTask
      BY <1>0, <1>1, <2>2 DEF ServePop, PopReduceTask, jobVars, mapVars
    <2> QED BY <1>1, <2>1, <2>2 DEF ServePop
  <1>2. CASE ServeWaitMap
    BY <1>0, <1>2 DEF ServeWaitMap, WaitMap, reduceVars
  <1>3. CASE \E name \in Names : ServeReplyMap(name)
    <2>1. /\ wpc' = [wpc EXCEPT ![caller] = "got"] /\ \E name \in Names : task' = [task EXCEPT ![caller] = name]
          /\ rpc.pc = "startMap" /\ rpc' = Idle
          /\ UNCHANGED <<reduceIndex, finishedReduceTask, runningReduceWork, curReduceIndex, reduceHolder, fileVars>>
      BY <1>3 DEF ServeReplyMap, ReplyTask, Goto, reduceVars
    <2>2. caller \in MapWorkers
      BY <2>1 DEF JobInv, CallerInv, MapPcs
    <2> QED BY <1>0, <1>3, <2>1, <2>2 DEF Idle
  <1>4. CASE ServeWaitReduce
    BY <1>0, <1>4 DEF ServeWaitReduce, WaitReduce, mapVars
  <1>5. CASE ServeReplyReduce
    <2>1. /\ wpc' = [wpc EXCEPT ![caller] = "got"] /\ task' = [task EXCEPT ![caller] = rpc.idx]
          /\ rpc.pc = "startReduce" /\ rpc' = Idle
          /\ UNCHANGED <<m_list, finishedMapTask, runningMapWork, curMapIndex, mapHolder, todo, mpc, fileVars>>
      BY <1>5 DEF ServeReplyReduce, ReplyReduceTask, Goto, mapVars
    <2>2. caller \in ReduceWorkers
      BY <2>1 DEF JobInv, CallerInv, ReducePcs
    <2> QED BY <1>0, <1>5, <2>1, <2>2 DEF Idle
  <1>6. CASE Main
    <2> USE DEF vars, mapVars, reduceVars
    <2>1. CASE MainSpawnMap
      <3>1. \A w \in Workers : wpc[w] = "unborn"
        BY <2>1 DEF MainSpawnMap, JobInv, CallerInv
      <3> QED BY <1>0, <2>1, <3>1 DEF MainSpawnMap, MapBusy
    <2>2. CASE MainWait
      BY <1>0, <2>2 DEF MainWait
    <2>3. CASE MainSpawnReduce
      <3>1. \A w \in ReduceWorkers : wpc[w] = "unborn"
        BY <2>3 DEF MainSpawnReduce, JobInv, CallerInv
      <3> QED BY <1>0, <2>3, <3>1 DEF MainSpawnReduce, ReduceBusy
    <2>4. CASE MainDone \/ MainExit
      BY <1>0, <2>4 DEF MainDone, MainExit
    <2>5. CASE \E i \in MapWorkers, j \in ReduceTasks : RemoveFile(i, j)
      <3>1. mpc = "remove" /\ UNCHANGED <<vars, mpc, wpc, caller, task, todo, mapHolder, reduceHolder, toRead, seen, output>>
        BY <2>5 DEF RemoveFile
      <3>2. \A w \in ReduceWorkers : wpc[w] \notin ReduceBusy
        BY <3>1 DEF JobInv, PhaseInv, CallerInv, ReduceOnTime
      <3> QED BY <3>1, <3>2 DEF ReduceBusy
    <2> QED BY <1>6, <2>1, <2>2, <2>3, <2>4, <2>5 DEF Main
  <1>7. CASE MapTimer
    BY <1>0, <1>7 DEF MapTimer, WaitMapTask, reduceVars
  <1>8. CASE ReduceTimer
    BY <1>0, <1>8 DEF ReduceTimer, WaitReduceTask, mapVars
  <1>9. CASE \E w \in MapWorkers : MapWorker(w)
    <2>1. PICK w \in MapWorkers : MapWorker(w)
      BY <1>9
    <2>2. CASE MapPoll(w) \/ MapBroadcast(w) \/ MapAskEmpty(w)
      BY <1>0, <2>2 DEF MapPoll, MapBroadcast, MapAskEmpty, Running, Goto, vars, mapVars, reduceVars, MapBusy
    <2>3. CASE MapAsk(w)
      BY <1>0, <2>3 DEF MapAsk, AssignTask, Running, Goto, mapVars, reduceVars, MapBusy
    <2>4. CASE MapGot(w)
      BY <1>0, <2>4 DEF MapGot, Goto, vars, reduceVars
    <2>6. CASE MapWrite(w)
      <3>1. ~MapsDone
        BY <2>6 DEF MapWrite, Running, MapsDone, MapBusy, MapOnTime, JobInv, CallerInv
      <3>2. \A v \in ReduceWorkers : wpc[v] # "read"
        BY <3>1 DEF JobInv, PhaseInv
      <3> QED BY <1>0, <2>6, <3>2 DEF MapWrite, vars, reduceVars
    <2>7. CASE MapWriteFails(w)
      BY <1>0, <2>7 DEF MapWriteFails, vars, mapVars, reduceVars
    <2>5. CASE MapReport(w)
      BY <1>0, <2>5 DEF MapReport, SetMapStat, Goto, reduceVars
    <2> QED BY <2>1, <2>2, <2>3, <2>4, <2>5, <2>6, <2>7 DEF MapWorker
  <1>10. CASE \E w \in ReduceWorkers : ReduceWorker(w)
    <2>1. PICK w \in ReduceWorkers : ReduceWorker(w)
      BY <1>10
    <2>2. CASE ReducePoll(w) \/ ReduceAskEmpty(w)
      BY <1>0, <2>2 DEF ReducePoll, ReduceAskEmpty, Running, Goto, vars, mapVars, reduceVars, ReduceBusy
    <2>3. CASE ReduceAsk(w)
      BY <1>0, <2>3 DEF ReduceAsk, AssignReduceTask, Running, Goto, mapVars, reduceVars, ReduceBusy
    <2>4. CASE ReduceGot(w) \/ ReduceList(w) \/ ReduceRead(w) \/ ReduceWrite(w)
      BY <1>0, <2>4 DEF ReduceGot, ReduceList, ReduceRead, ReduceWrite, Goto, vars, mapVars
    <2>6. CASE ReduceReadFails(w)
      BY <1>0, <2>6 DEF ReduceReadFails, vars, mapVars, reduceVars
    <2>5. CASE ReduceReport(w)
      BY <1>0, <2>5 DEF ReduceReport, SetReduceStat, Goto, mapVars
    <2> QED BY <2>1, <2>2, <2>3, <2>4, <2>5, <2>6 DEF ReduceWorker
  <1>11. CASE UNCHANGED allVars
    BY <1>0, <1>11 DEF allVars, vars, jobVars, mapVars, reduceVars
  <1> QED BY <1>1, <1>2, <1>3, <1>4, <1>5, <1>6, <1>7, <1>8, <1>9, <1>10, <1>11 DEF JobNext, Server

\* As long as no live worker was timed out, every file is in every bucket once.
LEMMA OnTimeInit == JobInit => OnTimeInv
  <1> SUFFICES ASSUME JobInit PROVE MapOnTime /\ ReduceOnTime
    BY DEF OnTimeInv
  <1>1. /\ finishedMapTask = {} /\ finishedReduceTask = {} /\ rpc.pc = "idle"
        /\ \A w \in Workers : wpc[w] = "unborn"
        /\ inter = [i \in MapWorkers |-> [j \in ReduceTasks |-> NoFile]] /\ output = [j \in ReduceTasks |-> <<>>]
    BY DEF JobInit, Init, Idle
  <1>2. MapFiles
    BY <1>1 DEF MapFiles, Writing, NoCopy, NoFile, Workers
  <1>3. Reads /\ Outputs
    BY <1>1 DEF Reads, Outputs, Reporting, Workers
  <1> QED BY <1>1, <1>2, <1>3 DEF MapOnTime, ReduceOnTime, MapBusy, ReduceBusy, Workers

\* Every step of a job keeps both phases on time.
LEMMA OnTimeNext ==
    ASSUME Short = {}, JobInv, OnTimeInv, [JobNext]_allVars
    PROVE  OnTimeInv'
  <1> SUFFICES ASSUME early' = 0 PROVE MapOnTime' /\ ReduceOnTime'
    BY DEF OnTimeInv
  <1>1. early = 0
    <2>1. early' = early \/ early' = early + 1
      BY DEF JobNext, Server, ServePop, ServeWaitMap, ServeReplyMap, ServeWaitReduce, ServeReplyReduce, Main,
             MainSpawnMap, MainWait, MainSpawnReduce, MainDone, RemoveFile, MainExit, MapTimer, ReduceTimer,
             MapWorker, MapPoll, MapBroadcast, MapAsk, MapAskEmpty, MapGot, MapWrite, MapWriteFails, MapReport, ReduceWorker, ReducePoll,
             ReduceAsk, ReduceAskEmpty, ReduceGot, ReduceList, ReduceRead, ReduceReadFails, ReduceWrite,
             ReduceReport, allVars, jobVars
    <2>2. early \in Nat
      BY HasMapData DEF MapData
    <2> QED BY <2>1, <2>2
  <1>2. MapOnTime /\ ReduceOnTime
    BY <1>1 DEF OnTimeInv
  <1>3. MapOnTime'
    BY <1>1, <1>2, Quiet, MapStill, OnTimePop, OnTimeWait, OnTimeReply, OnTimeTimer, OnTimeGot, OnTimeWrite,
       OnTimeReport
  <1>4. ReduceOnTime'
    BY <1>1, <1>2, Quiet, ReduceStill, OnTimePopReduce, OnTimeWaitReduce, OnTimeReplyReduce, OnTimeReduceTimer,
       OnTimeGotReduce, OnTimeList, OnTimeRead, OnTimeResult, OnTimeReportReduce
  <1> QED BY <1>3, <1>4

\* The output counts every word as often as it is in the files: tasks are executed again
\* and files are only ever appended to (worker.cpp:106), but a task is given to another
\* worker only after the first hangs, unless a timer gave up on a live one.
THEOREM JobCountsExactly ==
    ASSUME Short = {}
    PROVE  JobSpec => []CountsExactOnTime
  <1>1. JobInv /\ OnTimeInv => CountsExactOnTime
    BY HasReduceData DEF ReduceData, OnTimeInv, ReduceOnTime, Outputs, CountsExactOnTime, CountsExact
  <1> QED BY <1>1, JobAlways, OnTimeInit, OnTimeNext, PTL DEF JobSpec
=============================================================================
