---------------------------- MODULE SnapshotRaft ----------------------------
(***************************************************************************)
(* Raft with log compaction under the key-value server of LAB3             *)
(* (kvRaft/raft.hpp and the apply and snapshot loops of kvRaft/server.cpp).*)
(* A step is a critical section of m_lock.  An election is one step: module*)
(* Raft has its interleavings.  Calls are neither lost nor duplicated but  *)
(* are handled and answered in any order.                                  *)
(*                                                                         *)
(* Every command comes from a client of its own, so m_clientSeqMap is the  *)
(* set of the commands seen; the database is one key to which commands are *)
(* appended.  m_logs holds the entries after index m_lastIncludedIndex.    *)
(***************************************************************************)
EXTENDS Integers, Sequences, FiniteSets, FiniteSetsExt, SequencesExt

CONSTANTS
    Peers,      \* number of servers, odd
    Limit,      \* ExceedLogSize: entries saved before the server takes a snapshot
    MaxTerm,    \* bound: terms
    MaxBeat,    \* bound: heartbeat rounds, of all servers together
    MaxStart,   \* bound: calls of start(), retries included
    MaxKill,    \* bound: calls of kill()
    Mortal,     \* bound: the servers kill() is called for
    MaxRestart, \* bound: restarts
    Accidents   \* which of the following timings may happen:
                \* "overlap": a heartbeat before the calls of the last are answered,
                \* an election while there are unanswered calls, or one won before
                \* the last server has got its call
                \* "late": a call's thread runs after its server has gone on
                \* "lag": an apply loop is more than a heartbeat round behind, or
                \* runs in the middle of the installation of a snapshot
                \* "stale": a snapshot is installed while a taken one waits
                \* "again": a snapshot is taken with nothing applied since the last
                \* "restart": a restart of a server that has a snapshot

Accident == {"overlap", "late", "lag", "stale", "again", "restart"}
ASSUME PeersOdd == Peers \in Nat /\ Peers % 2 = 1
ASSUME SnapBounds ==
    /\ {Limit, MaxTerm, MaxBeat, MaxStart, MaxKill, MaxRestart} \subseteq Nat
    /\ Accidents \subseteq Accident
    /\ Mortal \subseteq 0..(Peers - 1)

Server == 0..(Peers - 1)
Others(s) == Server \ {s}
None == -1
Allowed(a) == a \in Accidents

VARIABLES
    state,        \* m_state: "LEADER", "CANDIDATE", "FOLLOWER"
    curTerm,
    votedFor,
    logs,         \* m_logs: entries [term, cmd] after snapIndex
    snapIndex,    \* m_lastIncludedIndex
    snapTerm,     \* m_lastIncludedTerm
    disk,         \* the file persister-<id>
    snapFile,     \* the file snapShot-<id>: <<>> or <<[db, seen]>>
    nextIndex,
    matchIndex,
    commitIndex,
    lastApplied,
    dead,         \* servers killed and not yet activated
    noBeat,       \* servers whose processEntriesLoop has ended
    installFlag,  \* isInstallFlag: the peers a server must send its snapshot
    existIndex,   \* isExistIndex: peers already chosen in this round
    threads,      \* [install, append]: threads of a round not yet scheduled
    net,          \* calls in progress
    batch,        \* messages the apply loop has yet to hand over
    installing,   \* installSnapShot: <<>>, <<"cut">> or <<"tell", snapshot, index>>
    kv,           \* the server's [db, seen, applied]
    taken,        \* snapShotLoop between getSnapShot and recvSnapShot
    locked,       \* servers whose m_lock is held for ever
    wild,         \* history: where m_logs was read out of its bounds
    beats, retries, kills, restarts,
    cmds,         \* commands started so far
    committed     \* history: the entries committed by a leader

raftVars == <<state, curTerm, votedFor, logs, snapIndex, snapTerm>>
diskVars == <<disk, snapFile>>
leaderVars == <<nextIndex, matchIndex, commitIndex>>
roundVars == <<installFlag, existIndex, threads>>
kvVars == <<lastApplied, batch, installing, kv, taken>>
faultVars == <<dead, noBeat, locked, kills, restarts>>
vars == <<raftVars, diskVars, leaderVars, roundVars, net, kvVars, faultVars,
          beats, retries, cmds, committed, wild>>

NoKv == [db |-> <<>>, seen |-> {}, applied |-> 0]
NoThreads == [install |-> 0, append |-> 0]
FirstFile == [term |-> 1, voted |-> 0, logs |-> <<>>, size |-> 0]

\* Make, once server 0 has been elected in term 1.
Init ==
    /\ state = [s \in Server |-> IF s = 0 THEN "LEADER" ELSE "FOLLOWER"]
    /\ curTerm = [s \in Server |-> 1]
    /\ votedFor = [s \in Server |-> 0]
    /\ logs = [s \in Server |-> <<>>]
    /\ snapIndex = [s \in Server |-> 0]
    /\ snapTerm = [s \in Server |-> 0]
    /\ disk = [s \in Server |-> FirstFile]
    /\ snapFile = [s \in Server |-> <<>>]
    /\ nextIndex = [s \in Server |-> [p \in Server |-> 1]]
    /\ matchIndex = [s \in Server |-> [p \in Server |-> 0]]
    /\ commitIndex = [s \in Server |-> 0]
    /\ lastApplied = [s \in Server |-> 0]
    /\ dead = {} /\ noBeat = {} /\ locked = {}
    /\ installFlag = [s \in Server |-> {}]
    /\ existIndex = [s \in Server |-> {}]
    /\ threads = [s \in Server |-> NoThreads]
    /\ net = {}
    /\ batch = [s \in Server |-> <<>>]
    /\ installing = [s \in Server |-> <<>>]
    /\ kv = [s \in Server |-> NoKv]
    /\ taken = [s \in Server |-> <<>>]
    /\ beats = 0 /\ retries = 0 /\ kills = 0 /\ restarts = 0
    /\ cmds = 0
    /\ committed = <<>>
    /\ wild = {}

-----------------------------------------------------------------------------
(* The compacted log.                                                      *)

lastIndex(s) == snapIndex[s] + Len(logs[s])
lastTerm(s) == IF logs[s] = <<>> THEN snapTerm[s] ELSE Last(logs[s]).term

\* idxToCompressLogPos, counting from 1.
idxToCompressLogPos(s, i) == i - snapIndex[s]
InLog(s, i) == idxToCompressLogPos(s, i) \in 1..Len(logs[s])
EntryTerm(s, i) == logs[s][idxToCompressLogPos(s, i)].term
TermAt(s, i) == IF i = snapIndex[s] THEN snapTerm[s] ELSE EntryTerm(s, i)

\* saveRaftState, serialize: the file is not truncated, so what was there beyond
\* the new text stays (fields and entries are taken to be of equal width).  size
\* is persister.logs.size(), which ExceedLogSize looks at.
Saved(file, term, voted, log) ==
    [term |-> term, voted |-> voted, size |-> Len(log),
     logs |-> log \o SubSeq(file.logs, Len(log) + 1, Len(file.logs))]
Save(s) == disk' = [disk EXCEPT ![s] = Saved(@, curTerm'[s], votedFor'[s], logs'[s])]

\* A server runs only while nobody keeps its lock; the threads of a round run
\* before anything else does, except by accident.
Free(s) ==
    /\ s \notin locked
    /\ Allowed("late") \/ \A p \in Server : threads[p] = NoThreads

\* Apply loops run every 10 ms, heartbeats come every 100 ms and elections after
\* 200: everything a server knows to be committed has been applied by then.
Applied ==
    Allowed("lag") \/ \A s \in Server :
        batch[s] = <<>> /\ installing[s] = <<>> /\ (s \in dead \/ lastApplied[s] >= commitIndex[s])

-----------------------------------------------------------------------------
(* Elections: electionLoop, callRequestVote, requestVote.                  *)

checkLogUptodate(v, term, index) ==
    \/ term > lastTerm(v)
    \/ term = lastTerm(v) /\ index >= lastIndex(v)

Grants(v, s, t) ==
    /\ curTerm[v] < t \/ (curTerm[v] = t /\ votedFor[v] \in {None, s})
    /\ checkLogUptodate(v, lastTerm(s), lastIndex(s))

\* s stands for the next term and the servers R answer.  A vote refused because
\* of the log is not saved.  (What a candidate does that meets a newer term is in
\* module Raft.)  s may have been killed: electionLoop looks at dead only after
\* its next election (that it then ends for good matters from the third term on).
Campaign(s, R) ==
    LET t == curTerm[s] + 1
        votes == {v \in R : Grants(v, s, t)}
        bound == {v \in R : curTerm[v] = t /\ votedFor[v] \notin {None, s}}
        won == 2 * (Cardinality(votes) + 1) > Peers
    IN  /\ \A v \in R \cup {s} : Free(v)
        /\ Applied
        /\ Allowed("overlap") \/ net = {}
        /\ state[s] # "LEADER"
        /\ t <= MaxTerm
        /\ \A v \in R : curTerm[v] <= t
        /\ R = Others(s) \/ (Allowed("overlap") /\ 2 * (Cardinality(R) + 1) > Peers)
        /\ state' = [v \in Server |->
               IF v = s THEN IF won THEN "LEADER" ELSE "CANDIDATE"
               ELSE IF v \in R /\ curTerm[v] < t THEN "FOLLOWER" ELSE state[v]]
        /\ curTerm' = [v \in Server |-> IF v \in R \cup {s} THEN t ELSE curTerm[v]]
        /\ votedFor' = [v \in Server |->
               IF v \in votes \cup {s} THEN s
               ELSE IF v \in R /\ curTerm[v] < t THEN None ELSE votedFor[v]]
        /\ disk' = [v \in Server |-> IF v \in votes \cup bound \cup {s}
               THEN Saved(disk[v], t, votedFor'[v], logs[v]) ELSE disk[v]]
        /\ IF won
           THEN /\ nextIndex' = [nextIndex EXCEPT ![s] = [p \in Server |-> lastIndex(s) + 1]]
                /\ matchIndex' = [matchIndex EXCEPT ![s] = [p \in Server |-> 0]]
           ELSE UNCHANGED <<nextIndex, matchIndex>>
        /\ UNCHANGED <<logs, snapIndex, snapTerm, snapFile, commitIndex, roundVars, net,
                       kvVars, faultVars, beats, retries, cmds, committed, wild>>

-----------------------------------------------------------------------------
(* The leader: start, processEntriesLoop and the threads of a round.       *)

\* start: not saved yet.  A clerk that got no answer starts its command again.
Start(s, c) ==
    /\ Free(s)
    /\ state[s] = "LEADER"
    /\ cmds + retries < MaxStart
    /\ \/ c = cmds + 1 /\ cmds' = c /\ UNCHANGED retries
       \/ c <= cmds /\ retries' = retries + 1 /\ UNCHANGED cmds
    /\ logs' = [logs EXCEPT ![s] = Append(@, [term |-> curTerm[s], cmd |-> c])]
    /\ UNCHANGED <<state, curTerm, votedFor, snapIndex, snapTerm, diskVars, leaderVars,
                   roundVars, net, kvVars, faultVars, beats, committed, wild>>

\* mutant: a peer just behind the compacted log is sent entries
NeedsSnapshotLate(s, p) == nextIndex[s][p] < snapIndex[s]
NeedsSnapshot(s, p) == nextIndex[s][p] <= snapIndex[s]

\* processEntriesLoop: the flags of the peers, and one thread for each.
Beat(s) ==
    LET flagged == {p \in Others(s) : NeedsSnapshot(s, p)} IN
    /\ Free(s)
    /\ Applied
    /\ state[s] = "LEADER" /\ s \notin noBeat
    /\ beats < MaxBeat /\ beats' = beats + 1
    /\ Allowed("overlap") \/ (threads[s] = NoThreads /\ ~ \E m \in net : m.from = s)
    /\ installFlag' = [installFlag EXCEPT ![s] = @ \cup flagged]
    /\ threads' = [threads EXCEPT ![s] =
           [install |-> @.install + Cardinality(flagged),
            append |-> @.append + Cardinality(Others(s) \ flagged)]]
    /\ UNCHANGED <<raftVars, diskVars, leaderVars, existIndex, net, kvVars, faultVars,
                   retries, cmds, committed, wild>>

\* The peer a thread picks: the first that is flagged or not, as its kind wants,
\* and not picked yet.  With none left clientPeerId is uninitialized.
Picks(s, kind) ==
    LET fit == {p \in Others(s) \ existIndex[s] : (p \in installFlag[s]) = (kind = "install")}
    IN  IF fit = {} THEN {None} ELSE {Min(fit)}

\* mutant: a picked peer is not remembered
PickedForgotten(s, p, kind) ==
    /\ threads' = [threads EXCEPT ![s][kind] = @ - 1]
    /\ UNCHANGED <<existIndex, installFlag>>
\* The bookkeeping after a pick: with all peers picked a new round can begin.
Picked(s, p, kind) ==
    LET exist == existIndex[s] \cup {p}
        full == Cardinality(exist) = Peers - 1
    IN  /\ existIndex' = [existIndex EXCEPT ![s] = IF full THEN {} ELSE exist]
        /\ installFlag' = [installFlag EXCEPT ![s] = IF full THEN {} ELSE @]
        /\ threads' = [threads EXCEPT ![s][kind] = @ - 1]

Wild(site) == wild' = wild \cup {site}

\* mutant: off by one
EntriesAfterOff(s, prev) == SubSeq(logs[s], idxToCompressLogPos(s, prev) + 2, Len(logs[s]))
EntriesAfter(s, prev) == SubSeq(logs[s], idxToCompressLogPos(s, prev) + 1, Len(logs[s]))
Turn(s) == threads[s].install + threads[s].append

\* sendAppendEntries up to its call.
SendAppend(s) ==
    /\ s \notin locked
    /\ threads[s].append > 0
    /\ \E p \in Picks(s, "append") :
          LET prev == nextIndex[s][p] - 1 IN
          IF p = None \/ prev < snapIndex[s] \/ prev > lastIndex(s)
          THEN /\ Wild("append")
               /\ threads' = [threads EXCEPT ![s].append = @ - 1]
               /\ UNCHANGED <<net, existIndex, installFlag>>
          ELSE /\ Picked(s, p, "append")
               /\ net' = net \cup {[kind |-> "append", from |-> s, to |-> p, turn |-> Turn(s),
                     term |-> curTerm[s], prev |-> prev, prevTerm |-> TermAt(s, prev),
                     ents |-> EntriesAfter(s, prev),
                     commit |-> commitIndex[s]]}
               /\ UNCHANGED wild
    /\ UNCHANGED <<raftVars, diskVars, leaderVars, kvVars, faultVars, beats, retries, cmds,
                   committed>>

\* sendInstallSnapShot up to its call: the snapshot is read from the file.
SendInstall(s) ==
    /\ s \notin locked
    /\ threads[s].install > 0
    /\ \E p \in Picks(s, "install") :
          IF p = None
          THEN /\ Wild("install")
               /\ threads' = [threads EXCEPT ![s].install = @ - 1]
               /\ UNCHANGED <<net, existIndex, installFlag>>
          ELSE /\ Picked(s, p, "install")
               /\ net' = net \cup {[kind |-> "install", from |-> s, to |-> p, turn |-> Turn(s),
                     term |-> curTerm[s], index |-> snapIndex[s], iterm |-> snapTerm[s],
                     snap |-> snapFile[s]]}
               /\ UNCHANGED wild
    /\ UNCHANGED <<raftVars, diskVars, leaderVars, kvVars, faultVars, beats, retries, cmds,
                   committed>>

-----------------------------------------------------------------------------
(* The followers: appendEntries and installSnapShot.                       *)

Answer(m, fields) ==
    net' = (net \ {m}) \cup {fields @@ [kind |-> m.kind \o "Rsp", from |-> m.from,
                to |-> m.to, turn |-> m.turn, term |-> m.term, args |-> m]}

\* A call of a current leader makes its receiver a follower.  For a newer term
\* the cleared vote is saved, with the old term.
Follow(p, m) ==
    /\ curTerm' = [curTerm EXCEPT ![p] = m.term]
    /\ state' = [state EXCEPT ![p] = "FOLLOWER"]
    /\ votedFor' = [votedFor EXCEPT ![p] = IF m.term > curTerm[p] THEN None ELSE @]
FollowFile(p, m) ==
    IF m.term > curTerm[p] THEN Saved(disk[p], curTerm[p], None, logs[p]) ELSE disk[p]

\* The answer of a follower whose log does not fit: <<conflict_index, conflict_term>>,
\* <<>> when it fits.
Conflict(p, m) ==
    IF m.prev < snapIndex[p] THEN <<1, None>>
    ELSE IF m.prev = snapIndex[p]
    THEN IF m.prevTerm # snapTerm[p] THEN <<1, None>> ELSE <<>>
    ELSE IF lastIndex(p) < m.prev THEN <<lastIndex(p) + 1, None>>
    ELSE LET t == EntryTerm(p, m.prev) IN
         IF t = m.prevTerm THEN <<>>
         ELSE <<Min({i \in (snapIndex[p] + 1)..m.prev : EntryTerm(p, i) = t}), t>>

AppendEntries(p, m) ==
    /\ m \in net /\ m.kind = "append" /\ m.to = p
    /\ Free(p)
    /\ IF m.term < curTerm[p]
       THEN /\ Answer(m, [rterm |-> curTerm[p], success |-> FALSE, conflict |-> <<None, None>>])
            /\ UNCHANGED <<raftVars, disk, commitIndex>>
       ELSE LET fit == Conflict(p, m) IN
            /\ Follow(p, m)
            /\ IF p \in dead \/ fit # <<>>
               THEN /\ disk' = [disk EXCEPT ![p] = FollowFile(p, m)]
                    /\ Answer(m, [rterm |-> curTerm[p], success |-> FALSE,
                          conflict |-> IF p \in dead THEN <<None, -100>> ELSE fit])
                    /\ UNCHANGED <<logs, commitIndex>>
               ELSE LET log == SubSeq(logs[p], 1, m.prev - snapIndex[p]) \o m.ents IN
                    /\ logs' = [logs EXCEPT ![p] = log]
                    /\ disk' = [disk EXCEPT ![p] =
                          Saved(FollowFile(p, m), m.term, votedFor'[p], log)]
                    /\ commitIndex' = [commitIndex EXCEPT ![p] =
                          IF @ < m.commit THEN Min({m.commit, snapIndex[p] + Len(log)}) ELSE @]
                    /\ Answer(m, [rterm |-> curTerm[p], success |-> TRUE,
                                  conflict |-> <<None, None>>])
            /\ UNCHANGED <<snapIndex, snapTerm>>
    /\ UNCHANGED <<snapFile, nextIndex, matchIndex, roundVars, kvVars, faultVars, beats,
                   retries, cmds, committed, wild>>

\* installSnapShot, the first lock: the log is cut at the snapshot's index, or
\* cleared when its last entry has another term than the snapshot's.
InstallSnapshot(p, m) ==
    /\ m \in net /\ m.kind = "install" /\ m.to = p
    /\ Free(p)
    /\ Answer(m, [rterm |-> curTerm[p]])
    /\ IF m.term < curTerm[p]
       THEN UNCHANGED <<raftVars, diskVars, installing>>
       ELSE /\ Follow(p, m)
            /\ IF m.index <= snapIndex[p]
               THEN /\ disk' = [disk EXCEPT ![p] = FollowFile(p, m)]
                    /\ UNCHANGED <<logs, snapIndex, snapTerm, snapFile, installing>>
               ELSE /\ installing[p] = <<>>
                    /\ Allowed("lag") \/ (batch[p] = <<>> /\ lastApplied[p] >= commitIndex[p])
                    /\ Allowed("stale") \/ taken[p] = <<>>
                    /\ logs' = [logs EXCEPT ![p] =
                          IF m.index < lastIndex(p) /\ lastTerm(p) = m.iterm
                          THEN SubSeq(@, idxToCompressLogPos(p, m.index) + 1, Len(@))
                          ELSE <<>>]
                    /\ snapIndex' = [snapIndex EXCEPT ![p] = m.index]
                    /\ snapTerm' = [snapTerm EXCEPT ![p] = m.iterm]
                    /\ disk' = [disk EXCEPT ![p] =
                          Saved(FollowFile(p, m), m.term, votedFor'[p], logs'[p])]
                    /\ snapFile' = [snapFile EXCEPT ![p] = m.snap]
                    /\ installing' = [installing EXCEPT ![p] = <<"cut">>]
    /\ UNCHANGED <<leaderVars, roundVars, lastApplied, batch, kv, taken, faultVars, beats,
                   retries, cmds, committed, wild>>

\* installSnapShotTokvServer, the second lock.
InstallTell(p) ==
    /\ Free(p)
    /\ installing[p] = <<"cut">>
    /\ lastApplied' = [lastApplied EXCEPT ![p] = snapIndex[p]]
    /\ installing' = [installing EXCEPT ![p] = <<"tell", snapFile[p], snapIndex[p]>>]
    /\ UNCHANGED <<raftVars, diskVars, leaderVars, roundVars, net, batch, kv, taken,
                   faultVars, beats, retries, cmds, committed, wild>>

-----------------------------------------------------------------------------
(* The leader again: the answers.                                          *)

\* A call whose term is not the server's any more is forgotten; an answer with a
\* newer term makes the server a follower.
Outdated(s, m) == curTerm[s] # m.term
Deposed(s, m) ==
    /\ state' = [state EXCEPT ![s] = "FOLLOWER"]
    /\ curTerm' = [curTerm EXCEPT ![s] = m.rterm]
    /\ votedFor' = [votedFor EXCEPT ![s] = None]
    /\ UNCHANGED <<logs, leaderVars, committed>>
    /\ Save(s)

\* mutant: the element after it
MajorityMatchNext(match) ==
    Max({i \in Range(match) : 2 * Cardinality({p \in Server : match[p] >= i}) >= Peers - 1})
\* The largest index a majority has: element size/2 of the sorted matchIndex.
MajorityMatch(match) ==
    Max({i \in Range(match) : 2 * Cardinality({p \in Server : match[p] >= i}) > Peers})

CommitAt(s, match) ==
    LET i == MajorityMatch(match)
        new == IF i > commitIndex[s] /\ (i <= snapIndex[s] \/ EntryTerm(s, i) = curTerm[s])
               THEN i ELSE commitIndex[s]
    IN  /\ commitIndex' = [commitIndex EXCEPT ![s] = new]
        /\ committed' = IF new <= Len(committed) THEN committed
              ELSE committed \o SubSeq(logs[s], Len(committed) + 1 - snapIndex[s], new - snapIndex[s])

\* mutant: one before the index the follower names
NextAfterOff(s, m) == IF m.conflict[2] = -100 THEN nextIndex[s][m.to] ELSE m.conflict[1] - 1
\* Where the leader goes on after a refusal.
NextAfter(s, m) ==
    LET found == {i \in (snapIndex[s] + 1)..m.args.prev : EntryTerm(s, i) = m.conflict[2]}
    IN  IF m.conflict[2] = -100 THEN nextIndex[s][m.to]
        ELSE IF m.conflict[2] # None /\ found # {} THEN Max(found) + 1
        ELSE m.conflict[1]

AppendAnswer(s, m) ==
    /\ m \in net /\ m.kind = "appendRsp" /\ m.from = s
    /\ Free(s)
    /\ net' = net \ {m}
    /\ IF Outdated(s, m)
       THEN UNCHANGED <<raftVars, disk, leaderVars, committed>>
       ELSE IF m.rterm > curTerm[s]
       THEN Deposed(s, m) /\ UNCHANGED <<snapIndex, snapTerm>>
       ELSE /\ IF m.success
               THEN LET next == m.args.prev + Len(m.args.ents) + 1
                        match == [matchIndex[s] EXCEPT ![m.to] = next - 1, ![s] = lastIndex(s)]
                    IN  /\ nextIndex' = [nextIndex EXCEPT ![s][m.to] = next]
                        /\ matchIndex' = [matchIndex EXCEPT ![s] = match]
                        /\ CommitAt(s, match)
               ELSE /\ nextIndex' = [nextIndex EXCEPT ![s][m.to] = NextAfter(s, m)]
                    /\ UNCHANGED <<matchIndex, commitIndex, committed>>
            /\ UNCHANGED raftVars
            /\ Save(s)
    /\ UNCHANGED <<snapFile, roundVars, kvVars, faultVars, beats, retries, cmds, wild>>

InstallAnswer(s, m) ==
    /\ m \in net /\ m.kind = "installRsp" /\ m.from = s
    /\ Free(s)
    /\ net' = net \ {m}
    /\ IF Outdated(s, m)
       THEN UNCHANGED <<raftVars, disk, leaderVars, committed>>
       ELSE IF m.rterm > curTerm[s]
       THEN Deposed(s, m) /\ UNCHANGED <<snapIndex, snapTerm>>
       ELSE LET match == [matchIndex[s] EXCEPT ![m.to] = m.args.index, ![s] = lastIndex(s)] IN
            /\ nextIndex' = [nextIndex EXCEPT ![s][m.to] = lastIndex(s) + 1]
            /\ matchIndex' = [matchIndex EXCEPT ![s] = match]
            /\ CommitAt(s, match)
            /\ UNCHANGED <<raftVars, disk>>
    /\ UNCHANGED <<snapFile, roundVars, kvVars, faultVars, beats, retries, cmds, wild>>

-----------------------------------------------------------------------------
(* The key-value server: applyLogLoop, applyLoop, snapShotLoop.            *)

\* applyLogLoop, under the lock: everything committed becomes a batch.
ApplyBatch(s) ==
    LET new == (lastApplied[s] + 1)..commitIndex[s] IN
    /\ Free(s)
    /\ s \notin dead
    /\ batch[s] = <<>>
    /\ new # {}
    /\ Allowed("lag") \/ installing[s] = <<>>
    /\ IF \A i \in new : InLog(s, i)
       THEN /\ batch' = [batch EXCEPT ![s] = [k \in 1..Cardinality(new) |->
                  [index |-> lastApplied[s] + k,
                   cmd |-> logs[s][idxToCompressLogPos(s, lastApplied[s] + k)].cmd]]]
            /\ UNCHANGED wild
       ELSE Wild("apply") /\ UNCHANGED batch
    /\ lastApplied' = [lastApplied EXCEPT ![s] = commitIndex[s]]
    /\ UNCHANGED <<raftVars, diskVars, leaderVars, roundVars, net, installing, kv, taken,
                   faultVars, beats, retries, cmds, committed>>

\* mutant: m_clientSeqMap is not looked at
ExecutedAgain(old, m) ==
    [applied |-> m.index, seen |-> old.seen \cup {m.cmd}, db |-> Append(old.db, m.cmd)]
\* What applyLoop makes of a message.
Executed(old, m) ==
    [applied |-> m.index, seen |-> old.seen \cup {m.cmd},
     db |-> IF m.cmd \in old.seen THEN old.db ELSE Append(old.db, m.cmd)]

\* The next message of the batch goes through the two semaphores to applyLoop.
Deliver(s) ==
    /\ batch[s] # <<>>
    /\ batch' = [batch EXCEPT ![s] = Tail(@)]
    /\ kv' = [kv EXCEPT ![s] = Executed(@, Head(batch[s]))]
    /\ UNCHANGED <<raftVars, diskVars, leaderVars, roundVars, net, lastApplied, installing,
                   taken, faultVars, beats, retries, cmds, committed, wild>>

\* recoverySnapShot overwrites what the snapshot holds and keeps the rest.
Recovered(old, snap, index) ==
    [applied |-> index, db |-> snap.db, seen |-> old.seen \cup snap.seen]

\* The installed snapshot goes the same way.
DeliverSnapshot(s) ==
    /\ Len(installing[s]) = 3
    /\ installing' = [installing EXCEPT ![s] = <<>>]
    /\ kv' = [kv EXCEPT ![s] = Recovered(@, installing[s][2][1], installing[s][3])]
    /\ UNCHANGED <<raftVars, diskVars, leaderVars, roundVars, net, lastApplied, batch, taken,
                   faultVars, beats, retries, cmds, committed, wild>>

\* snapShotLoop: the state and its index, under the server's own lock.
TakeSnapshot(s) ==
    /\ Free(s)
    /\ taken[s] = <<>>
    /\ disk[s].size >= Limit
    /\ Allowed("again") \/ kv[s].applied > snapIndex[s]
    /\ taken' = [taken EXCEPT ![s] = <<kv[s]>>]
    /\ UNCHANGED <<raftVars, diskVars, leaderVars, roundVars, net, lastApplied, batch,
                   installing, kv, faultVars, beats, retries, cmds, committed, wild>>

\* mutant: the index is read when the log is cut, not with the state
SnapshotUptoNow(s) == kv[s].applied
SnapshotUpto(s) == taken[s][1].applied
\* recvSnapShot: the log is cut.  For an index already compacted it returns
\* without unlocking.
RecvSnapshot(s) ==
    LET snap == taken[s][1]  i == SnapshotUpto(s) IN
    /\ Free(s)
    /\ taken[s] # <<>>
    /\ taken' = [taken EXCEPT ![s] = <<>>]
    /\ IF i < snapIndex[s]
       THEN locked' = locked \cup {s} /\ UNCHANGED <<raftVars, diskVars, wild>>
       ELSE IF ~InLog(s, i)
       THEN Wild("snapshot") /\ UNCHANGED <<raftVars, diskVars, locked>>
       ELSE /\ snapTerm' = [snapTerm EXCEPT ![s] = EntryTerm(s, i)]
            /\ snapIndex' = [snapIndex EXCEPT ![s] = i]
            /\ logs' = [logs EXCEPT ![s] = SubSeq(@, i - snapIndex[s] + 1, Len(@))]
            /\ UNCHANGED <<state, curTerm, votedFor, locked, wild>>
            /\ Save(s)
            /\ snapFile' = [snapFile EXCEPT ![s] = <<[db |-> snap.db, seen |-> snap.seen]>>]
    /\ UNCHANGED <<leaderVars, roundVars, net, lastApplied, batch, installing, kv, dead,
                   noBeat, kills, restarts, beats, retries, cmds, committed>>

-----------------------------------------------------------------------------
(* Faults: kill and activate, and a restart of the process.                *)

\* kill() of a server that does not lead: processEntriesLoop ends for good.  main
\* sleeps for seconds before kill and before activate.
Kill(s) ==
    /\ kills < MaxKill /\ kills' = kills + 1
    /\ net = {} /\ Applied
    /\ s \in Mortal \ dead /\ state[s] # "LEADER"
    /\ dead' = dead \cup {s}
    /\ noBeat' = noBeat \cup {s}
    /\ UNCHANGED <<raftVars, diskVars, leaderVars, roundVars, net, kvVars, locked, restarts,
                   beats, retries, cmds, committed, wild>>
Activate(s) ==
    /\ net = {} /\ Applied
    /\ s \in dead
    /\ dead' = dead \ {s}
    /\ UNCHANGED <<raftVars, diskVars, leaderVars, roundVars, net, kvVars, noBeat, locked,
                   kills, restarts, beats, retries, cmds, committed, wild>>

\* All servers live in one process.  readRaftState restores term, vote and log,
\* but not m_lastIncludedIndex and m_lastIncludedTerm.
Restart ==
    /\ restarts < MaxRestart /\ restarts' = restarts + 1
    /\ Allowed("restart") \/ \A s \in Server :
          snapFile[s] = <<>> /\ Len(disk[s].logs) = disk[s].size
    /\ state' = [s \in Server |-> "FOLLOWER"]
    /\ curTerm' = [s \in Server |-> disk[s].term]
    /\ votedFor' = [s \in Server |-> disk[s].voted]
    /\ logs' = [s \in Server |-> disk[s].logs]
    /\ snapIndex' = [s \in Server |-> 0]
    /\ snapTerm' = [s \in Server |-> 0]
    /\ nextIndex' = [s \in Server |-> [p \in Server |-> 1]]
    /\ matchIndex' = [s \in Server |-> [p \in Server |-> 0]]
    /\ commitIndex' = [s \in Server |-> 0]
    /\ lastApplied' = [s \in Server |-> 0]
    /\ dead' = {} /\ noBeat' = {} /\ locked' = {}
    /\ installFlag' = [s \in Server |-> {}]
    /\ existIndex' = [s \in Server |-> {}]
    /\ threads' = [s \in Server |-> NoThreads]
    /\ net' = {}
    /\ batch' = [s \in Server |-> <<>>]
    /\ installing' = [s \in Server |-> <<>>]
    /\ kv' = [s \in Server |-> IF snapFile[s] = <<>> THEN NoKv
                               ELSE Recovered(NoKv, snapFile[s][1], 0)]
    /\ taken' = [s \in Server |-> <<>>]
    /\ UNCHANGED <<diskVars, kills, beats, retries, cmds, committed, wild>>

LeaderStep ==
    \E s \in Server :
        \/ \E c \in 1..MaxStart : Start(s, c)
        \/ Beat(s) \/ SendAppend(s) \/ SendInstall(s)
        \/ \E m \in net : AppendAnswer(s, m) \/ InstallAnswer(s, m)
FollowerStep ==
    \E s \in Server :
        \/ \E R \in SUBSET Others(s) : Campaign(s, R)
        \/ \E m \in net : AppendEntries(s, m) \/ InstallSnapshot(s, m)
        \/ InstallTell(s)
KvStep ==
    \E s \in Server :
        \/ ApplyBatch(s) \/ Deliver(s) \/ DeliverSnapshot(s)
        \/ TakeSnapshot(s) \/ RecvSnapshot(s)
FaultStep == Restart \/ \E s \in Server : Kill(s) \/ Activate(s)
Next == LeaderStep \/ FollowerStep \/ KvStep \/ FaultStep

Spec == Init /\ [][Next]_vars

-----------------------------------------------------------------------------
(* Properties.                                                             *)

Entry == [term : 1..MaxTerm, cmd : 1..MaxStart]
TypeOK ==
    /\ state \in [Server -> {"LEADER", "CANDIDATE", "FOLLOWER"}]
    /\ curTerm \in [Server -> 1..MaxTerm]
    /\ votedFor \in [Server -> Server \cup {None}]
    /\ logs \in [Server -> Seq(Entry)]
    /\ snapIndex \in [Server -> Nat]
    /\ nextIndex \in [Server -> [Server -> Nat \ {0}]]
    /\ matchIndex \in [Server -> [Server -> Nat]]
    /\ dead \subseteq Server
    /\ threads \in [Server -> [install : Nat, append : Nat]]

\* What a database holds after some entries, each command once.
Effect(es) ==
    LET fresh == SelectSeq([i \in DOMAIN es |-> <<i, es[i].cmd>>],
                           LAMBDA x : ~ \E j \in 1..(x[1] - 1) : es[j].cmd = x[2])
    IN  [i \in DOMAIN fresh |-> fresh[i][2]]

\* Every key-value server is in the state that the committed entries up to its
\* m_lastAppliedIndex lead to, whether it applied them or installed a snapshot.
StateIsPrefix ==
    \A s \in Server :
        /\ kv[s].applied <= Len(committed)
        /\ kv[s].db = Effect(SubSeq(committed, 1, kv[s].applied))

\* The snapshot file of a server is the state at m_lastIncludedIndex, whose term is
\* m_lastIncludedTerm: what it sends a peer replaces exactly the entries it cut.
SnapshotFits ==
    \A s \in Server : snapIndex[s] > 0 =>
        /\ snapIndex[s] <= Len(committed)
        /\ snapTerm[s] = committed[snapIndex[s]].term
        /\ snapFile[s][1].db = Effect(SubSeq(committed, 1, snapIndex[s]))

\* Databases and snapshots are nothing but the effect of committed entries.
StateIsCommitted == StateIsPrefix /\ SnapshotFits

\* m_logs is never read outside its bounds: not by the apply loop, not when a
\* snapshot is taken, not when entries are sent.
NoWildRead == wild = {}

\* No server keeps m_lock for ever.
NobodyLocked == locked = {}

\* Two compacted logs with an entry of the same index and term have the same
\* command there, and entries of the same term before it, as far as both have them.
LogMatching ==
    \A s, p \in Server : \A i \in (snapIndex[s] + 1)..lastIndex(s) :
        InLog(p, i) /\ EntryTerm(s, i) = EntryTerm(p, i) =>
            /\ logs[s][idxToCompressLogPos(s, i)] = logs[p][idxToCompressLogPos(p, i)]
            /\ InLog(s, i - 1) /\ InLog(p, i - 1) => EntryTerm(s, i - 1) = EntryTerm(p, i - 1)

\* The leader of the newest term holds every committed entry, in its log or in
\* its snapshot.
LeaderComplete ==
    \A s \in Server : state[s] = "LEADER" /\ (\A p \in Server : curTerm[p] <= curTerm[s]) =>
        \A i \in 1..Len(committed) :
            \/ i <= snapIndex[s]
            \/ InLog(s, i) /\ logs[s][idxToCompressLogPos(s, i)] = committed[i]

\* What Raft promises of its logs holds of compacted ones.
LogSafety == TypeOK /\ LogMatching /\ LeaderComplete

\* A round of heartbeats makes one call to each peer: no two threads pick the same.
OneCallPerPeer ==
    Allowed("overlap") \/ \A m, n \in net :
        m.from = n.from /\ m.to = n.to => m = n
=============================================================================
