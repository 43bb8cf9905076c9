-------------------------------- MODULE Raft --------------------------------
(***************************************************************************)
(* The Raft servers of LAB2 (6.824/src/Raft/raft.cpp), as the code runs    *)
(* them: per server an election thread, a heartbeat thread, one thread     *)
(* that serves requestVote, one that serves appendEntries, and a detached  *)
(* thread for every outgoing call.  A step is a critical section of m_lock.*)
(*                                                                         *)
(* An outgoing thread first waits to be scheduled (newVotes, newAppends):  *)
(* it reads m_curTerm, the logs and the peer to call only then.  Its call  *)
(* is a record in the bag "net", first as a request, then as a reply;      *)
(* calls are neither lost nor duplicated but finish in any order.          *)
(***************************************************************************)
EXTENDS Integers, Sequences, FiniteSets, BagsExt, Bags

CONSTANTS
    Peers,        \* number of servers, odd
    MaxElection,  \* bound: election timeouts, of all servers together
    MaxBeat,      \* bound: heartbeat rounds, of all servers together
    MaxStart,     \* bound: commands passed to start()
    MaxRestart,   \* bound: restarts
    MaxKill,      \* bound: calls of kill()
    Overlap,      \* may a timer of a server fire while its calls are unanswered?
    LateThreads   \* may a server learn a new term before the threads it created
                  \* have read the term they will send?

ASSUME PeersAssumption == Peers \in Nat /\ Peers % 2 = 1 /\ Peers > 1
ASSUME BoundsAssumption ==
    /\ {MaxElection, MaxBeat, MaxStart, MaxRestart, MaxKill} \subseteq Nat
    /\ {Overlap, LateThreads} \subseteq BOOLEAN

Server == 0..(Peers - 1)
None == -1
\* mutant: a candidate alone is a majority
MajorityTooSmall == Peers \div 2 - 1
Majority == Peers \div 2

VARIABLES
    state,         \* m_state: "LEADER", "CANDIDATE", "FOLLOWER"
    curTerm,
    votedFor,
    logs,          \* m_logs, entries [term, cmd]; index 1 is m_logs[0]
    disk,          \* the file persister-<id>
    nextIndex,
    matchIndex,
    commitIndex,
    recvVotes,
    finishedVote,
    cur_peerId,    \* which peer the next outgoing thread calls
    electing,      \* electionLoop waits on m_cond
    dead,          \* kill() was called
    ended,         \* electionLoop has returned
    newVotes,      \* callRequestVote threads not yet scheduled
    newAppends,    \* sendAppendEntries threads not yet scheduled
    voting,        \* the requestVote call being handled between two locks
    net,           \* calls in progress
    elections,     \* counters for the bounds
    beats,
    started,       \* commands passed to start() so far
    restarts,
    lives,         \* the incarnation of a server; a call belongs to one
    elected,       \* history: <<term, leader>> pairs
    ballots,       \* history: <<term, voter, candidate>> of granted votes
    slips          \* history: "reread" once readRaftState has undone something,
                   \* "unchecked" once an empty log was sent entries beyond the first,
                   \* "forgotten" once appendEntries has taken a vote off the file,
                   \* "late" once an answer has raised m_commitIndex of a server that
                   \* no longer led

raftVars == <<state, curTerm, votedFor, logs, disk>>
leaderVars == <<nextIndex, matchIndex, commitIndex>>
threadVars == <<recvVotes, finishedVote, cur_peerId, electing, dead, ended,
                newVotes, newAppends, voting, net>>
historyVars == <<elections, beats, started, restarts, lives, elected, ballots,
                 slips>>
vars == <<raftVars, leaderVars, threadVars, historyVars>>

NoFile == [term |-> 0, voted |-> None, logs |-> <<>>, exists |-> FALSE]
NoVote == [pc |-> "idle", m |-> None, term |-> 0]

\* Make: a first start, with no file to read.
Init ==
    /\ state = [s \in Server |-> "FOLLOWER"]
    /\ curTerm = [s \in Server |-> 0]
    /\ votedFor = [s \in Server |-> None]
    /\ logs = [s \in Server |-> <<>>]
    /\ disk = [s \in Server |-> NoFile]
    /\ nextIndex = [s \in Server |-> [p \in Server |-> 1]]
    /\ matchIndex = [s \in Server |-> [p \in Server |-> 0]]
    /\ commitIndex = [s \in Server |-> 0]
    /\ recvVotes = [s \in Server |-> 0]
    /\ finishedVote = [s \in Server |-> 0]
    /\ cur_peerId = [s \in Server |-> 0]
    /\ electing = [s \in Server |-> FALSE]
    /\ dead = [s \in Server |-> FALSE]
    /\ ended = [s \in Server |-> FALSE]
    /\ newVotes = [s \in Server |-> 0]
    /\ newAppends = [s \in Server |-> 0]
    /\ voting = [s \in Server |-> NoVote]
    /\ net = EmptyBag
    /\ elections = 0
    /\ beats = 0
    /\ started = 0
    /\ restarts = 0
    /\ lives = [s \in Server |-> 0]
    /\ elected = {}
    /\ ballots = {}
    /\ slips = {}

LastTerm(log) == IF log = <<>> THEN 0 ELSE log[Len(log)].term
Min2(a, b) == IF a < b THEN a ELSE b

\* saveRaftState: the file is opened without O_TRUNC, so what was there beyond
\* the new text stays (the fields and entries are taken to be of equal width).
Saved(file, term, voted, log) ==
    [term |-> term, voted |-> voted, exists |-> TRUE,
     logs |-> log \o SubSeq(file.logs, Len(log) + 1, Len(file.logs))]

Save(s) ==
    disk' = [disk EXCEPT ![s] = Saved(disk[s], curTerm'[s], votedFor'[s], logs'[s])]

\* The peer an outgoing thread calls, and cur_peerId afterwards.
Callee(s) == IF cur_peerId[s] = s THEN cur_peerId[s] + 1 ELSE cur_peerId[s]
\* mutant: the wrap-around forgets that the last peer may be the server itself
NextPeerIdForgetsSelf(s) ==
    LET next == Callee(s) + 1 IN IF next = Peers THEN 0 ELSE next
\* mutant: the counter is not advanced
NextPeerIdStays(s) == cur_peerId[s]
\* mutant: no wrap-around
NextPeerIdNoWrap(s) == Callee(s) + 1
NextPeerId(s) ==
    LET next == Callee(s) + 1 IN
    IF next = Peers \/ (next = Peers - 1 /\ s = next) THEN 0 ELSE next

\* Calls of s, not yet completed; the calls of an earlier life have nobody
\* waiting for them.
Own(m) == m.life = lives[m.from]
Calls(s, kinds) == {m \in DOMAIN net : m.from = s /\ Own(m) /\ m.kind \in kinds}
VoteKinds == {"voteReq", "voteRsp"}
AppendKinds == {"appendReq", "appendRsp"}

\* Some server is between the two locks of requestVote, called by s.
Serving(s) ==
    \E p \in Server : voting[p].pc # "idle" /\ voting[p].m.from = s /\ Own(voting[p].m)

\* With Overlap = FALSE a timer of s fires only once every thread s started has
\* ended and no vote is half granted at s: round trips are then shorter than the
\* heartbeat period.
Quiet(s) ==
    \/ Overlap
    \/ /\ newVotes[s] = 0
       /\ newAppends[s] = 0
       /\ Calls(s, VoteKinds \cup AppendKinds) = {}
       /\ voting[s].pc = "idle"
       /\ ~Serving(s)

\* Unless LateThreads, the threads a server created have made their calls before
\* it hears of a new term.
Prompt(s, term) ==
    LateThreads \/ term <= curTerm[s] \/ (newVotes[s] = 0 /\ newAppends[s] = 0)

Send(m) == net' = BagAdd(net, m)
Receive(m) == net' = BagRemove(net, m)
Answer(m, r) == net' = BagAdd(BagRemove(net, m), r)
----------------------------------------------------------------------------
(* Elections *)

\* electionLoop: the timeout has passed without a heartbeat or a vote.  The loop
\* that waits for it does not look at "dead".
ElectionTimeout(s) ==
    /\ state[s] \in {"FOLLOWER", "CANDIDATE"}
    /\ ~electing[s] /\ ~ended[s]
    /\ Quiet(s)
    /\ elections < MaxElection
    /\ elections' = elections + 1
    /\ state' = [state EXCEPT ![s] = "CANDIDATE"]
    /\ curTerm' = [curTerm EXCEPT ![s] = @ + 1]
    /\ votedFor' = [votedFor EXCEPT ![s] = s]
    /\ UNCHANGED logs
    /\ Save(s)
    /\ recvVotes' = [recvVotes EXCEPT ![s] = 1]
    /\ finishedVote' = [finishedVote EXCEPT ![s] = 1]
    /\ cur_peerId' = [cur_peerId EXCEPT ![s] = 0]
    /\ newVotes' = [newVotes EXCEPT ![s] = @ + Peers - 1]
    /\ electing' = [electing EXCEPT ![s] = TRUE]
    /\ ballots' = ballots \cup {<<curTerm[s] + 1, s, s>>}
    /\ UNCHANGED <<leaderVars, newAppends, voting, net, beats, started, restarts,
                   lives, elected, slips, dead, ended>>

\* electionLoop gets the lock back from m_cond.wait with its condition true, and
\* after the election looks at "dead".  A server that is no candidate any more
\* first goes round the waiting loop again, and its timeout may have passed by then.
ElectionDecided(s) ==
    /\ electing[s]
    /\ recvVotes[s] > Majority \/ finishedVote[s] = Peers
    /\ electing' = [electing EXCEPT ![s] = FALSE]
    /\ \E looked \in IF state[s] = "CANDIDATE" THEN {TRUE} ELSE BOOLEAN :
          ended' = [ended EXCEPT ![s] = looked /\ dead[s]]
    /\ IF state[s] = "CANDIDATE" /\ recvVotes[s] > Majority
       THEN /\ state' = [state EXCEPT ![s] = "LEADER"]
            /\ nextIndex' = [nextIndex EXCEPT ![s] = [p \in Server |-> Len(logs[s]) + 1]]
            /\ matchIndex' = [matchIndex EXCEPT ![s] = [p \in Server |-> 0]]
            /\ elected' = elected \cup {<<curTerm[s], s>>}
       ELSE UNCHANGED <<state, nextIndex, matchIndex, elected>>
    /\ UNCHANGED <<curTerm, votedFor, logs, disk, commitIndex, recvVotes,
                   finishedVote, cur_peerId, newVotes, newAppends, voting, net,
                   elections, beats, started, restarts, lives, ballots, slips, dead>>

\* callRequestVote up to the call: the arguments are read when the thread runs.
CallRequestVote(s) ==
    /\ newVotes[s] > 0
    /\ newVotes' = [newVotes EXCEPT ![s] = @ - 1]
    /\ Send([kind |-> "voteReq", from |-> s, to |-> Callee(s), term |-> curTerm[s],
             life |-> lives[s], lastLogIndex |-> Len(logs[s]), lastLogTerm |-> LastTerm(logs[s])])
    /\ cur_peerId' = [cur_peerId EXCEPT ![s] = NextPeerId(s)]
    /\ UNCHANGED <<raftVars, leaderVars, recvVotes, finishedVote, electing,
                   newAppends, voting, historyVars, dead, ended>>

VoteRsp(m, term, granted) ==
    [kind |-> "voteRsp", from |-> m.from, to |-> m.to, term |-> term,
     life |-> m.life, granted |-> granted]

\* mutant: m_votedFor is not looked at
MayVoteAgain(voted, candidate) == TRUE
MayVote(voted, candidate) == voted \in {None, candidate}

\* requestVote up to the unlock before checkLogUptodate.
RequestVote(m) ==
    LET s == m.to
        newer == curTerm[s] < m.term
        voted == IF newer THEN None ELSE votedFor[s]
    IN
    /\ m.kind = "voteReq"
    /\ Prompt(s, m.term)
    /\ voting[s].pc = "idle"
    /\ IF curTerm[s] > m.term
       THEN /\ Answer(m, VoteRsp(m, curTerm[s], FALSE))
            /\ UNCHANGED <<raftVars, voting>>
       ELSE /\ state' = [state EXCEPT ![s] = IF newer THEN "FOLLOWER" ELSE @]
            /\ curTerm' = [curTerm EXCEPT ![s] = m.term]
            /\ votedFor' = [votedFor EXCEPT ![s] = voted]
            /\ UNCHANGED logs
            /\ IF MayVote(voted, m.from)
               THEN /\ voting' = [voting EXCEPT ![s] =
                                     [pc |-> "check", m |-> m, term |-> curTerm[s]]]
                    /\ Receive(m)
                    /\ UNCHANGED disk
               ELSE /\ Save(s)
                    /\ Answer(m, VoteRsp(m, curTerm[s], FALSE))
                    /\ UNCHANGED voting
    /\ UNCHANGED <<leaderVars, recvVotes, finishedVote, cur_peerId, electing,
                   newVotes, newAppends, historyVars, dead, ended>>

UpToDate(term, index, log) ==
    \/ log = <<>>
    \/ term > LastTerm(log)
    \/ term = LastTerm(log) /\ index >= Len(log)

\* checkLogUptodate takes and releases the lock by itself.
CheckLogUptodate(s) ==
    /\ voting[s].pc = "check"
    /\ LET m == voting[s].m IN
       IF UpToDate(m.lastLogTerm, m.lastLogIndex, logs[s])
       THEN /\ voting' = [voting EXCEPT ![s].pc = "grant"]
            /\ UNCHANGED net
       ELSE /\ voting' = [voting EXCEPT ![s] = NoVote]
            /\ Send(VoteRsp(m, voting[s].term, FALSE))
    /\ UNCHANGED <<raftVars, leaderVars, recvVotes, finishedVote, cur_peerId,
                   electing, newVotes, newAppends, historyVars, dead, ended>>

\* mutant: the vote is answered without being saved
SaveForgotten(s) == UNCHANGED disk
SaveVote(s) == Save(s)

\* The rest of requestVote: the vote is cast in the term the server has by now.
GrantVote(s) ==
    /\ voting[s].pc = "grant"
    /\ LET m == voting[s].m IN
       /\ votedFor' = [votedFor EXCEPT ![s] = m.from]
       /\ UNCHANGED <<state, curTerm, logs>>
       /\ SaveVote(s)
       /\ Send(VoteRsp(m, voting[s].term, TRUE))
       /\ ballots' = ballots \cup {<<m.term, s, m.from>>}
    /\ voting' = [voting EXCEPT ![s] = NoVote]
    /\ UNCHANGED <<leaderVars, recvVotes, finishedVote, cur_peerId, electing,
                   newVotes, newAppends, elections, beats, started, restarts,
                   lives, elected, slips, dead, ended>>

\* mutant: a refusal does not count as an answer
FinishedIfGranted(s, m) == IF m.granted THEN finishedVote[s] + 1 ELSE finishedVote[s]
FinishedAfter(s, m) == finishedVote[s] + 1

\* readRaftState on a running server appends what the file holds to its log, or
\* takes it back to an earlier term or vote.
Forgets(s) ==
    disk[s].logs # <<>> \/ disk[s].term # curTerm[s] \/ disk[s].voted # votedFor[s]

\* callRequestVote after the call.  readRaftState appends the saved log to
\* m_logs and brings back the saved term and vote.
VoteReply(m) ==
    LET s == m.from IN
    /\ m.kind = "voteRsp" /\ Own(m)
    /\ Prompt(s, m.term)
    /\ Receive(m)
    /\ finishedVote' = [finishedVote EXCEPT ![s] = FinishedAfter(s, m)]
    /\ IF m.term > curTerm[s]
       THEN /\ state' = [state EXCEPT ![s] = "FOLLOWER"]
            /\ curTerm' = [curTerm EXCEPT ![s] =
                               IF disk[s].exists THEN disk[s].term ELSE m.term]
            /\ votedFor' = [votedFor EXCEPT ![s] =
                               IF disk[s].exists THEN disk[s].voted ELSE None]
            /\ logs' = [logs EXCEPT ![s] = @ \o disk[s].logs]
            /\ slips' = IF Forgets(s) THEN slips \cup {"reread"} ELSE slips
            /\ UNCHANGED recvVotes
       ELSE /\ recvVotes' = [recvVotes EXCEPT ![s] = IF m.granted THEN @ + 1 ELSE @]
            /\ UNCHANGED <<state, curTerm, votedFor, logs, slips>>
    /\ UNCHANGED <<disk, leaderVars, cur_peerId, electing, newVotes, newAppends,
                   voting, elections, beats, started, restarts, lives, elected,
                   ballots, dead, ended>>
----------------------------------------------------------------------------
(* Log replication *)

\* processEntriesLoop: one sendAppendEntries thread per peer.
Heartbeat(s) ==
    /\ state[s] = "LEADER"
    /\ ~dead[s]
    /\ Quiet(s)
    /\ beats < MaxBeat
    /\ beats' = beats + 1
    /\ newAppends' = [newAppends EXCEPT ![s] = @ + Peers - 1]
    /\ UNCHANGED <<raftVars, leaderVars, recvVotes, finishedVote, cur_peerId,
                   electing, newVotes, voting, net, elections, started, restarts,
                   lives, elected, ballots, slips, dead, ended>>

\* m_prevLogTerm; an index outside m_logs reads any value.
PrevLogTerms(s, prev) ==
    IF prev = 0 THEN {IF logs[s] = <<>> THEN 0 ELSE logs[s][1].term}
    ELSE IF prev \in 1..Len(logs[s]) THEN {logs[s][prev].term}
    ELSE 0..MaxElection

\* sendAppendEntries up to the call.  It does not look at m_state.
SendAppendEntries(s) ==
    /\ newAppends[s] > 0
    /\ newAppends' = [newAppends EXCEPT ![s] = @ - 1]
    /\ LET prev == nextIndex[s][Callee(s)] - 1 IN
       \E prevTerm \in PrevLogTerms(s, prev) :
          Send([kind |-> "appendReq", from |-> s, to |-> Callee(s),
                term |-> curTerm[s], life |-> lives[s], leads |-> state[s] = "LEADER",
                prevLogIndex |-> prev, prevLogTerm |-> prevTerm,
                leaderCommit |-> commitIndex[s],
                sendLogs |-> IF prev < 0 THEN <<>>
                             ELSE SubSeq(logs[s], prev + 1, Len(logs[s]))])
    /\ cur_peerId' = [cur_peerId EXCEPT ![s] = NextPeerId(s)]
    /\ UNCHANGED <<raftVars, leaderVars, recvVotes, finishedVote, electing,
                   newVotes, voting, historyVars, dead, ended>>

AppendRsp(m, term, success, conflictTerm, conflictIndex) ==
    [kind |-> "appendRsp", from |-> m.from, to |-> m.to, term |-> term,
     life |-> m.life, success |-> success, conflict_term |-> conflictTerm,
     conflict_index |-> conflictIndex, prevLogIndex |-> m.prevLogIndex,
     sent |-> Len(m.sendLogs)]

NoEntry == -1

\* The follower's log does not reach prevLogIndex (a negative one is compared as
\* an unsigned number).
TooShort(log, m) ==
    log # <<>> /\ (m.prevLogIndex < 0 \/ Len(log) < m.prevLogIndex)
\* mutant: the term at prevLogIndex is not compared
MismatchNever(log, m) == FALSE
\* It has an entry of another term there.
Mismatch(log, m) ==
    /\ log # <<>> /\ ~TooShort(log, m) /\ m.prevLogIndex > 0
    /\ log[m.prevLogIndex].term # m.prevLogTerm

\* The log a successful appendEntries leaves: everything beyond prevLogIndex is
\* dropped, then the entries received are pushed.  An empty log takes them as
\* they come.
Synced(log, m) ==
    IF log = <<>> THEN m.sendLogs ELSE SubSeq(log, 1, m.prevLogIndex) \o m.sendLogs

CommitAfter(old, m, log) ==
    IF old < m.leaderCommit THEN Min2(m.leaderCommit, Len(log)) ELSE old

\* Where a search from the front for a term stops: one index, if the term is there.
FirstOfTerm(log, term) ==
    {i \in 1..Len(log) : log[i].term = term /\ \A j \in 1..(i - 1) : log[j].term # term}

\* What appendEntries does that Raft does not allow: an empty log takes entries that
\* do not start at its beginning, and a server that hears of a newer term and refuses
\* the entries is left with the old term and no vote on file.
AppendSlips(s, m) ==
    {slip \in {"unchecked", "forgotten"} :
        \/ /\ slip = "unchecked"
           /\ m.term >= curTerm[s] /\ logs[s] = <<>> /\ m.prevLogIndex # 0
        \/ /\ slip = "forgotten"
           /\ m.term > curTerm[s] /\ votedFor[s] # None
           /\ TooShort(logs[s], m) \/ Mismatch(logs[s], m)}

\* appendEntries, one critical section.
AppendEntries(m) ==
    LET s == m.to
        log == logs[s]
        prev == m.prevLogIndex
        newer == m.term > curTerm[s]
        \* a newer term is first saved as the old one with no vote
        file == IF newer THEN Saved(disk[s], curTerm[s], None, log) ELSE disk[s]
        Reply(success, ct, ci) == Answer(m, AppendRsp(m, curTerm[s], success, ct, ci))
    IN
    /\ m.kind = "appendReq"
    /\ Prompt(s, m.term)
    /\ IF m.term < curTerm[s]
       THEN /\ Reply(FALSE, NoEntry, NoEntry)
            /\ UNCHANGED <<raftVars, commitIndex>>
       ELSE /\ state' = [state EXCEPT ![s] = "FOLLOWER"]
            /\ curTerm' = [curTerm EXCEPT ![s] = m.term]
            /\ votedFor' = [votedFor EXCEPT ![s] = IF newer THEN None ELSE @]
            /\ IF TooShort(log, m) \/ Mismatch(log, m)
               THEN /\ UNCHANGED <<logs, commitIndex>>
                    /\ disk' = [disk EXCEPT ![s] = file]
                    /\ IF TooShort(log, m) THEN Reply(FALSE, NoEntry, Len(log))
                       ELSE \E first \in FirstOfTerm(log, log[prev].term) :
                                Reply(FALSE, log[prev].term, first)
               ELSE /\ logs' = [logs EXCEPT ![s] = Synced(log, m)]
                    /\ disk' = [disk EXCEPT ![s] =
                           Saved(file, m.term, votedFor'[s], Synced(log, m))]
                    /\ commitIndex' = [commitIndex EXCEPT ![s] =
                                           CommitAfter(@, m, Synced(log, m))]
                    /\ Reply(TRUE, NoEntry, NoEntry)
    /\ slips' = slips \cup AppendSlips(s, m)
    /\ UNCHANGED <<nextIndex, matchIndex, recvVotes, finishedVote, cur_peerId,
                   electing, newVotes, newAppends, voting, elections, beats,
                   started, restarts, lives, elected, ballots, dead, ended>>

\* sort(tmpIndex)[size / 2]
Median(match) ==
    CHOOSE n \in {match[p] : p \in Server} :
        /\ Cardinality({p \in Server : match[p] < n}) <= Majority
        /\ Cardinality({p \in Server : match[p] <= n}) > Majority

\* The commit index after a success; reading beyond m_logs decides either way.
CommitChoices(s, match) ==
    LET n == Median(match) IN
    IF n <= commitIndex[s] THEN {commitIndex[s]}
    ELSE IF n > Len(logs[s]) THEN {n, commitIndex[s]}
    ELSE IF logs[s][n].term = curTerm[s] THEN {n} ELSE {commitIndex[s]}

\* nextIndex after a failure.
BackUp(s, m) ==
    IF m.conflict_term = NoEntry THEN {m.conflict_index + 1}
    ELSE LET known == {i \in 1..Min2(m.prevLogIndex, Len(logs[s])) :
                          logs[s][i].term = m.conflict_term}
             unknown == (Len(logs[s]) + 1)..m.prevLogIndex
             last == {i \in known : \A j \in known : j <= i}
         IN  (IF known = {} THEN {m.conflict_index} ELSE {i + 1 : i \in last})
             \cup {i + 1 : i \in unknown}

\* mutant: one entry too many
NextAfterSuccessOffByOne(s, m) == nextIndex[s][m.to] + m.sent + 1
NextAfterSuccess(s, m) == nextIndex[s][m.to] + m.sent

\* mutant: the next index taken for the last one
MatchIsNext(next) == next
MatchAfterSuccess(next) == next - 1

\* sendAppendEntries after the call.  It does not look whether the server still leads,
\* or still is in the term of the call.
AppendReply(m) ==
    LET s == m.from
        p == m.to
    IN
    /\ m.kind = "appendRsp" /\ Own(m)
    /\ Prompt(s, m.term)
    /\ Receive(m)
    /\ IF m.term > curTerm[s]
       THEN /\ state' = [state EXCEPT ![s] = "FOLLOWER"]
            /\ curTerm' = [curTerm EXCEPT ![s] = m.term]
            /\ votedFor' = [votedFor EXCEPT ![s] = None]
            /\ UNCHANGED <<logs, leaderVars>>
       ELSE /\ UNCHANGED <<state, curTerm, votedFor, logs>>
            /\ IF m.success
               THEN LET next == NextAfterSuccess(s, m)
                        match == [matchIndex[s] EXCEPT ![p] = MatchAfterSuccess(next)]
                    IN  /\ nextIndex' = [nextIndex EXCEPT ![s][p] = next]
                        /\ matchIndex' = [matchIndex EXCEPT ![s] = match]
                        /\ \E c \in CommitChoices(s, match) :
                              commitIndex' = [commitIndex EXCEPT ![s] = c]
               ELSE /\ \E next \in BackUp(s, m) :
                          nextIndex' = [nextIndex EXCEPT ![s][p] = next]
                    /\ UNCHANGED <<matchIndex, commitIndex>>
    /\ Save(s)
    /\ slips' = slips \cup {slip \in {"late"} :
                              state[s] # "LEADER" /\ commitIndex'[s] # commitIndex[s]}
    /\ UNCHANGED <<recvVotes, finishedVote, cur_peerId, electing, newVotes,
                   newAppends, voting, elections, beats, started, restarts, lives,
                   elected, ballots, dead, ended>>

\* start: the command is appended and not saved.
Start(s) ==
    /\ state[s] = "LEADER"
    /\ started < MaxStart
    /\ started' = started + 1
    /\ logs' = [logs EXCEPT ![s] = Append(@, [term |-> curTerm[s], cmd |-> started + 1])]
    /\ UNCHANGED <<state, curTerm, votedFor, disk, leaderVars, threadVars,
                   elections, beats, restarts, lives, elected, ballots, slips>>

\* kill: the RPC servers of s go on, its loops stop when they next look.
Kill(s) ==
    /\ Cardinality({p \in Server : dead[p]}) < MaxKill
    /\ ~dead[s]
    /\ dead' = [dead EXCEPT ![s] = TRUE]
    /\ UNCHANGED <<raftVars, leaderVars, recvVotes, finishedVote, cur_peerId,
                   electing, ended, newVotes, newAppends, voting, net, historyVars>>

\* The process of s dies and Make runs again: its threads and the call it was
\* serving are gone, and readRaftState restores what the file holds.  Calls it
\* had made may still be served but nobody awaits the answer.
Restart(s) ==
    /\ restarts < MaxRestart
    /\ restarts' = restarts + 1
    /\ lives' = [lives EXCEPT ![s] = restarts + 1]
    /\ state' = [state EXCEPT ![s] = "FOLLOWER"]
    /\ curTerm' = [curTerm EXCEPT ![s] = disk[s].term]
    /\ votedFor' = [votedFor EXCEPT ![s] = disk[s].voted]
    /\ logs' = [logs EXCEPT ![s] = disk[s].logs]
    /\ nextIndex' = [nextIndex EXCEPT ![s] = [p \in Server |-> 1]]
    /\ matchIndex' = [matchIndex EXCEPT ![s] = [p \in Server |-> 0]]
    /\ commitIndex' = [commitIndex EXCEPT ![s] = 0]
    /\ recvVotes' = [recvVotes EXCEPT ![s] = 0]
    /\ finishedVote' = [finishedVote EXCEPT ![s] = 0]
    /\ cur_peerId' = [cur_peerId EXCEPT ![s] = 0]
    /\ electing' = [electing EXCEPT ![s] = FALSE]
    /\ dead' = [dead EXCEPT ![s] = FALSE]
    /\ ended' = [ended EXCEPT ![s] = FALSE]
    /\ newVotes' = [newVotes EXCEPT ![s] = 0]
    /\ newAppends' = [newAppends EXCEPT ![s] = 0]
    /\ voting' = [voting EXCEPT ![s] = NoVote]
    /\ UNCHANGED <<disk, net, elections, beats, started, elected, ballots, slips>>
----------------------------------------------------------------------------
\* What a thread that is running or being answered does next; the rest is up to
\* timers, clients and failures.
ThreadStep ==
    \/ \E s \in Server : \/ CallRequestVote(s) \/ SendAppendEntries(s)
                         \/ CheckLogUptodate(s) \/ GrantVote(s)
    \/ \E m \in DOMAIN net :
          RequestVote(m) \/ VoteReply(m) \/ AppendEntries(m) \/ AppendReply(m)

Next ==
    \/ ThreadStep
    \/ \E s \in Server :
          \/ ElectionTimeout(s) \/ ElectionDecided(s) \/ Heartbeat(s)
          \/ Start(s) \/ Kill(s) \/ Restart(s)

Spec == Init /\ [][Next]_vars
----------------------------------------------------------------------------
(* Properties *)

Entries == [term : Nat, cmd : 1..MaxStart]

\* The type invariant: the fields of every server, and the calls in progress.
TypeOK ==
    /\ state \in [Server -> {"LEADER", "CANDIDATE", "FOLLOWER"}]
    /\ curTerm \in [Server -> Nat]
    /\ votedFor \in [Server -> Server \cup {None}]
    /\ \A s \in Server : logs[s] \in Seq(Entries) /\ disk[s].logs \in Seq(Entries)
    /\ nextIndex \in [Server -> [Server -> Int]]
    /\ matchIndex \in [Server -> [Server -> Int]]
    /\ commitIndex \in [Server -> Nat]
    /\ recvVotes \in [Server -> Nat]
    /\ finishedVote \in [Server -> Nat]
    /\ cur_peerId \in [Server -> Server]
    /\ electing \in [Server -> BOOLEAN]
    /\ IsABag(net)
    /\ \A m \in DOMAIN net : m.from \in Server /\ m.to \in Server

\* No server is back in a term it has left, and none has lost a vote: callRequestVote
\* has not called readRaftState to such an effect (raft.cpp:394), and no server has
\* restarted since appendEntries left an old term without its vote on a file
\* (raft.cpp:630, 665, 680).  Nothing is claimed of votes and leaders otherwise.
VotesKept == "reread" \notin slips /\ ("forgotten" \in slips => restarts = 0)

\* LAB2A.md:245: there is at most one leader in a term.  What protects it is
\* spread over requestVote, callRequestVote and electionLoop.
ElectionSafety ==
    VotesKept => \A e, f \in elected : e[1] = f[1] => e = f

\* LAB2A.md:251: a server casts one vote in a term, its vote for itself included,
\* through every restart that finds the vote on file.
OneVotePerTerm ==
    VotesKept => \A b, c \in ballots : b[1] = c[1] /\ b[2] = c[2] => b = c

\* electionLoop is never left waiting on m_cond with nobody to signal it: once
\* all its callRequestVote threads have ended, the condition it waits for
\* (a majority, or finishedVote == the number of peers) is true.  (A server that
\* dies while it serves a call never answers it, so this is about no restarts.)
ElectionCanEnd ==
    \A s \in Server :
        /\ electing[s]
        /\ restarts = 0
        /\ newVotes[s] = 0
        /\ Calls(s, VoteKinds) = {}
        /\ ~Serving(s)
        => recvVotes[s] > Majority \/ finishedVote[s] = Peers

\* The counter cur_peerId, shared by the vote and the append threads of a
\* server, never points outside m_peers or at the server itself, whatever the
\* order in which the threads advance it.
CalleeIsAPeer == \A s \in Server : Callee(s) \in Server \ {s}

\* No two threads of one round of calls of a server call the same peer, though
\* each of them takes its peer from a counter that others advance and reset.
CalleesDistinct ==
    \A s \in Server :
        /\ \A m, n \in Calls(s, VoteKinds) : m.to = n.to => m = n
        /\ \A m, n \in Calls(s, AppendKinds) : m.to = n.to => m = n
        /\ \A m \in Calls(s, VoteKinds \cup AppendKinds) : net[m] = 1

\* raft.cpp:167: m_nextIndex is the index of the next entry to send, so a
\* leader's m_logs[prevLogIndex - 1] (raft.cpp:553) is inside its log.
NextIndexInRange ==
    \A s \in Server : state[s] = "LEADER" =>
        \A p \in Server \ {s} : nextIndex[s][p] \in 1..(Len(logs[s]) + 1)

\* What the two kinds of agreement below are about.
LogsMatch ==
    \A s, p \in Server : \A i \in 1..Min2(Len(logs[s]), Len(logs[p])) :
        logs[s][i].term = logs[p][i].term =>
            SubSeq(logs[s], 1, i) = SubSeq(logs[p], 1, i)

CommitsMatch ==
    \A s, p \in Server :
        \A i \in 1..Min2(Min2(commitIndex[s], commitIndex[p]),
                         Min2(Len(logs[s]), Len(logs[p]))) :
            logs[s][i] = logs[p][i]

\* The logs have taken nothing but what Raft lets them take: besides, no empty log
\* took entries that do not start at its beginning (raft.cpp:643, see LogsAgree).
LogsChecked == VotesKept /\ "unchecked" \notin slips

\* Two logs that hold an entry of the same term at the same index agree up to
\* it: the consistency check of appendEntries (raft.cpp:662-691).  As long as
\* readRaftState has not doubled a log, and none of the other slips has an effect.
LogMatching == LogsChecked => LogsMatch

\* Besides, no answer that came when its server led no more has raised m_commitIndex
\* (raft.cpp:573-583, see CommittedIsHeld).
AnswersTimely == LogsChecked /\ "late" \notin slips

\* Servers agree on the entries both consider committed, as long as no slip has an
\* effect: the vote of checkLogUptodate, the check of appendEntries and the median of
\* sendAppendEntries together.
StateMachineSafety == AnswersTimely => CommitsMatch

\* An entry once committed at a server stays in its log: appendEntries never cuts
\* the log below m_commitIndex, as long as no slip has an effect.
CommitInLog == AnswersTimely => \A s \in Server : commitIndex[s] <= Len(logs[s])

\* The indices a server keeps stay in the logs they point into, its own and those
\* of its peers, whatever answers come late (raft.cpp:553, 575, 602).
IndicesInLog == TypeOK /\ NextIndexInRange /\ CommitInLog

\* LAB2B.md:137: prevLogIndex and prevLogTerm satisfy the constraint of the paper,
\* which is what makes the logs match; no exception for a log that was empty.
LogsAgree == VotesKept => LogsMatch

\* LAB2B.md:6: the followers reach agreement within a few heartbeats and only what
\* they agree on is applied; no exception for a log that was empty.
CommittedAgree == VotesKept => CommitsMatch

\* raft.cpp:581: an entry is committed once more than half of the servers hold it; no
\* exception for an answer that comes when the server leads no more.
CommittedIsHeld ==
    LogsChecked => \A s \in Server : \A i \in 1..Min2(commitIndex[s], Len(logs[s])) :
        Cardinality({p \in Server : i <= Len(logs[p]) /\ logs[p][i] = logs[s][i]}) > Majority

\* raft.cpp:524: log replication and heartbeats are started by the leader, so
\* sendAppendEntries is called by the leader.
AppendsComeFromLeader ==
    \A m \in DOMAIN net : m.kind = "appendReq" => m.leads

\* raft.cpp:885: after kill() the election and heartbeat threads are down.
KilledStopsElecting == [][\A s \in Server : dead[s] => ~ElectionTimeout(s)]_vars

\* raft.cpp:823 and 830: readRaftState is only called at initialisation, when
\* m_logs is empty.
ReadRaftStateAtInit ==
    [][\A m \in DOMAIN net :
          VoteReply(m) /\ m.term > curTerm[m.from] => logs[m.from] = <<>>]_vars

\* raft.cpp:581: once more than half of the servers hold an entry of the
\* leader's term, it can be committed.
CommitOnMajority ==
    \A s \in Server : state[s] = "LEADER" =>
        \A n \in (commitIndex[s] + 1)..Len(logs[s]) :
            logs[s][n].term = curTerm[s] =>
                Cardinality({s} \cup {p \in Server : matchIndex[s][p] >= n}) <= Majority
=============================================================================
