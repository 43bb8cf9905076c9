-------------------------- MODULE RaftCommitProofs --------------------------
(***************************************************************************)
(* Proofs about the indices of Raft, and about what is committed.          *)
(*                                                                         *)
(* A leader's next index for every peer stays in its log or just beyond:   *)
(* an answer it counts is to the one call it made to the peer in its term. *)
(*                                                                         *)
(* Servers agree on what both consider committed.  The argument keeps the  *)
(* logs there have been (History), what appendEntries has acknowledged     *)
(* and the log each leader was elected with.  A log that more than half of *)
(* the servers have acknowledged in its last term is committed; one that   *)
(* more than half are past without having acknowledged it is lost, and a   *)
(* log is never both.  What a server acknowledges stays in its log, and    *)
(* gets into the log of every later leader, unless it is lost: that server *)
(* would not have voted for a leader without it, nor have taken entries    *)
(* that overwrite it.  So of two committed logs one begins the other, and  *)
(* m_commitIndex only ever counts the beginning of one.                    *)
(***************************************************************************)
EXTENDS RaftProofs

-----------------------------------------------------------------------------
(* The types of what an election is not about.                             *)

\* Of the logs in memory and on file, the indices, and the calls that carry entries.
DataInv ==
    /\ LogTypes /\ \A s \in Server : disk[s].logs \in Seq(Entries)
    /\ matchIndex \in [Server -> [Server -> Int]] /\ commitIndex \in [Server -> Nat]
    /\ \A m \in DOMAIN net : m.kind = "appendReq" => m.leaderCommit \in Nat

\* What is saved over a file is a log again: the new entries, and the end of the old.
LEMMA SavedLogs ==
    ASSUME NEW file, file.logs \in Seq(Entries), NEW log \in Seq(Entries), NEW t, NEW v
    PROVE  Saved(file, t, v, log).logs \in Seq(Entries)
<1>1. PICK old : old = file.logs
  OBVIOUS
<1>2. Len(log) \in Nat /\ old \in Seq(Entries)
  BY <1>1
<1>3. SubSeq(old, Len(log) + 1, Len(old)) \in Seq(Entries)
  BY <1>2, Ending
<1>4. Saved(file, t, v, log).logs = log \o SubSeq(old, Len(log) + 1, Len(old))
  BY <1>1 DEF Saved
<1> QED BY <1>3, <1>4, ConcatProperties

\* A log that takes entries is a log.
LEMMA SyncedLog ==
    ASSUME NEW log \in Seq(Entries), NEW m, RequestOK(m), ~TooShort(log, m)
    PROVE  Synced(log, m) \in Seq(Entries)
<1>1. m.sendLogs \in Seq(Entries) /\ m.prevLogIndex \in Int /\ Len(log) \in Nat
  BY DEF RequestOK
<1>2. CASE log = <<>>
  BY <1>1, <1>2 DEF Synced
<1>3. CASE log # <<>>
  <2>1. m.prevLogIndex \in 0..Len(log)
    BY <1>1, <1>3 DEF TooShort
  <2>2. SubSeq(log, 1, m.prevLogIndex) \in Seq(Entries)
    BY <2>1, Beginning
  <2> QED BY <1>1, <1>3, <2>2, ConcatProperties DEF Synced
<1> QED BY <1>2, <1>3

\* How the file of a server changes: what it holds is saved, in appendEntries twice.
FileKept == \A p \in Server : disk'[p] = disk[p]
FileSavedOnce(s) == \E t, v : disk' = [disk EXCEPT ![s] = Saved(disk[s], t, v, logs'[s])]
FileSavedTwice(s) ==
    \E t, v, w, x : disk' = [disk EXCEPT ![s] = Saved(Saved(disk[s], t, v, logs[s]), w, x, logs'[s])]

\* appendEntries is the one that may save twice.
LEMMA AppendFile ==
    ASSUME FieldsInv, LogTypes, NetInv, NEW m \in DOMAIN net, AppendEntries(m)
    PROVE  FileKept \/ FileSavedOnce(m.to) \/ FileSavedTwice(m.to)
<1>1. m.to \in Server /\ DOMAIN logs = Server /\ DOMAIN disk = Server
  BY DEF NetInv, MessageOK, LogTypes, FieldsInv
<1>2. CASE m.term < curTerm[m.to]
  BY <1>2 DEF AppendEntries, raftVars, FileKept
<1>3. CASE ~(m.term < curTerm[m.to]) /\ (TooShort(logs[m.to], m) \/ Mismatch(logs[m.to], m))
  <2>1. /\ UNCHANGED logs
        /\ disk' = [disk EXCEPT ![m.to] = IF m.term > curTerm[m.to]
                                          THEN Saved(disk[m.to], curTerm[m.to], None, logs[m.to])
                                          ELSE disk[m.to]]
    BY <1>3 DEF AppendEntries
  <2>2. CASE m.term > curTerm[m.to]
    BY <2>1, <2>2 DEF FileSavedOnce
  <2>3. CASE ~(m.term > curTerm[m.to])
    BY <1>1, <2>1, <2>3 DEF FileKept
  <2> QED BY <2>2, <2>3
<1>4. CASE ~(m.term < curTerm[m.to]) /\ ~(TooShort(logs[m.to], m) \/ Mismatch(logs[m.to], m))
  <2>1. /\ logs' = [logs EXCEPT ![m.to] = Synced(logs[m.to], m)]
        /\ disk' = [disk EXCEPT ![m.to] =
               Saved(IF m.term > curTerm[m.to] THEN Saved(disk[m.to], curTerm[m.to], None, logs[m.to])
                     ELSE disk[m.to], m.term, votedFor'[m.to], Synced(logs[m.to], m))]
    BY <1>4 DEF AppendEntries
  <2>2. logs'[m.to] = Synced(logs[m.to], m)
    BY <1>1, <2>1
  <2>3. CASE m.term > curTerm[m.to]
    <3>1. disk' = [disk EXCEPT ![m.to] = Saved(Saved(disk[m.to], curTerm[m.to], None, logs[m.to]),
                                               m.term, votedFor'[m.to], logs'[m.to])]
      BY <2>1, <2>2, <2>3
    <3> QED BY <3>1 DEF FileSavedTwice
  <2>4. CASE ~(m.term > curTerm[m.to])
    <3>1. disk' = [disk EXCEPT ![m.to] = Saved(disk[m.to], m.term, votedFor'[m.to], logs'[m.to])]
      BY <2>1, <2>2, <2>4
    <3> QED BY <3>1 DEF FileSavedOnce
  <2> QED BY <2>3, <2>4
<1> QED BY <1>2, <1>3, <1>4

\* The others save once or not at all.
LEMMA FileStep ==
    ASSUME FieldsInv, LogTypes, NetInv, [Next]_vars
    PROVE  FileKept \/ \E s \in Server : FileSavedOnce(s) \/ FileSavedTwice(s)
<1>1. ASSUME NEW s \in Server,
             \/ CallRequestVote(s) \/ SendAppendEntries(s) \/ CheckLogUptodate(s)
             \/ ElectionDecided(s) \/ Heartbeat(s) \/ Start(s) \/ Kill(s) \/ Restart(s)
      PROVE  FileKept
  BY <1>1 DEF CallRequestVote, SendAppendEntries, CheckLogUptodate, ElectionDecided, Heartbeat, Start, Kill,
     Restart, raftVars, FileKept
<1>2. ASSUME NEW s \in Server, ElectionTimeout(s) \/ GrantVote(s) PROVE FileSavedOnce(s)
  <2>1. Save(s)
    BY <1>2 DEF ElectionTimeout, GrantVote, SaveVote
  <2> QED BY <2>1 DEF Save, FileSavedOnce
<1>3. ASSUME NEW m \in DOMAIN net, RequestVote(m) PROVE FileKept \/ FileSavedOnce(m.to)
  <2>1. UNCHANGED disk \/ Save(m.to)
    BY <1>3 DEF RequestVote, raftVars
  <2> QED BY <2>1 DEF Save, FileSavedOnce, FileKept
<1>4. ASSUME NEW m \in DOMAIN net, VoteReply(m) \/ AppendReply(m) PROVE FileKept \/ FileSavedOnce(m.from)
  <2>1. UNCHANGED disk \/ Save(m.from)
    <3>1. CASE VoteReply(m)
      BY <3>1 DEF VoteReply
    <3>2. CASE AppendReply(m)
      BY <3>2 DEF AppendReply
    <3> QED BY <1>4, <3>1, <3>2
  <2> QED BY <2>1 DEF Save, FileSavedOnce, FileKept
<1>5. ASSUME UNCHANGED vars PROVE FileKept
  BY <1>5 DEF vars, raftVars, FileKept
<1>6. \A m \in DOMAIN net : m.to \in Server /\ m.from \in Server
  BY DEF NetInv, MessageOK
<1> QED BY <1>1, <1>2, <1>3, <1>4, <1>5, <1>6, AppendFile DEF Next, ThreadStep

\* So the files hold logs.
LEMMA FilesTyped ==
    ASSUME FieldsInv, NetInv, DataInv, logs' \in [Server -> Seq(Entries)], [Next]_vars
    PROVE  \A p \in Server : disk'[p].logs \in Seq(Entries)
<1>1. LogTypes /\ DOMAIN disk = Server /\ logs \in [Server -> Seq(Entries)]
      /\ \A p \in Server : disk[p].logs \in Seq(Entries)
  BY DEF DataInv, FieldsInv, LogTypes
<1>2. ASSUME NEW s \in Server, NEW file, file.logs \in Seq(Entries), disk' = [disk EXCEPT ![s] = file]
      PROVE  \A p \in Server : disk'[p].logs \in Seq(Entries)
  BY <1>1, <1>2
<1>3. ASSUME NEW s \in Server, FileSavedOnce(s) PROVE \A p \in Server : disk'[p].logs \in Seq(Entries)
  <2>1. PICK t, v : disk' = [disk EXCEPT ![s] = Saved(disk[s], t, v, logs'[s])]
    BY <1>3 DEF FileSavedOnce
  <2>2. disk[s].logs \in Seq(Entries) /\ logs'[s] \in Seq(Entries)
    BY <1>1
  <2>3. Saved(disk[s], t, v, logs'[s]).logs \in Seq(Entries)
    BY <2>2, SavedLogs
  <2> QED BY <1>2, <2>1, <2>3
<1>4. ASSUME NEW s \in Server, FileSavedTwice(s) PROVE \A p \in Server : disk'[p].logs \in Seq(Entries)
  <2>1. PICK t, v, w, x :
            disk' = [disk EXCEPT ![s] = Saved(Saved(disk[s], t, v, logs[s]), w, x, logs'[s])]
    BY <1>4 DEF FileSavedTwice
  <2>2. disk[s].logs \in Seq(Entries) /\ logs[s] \in Seq(Entries) /\ logs'[s] \in Seq(Entries)
    BY <1>1
  <2>3. Saved(disk[s], t, v, logs[s]).logs \in Seq(Entries)
    BY <2>2, SavedLogs
  <2>4. Saved(Saved(disk[s], t, v, logs[s]), w, x, logs'[s]).logs \in Seq(Entries)
    BY <2>2, <2>3, SavedLogs
  <2> QED BY <1>2, <2>1, <2>4
<1> QED BY <1>1, <1>3, <1>4, FileStep DEF FileKept

\* Logs stay logs, through a restart and readRaftState as well.
LEMMA LogsTyped ==
    ASSUME FieldsInv, NetInv, DataInv, [Next]_vars
    PROVE  logs' \in [Server -> Seq(Entries)]
<1>0. LogTypes /\ logs \in [Server -> Seq(Entries)] /\ \A p \in Server : disk[p].logs \in Seq(Entries)
  BY DEF DataInv, LogTypes
<1>1. ASSUME NEW s \in Server,
             \/ CallRequestVote(s) \/ SendAppendEntries(s) \/ CheckLogUptodate(s) \/ GrantVote(s)
             \/ ElectionTimeout(s) \/ ElectionDecided(s) \/ Heartbeat(s) \/ Kill(s)
      PROVE  UNCHANGED logs
  BY <1>1 DEF CallRequestVote, SendAppendEntries, CheckLogUptodate, GrantVote, ElectionTimeout,
     ElectionDecided, Heartbeat, Kill, raftVars
<1>2. ASSUME NEW s \in Server, Start(s) PROVE logs' \in [Server -> Seq(Entries)]
  <2>1. PICK e \in Entries : logs' = [logs EXCEPT ![s] = Append(logs[s], e)]
    BY <1>0, <1>2, LogStarted
  <2>2. Append(logs[s], e) \in Seq(Entries)
    BY <1>0, AppendProperties
  <2> QED BY <1>0, <2>1, <2>2, Updated
<1>3. ASSUME NEW s \in Server, Restart(s) PROVE logs' \in [Server -> Seq(Entries)]
  <2>1. logs' = [logs EXCEPT ![s] = disk[s].logs]
    BY <1>3 DEF Restart
  <2> QED BY <1>0, <2>1, Updated
<1>4. ASSUME NEW m \in DOMAIN net, VoteReply(m) PROVE logs' \in [Server -> Seq(Entries)]
  <2>1. m.from \in Server
    BY <1>4 DEF NetInv, MessageOK
  <2>2. UNCHANGED logs \/ logs' = [logs EXCEPT ![m.from] = logs[m.from] \o disk[m.from].logs]
    BY <1>4 DEF VoteReply
  <2>3. logs[m.from] \o disk[m.from].logs \in Seq(Entries)
    <3>1. logs[m.from] \in Seq(Entries) /\ disk[m.from].logs \in Seq(Entries)
      BY <1>0, <2>1
    <3> QED BY <3>1, ConcatProperties
  <2> QED BY <1>0, <2>2, <2>3, Updated
<1>5. ASSUME NEW m \in DOMAIN net, RequestVote(m) \/ AppendReply(m) PROVE UNCHANGED logs
  <2>1. CASE RequestVote(m)
    BY <2>1 DEF RequestVote, raftVars
  <2>2. CASE AppendReply(m)
    BY <2>2 DEF AppendReply
  <2> QED BY <1>5, <2>1, <2>2
<1>6. ASSUME NEW m \in DOMAIN net, AppendEntries(m) PROVE logs' \in [Server -> Seq(Entries)]
  <2>1. m.to \in Server /\ m.kind = "appendReq"
    BY <1>6 DEF NetInv, MessageOK, AppendEntries
  <2>2. RequestOK(m) /\ logs[m.to] \in Seq(Entries)
    BY <1>0, <2>1 DEF LogTypes
  <2>3. \/ UNCHANGED logs
        \/ ~TooShort(logs[m.to], m) /\ logs' = [logs EXCEPT ![m.to] = Synced(logs[m.to], m)]
    <3>1. CASE m.term < curTerm[m.to]
      BY <1>6, <3>1 DEF AppendEntries, raftVars
    <3>2. CASE ~(m.term < curTerm[m.to])
      BY <1>6, <3>2 DEF AppendEntries
    <3> QED BY <3>1, <3>2
  <2>4. CASE ~TooShort(logs[m.to], m) /\ logs' = [logs EXCEPT ![m.to] = Synced(logs[m.to], m)]
    <3>1. Synced(logs[m.to], m) \in Seq(Entries)
      BY <2>2, <2>4, SyncedLog
    <3> QED BY <1>0, <2>4, <3>1, Updated
  <2> QED BY <1>0, <2>3, <2>4
<1>7. ASSUME UNCHANGED vars PROVE UNCHANGED logs
  BY <1>7 DEF vars, raftVars
<1> QED BY <1>0, <1>1, <1>2, <1>3, <1>4, <1>5, <1>6, <1>7 DEF Next, ThreadStep

\* By its own name: BagsExt hides what the library says of finite subsets otherwise.
Sets == INSTANCE FiniteSetTheorems

\* Of the indices of finitely many servers one is the least and one the greatest.
LEMMA LeastAndGreatest ==
    ASSUME NEW f \in [Server -> Int], NEW S, S \subseteq {f[p] : p \in Server}, S # {}
    PROVE  (\E x \in S : \A y \in S : x <= y) /\ (\E x \in S : \A y \in S : y <= x)
<1> DEFINE Upto(x) == {p \in Server : f[p] <= x}
           From(x) == {p \in Server : f[p] >= x}
           U == {Upto(x) : x \in S}
           F == {From(x) : x \in S}
<1>1. \A x : Upto(x) \in Sets!FiniteSubsetsOf(Server) /\ From(x) \in Sets!FiniteSubsetsOf(Server)
  <2> SUFFICES ASSUME NEW x PROVE Upto(x) \in Sets!FiniteSubsetsOf(Server) /\ From(x) \in Sets!FiniteSubsetsOf(Server)
    OBVIOUS
  <2>1. Upto(x) \subseteq Server /\ From(x) \subseteq Server
    OBVIOUS
  <2>2. Sets!IsFiniteSet(Server)
    BY PeersAssumption, Sets!FS_Interval DEF Server
  <2>3. Sets!IsFiniteSet(Upto(x)) /\ Sets!IsFiniteSet(From(x))
    <3> HIDE DEF Upto, From
    <3> QED BY <2>1, <2>2, Sets!FS_Subset
  <2> QED BY <2>1, <2>3 DEF Sets!FiniteSubsetsOf
<1>2. U \subseteq Sets!FiniteSubsetsOf(Server) /\ F \subseteq Sets!FiniteSubsetsOf(Server) /\ U # {} /\ F # {}
  <2> HIDE DEF Upto, From
  <2> QED BY <1>1
<1>3. ASSUME NEW C, C \subseteq Sets!FiniteSubsetsOf(Server), C # {}
      PROVE  \E c \in C : \A d \in C : ~(d \subseteq c /\ c # d)
  <2>1. PICK c \in C : \A d \in C : ~(<<d, c>> \in Sets!StrictSubsetOrdering(Server))
    BY <1>3, Sets!FS_StrictSubsetOrderingWellFounded, Sets!WFMin
  <2>2. \A d \in C : d \in SUBSET Server
    BY <1>3 DEF Sets!FiniteSubsetsOf
  <2> QED BY <2>1, <2>2 DEF Sets!StrictSubsetOrdering
<1>4. ASSUME NEW x \in S, NEW y \in S, ~(x <= y) PROVE Upto(y) \subseteq Upto(x) /\ Upto(y) # Upto(x)
  <2>1. PICK p \in Server : f[p] = x
    OBVIOUS
  <2>2. x \in Int /\ y \in Int
    OBVIOUS
  <2> QED BY <1>4, <2>1, <2>2
<1>5. ASSUME NEW x \in S, NEW y \in S, ~(y <= x) PROVE From(y) \subseteq From(x) /\ From(y) # From(x)
  <2>1. PICK p \in Server : f[p] = x
    OBVIOUS
  <2>2. x \in Int /\ y \in Int
    OBVIOUS
  <2> QED BY <1>5, <2>1, <2>2
<1> HIDE DEF Upto, From
<1>6. PICK x \in S : \A y \in S : ~(Upto(y) \subseteq Upto(x) /\ Upto(x) # Upto(y))
  <2>1. PICK c \in U : \A d \in U : ~(d \subseteq c /\ c # d)
    <3> HIDE DEF U
    <3> QED BY <1>2, <1>3
  <2> QED BY <2>1
<1>7. PICK z \in S : \A y \in S : ~(From(y) \subseteq From(z) /\ From(z) # From(y))
  <2>1. PICK c \in F : \A d \in F : ~(d \subseteq c /\ c # d)
    <3> HIDE DEF F
    <3> QED BY <1>2, <1>3
  <2> QED BY <2>1
<1> QED BY <1>4, <1>5, <1>6, <1>7

\* There is a median: more than half of the servers are at it or below, and at most
\* half below.
LEMMA MedianFound ==
    ASSUME NEW match \in [Server -> Int]
    PROVE  /\ Median(match) \in {match[p] : p \in Server}
           /\ Cardinality({p \in Server : match[p] < Median(match)}) <= Majority
<1> DEFINE V == {match[p] : p \in Server}
           Upto(n) == {p \in Server : match[p] <= n}
           Below(n) == {p \in Server : match[p] < n}
           G == {n \in V : Cardinality(Upto(n)) > Majority}
<1>1. Peers \in Nat /\ Majority \in Nat /\ Peers > Majority /\ V # {} /\ V \subseteq Int
  <2>1. Peers \in Nat /\ Peers > 2 /\ 0 \in Server
    BY ServersFinite DEF Server
  <2> QED BY <2>1 DEF Majority
<1>2. PICK top \in V : \A y \in V : y <= top
  <2>1. V \subseteq {match[p] : p \in Server}
    OBVIOUS
  <2> HIDE DEF V
  <2> QED BY <1>1, <2>1, LeastAndGreatest
<1>3. top \in G
  <2>1. Upto(top) = Server
    BY <1>2
  <2> QED BY <1>1, <2>1, ServersFinite
<1>4. PICK n \in G : \A m \in G : n <= m
  <2>1. G \subseteq {match[p] : p \in Server} /\ G # {}
    BY <1>3
  <2> HIDE DEF G
  <2> QED BY <2>1, LeastAndGreatest
<1>5. Cardinality(Below(n)) <= Majority
  <2> SUFFICES ASSUME ~(Cardinality(Below(n)) <= Majority) PROVE FALSE
    OBVIOUS
  <2> DEFINE B == Below(n)
             W == {match[p] : p \in B}
  <2>1. IsFiniteSet(B) /\ Cardinality(B) \in Nat
    BY ServersFinite, FS_Subset, FS_CardinalityType
  <2>2. B # {}
    <3> HIDE DEF B
    <3>1. ASSUME B = {} PROVE Cardinality(B) = 0
      BY <3>1, FS_EmptySet
    <3>2. ~(Cardinality(B) <= Majority)
      BY DEF B
    <3> QED BY <1>1, <3>1, <3>2
  <2>3. PICK x \in W : \A y \in W : y <= x
    <3>1. W \subseteq {match[p] : p \in Server} /\ W # {}
      BY <2>2
    <3> HIDE DEF W
    <3> QED BY <3>1, LeastAndGreatest
  <2>4. x \in V /\ x < n /\ x \in Int /\ n \in Int
    BY <1>1
  <2>5. Upto(x) = B
    BY <1>1, <2>3, <2>4
  <2>6. x \in G
    <3>1. Cardinality(Upto(x)) > Majority
      <4>1. ~(Cardinality(B) <= Majority)
        OBVIOUS
      <4> HIDE DEF B, Upto
      <4> QED BY <1>1, <2>1, <2>5, <4>1
    <3> QED BY <2>4, <3>1
  <2> QED BY <1>4, <2>4, <2>6
<1>6. \E k \in {match[p] : p \in Server} :
          /\ Cardinality({p \in Server : match[p] < k}) <= Majority
          /\ Cardinality({p \in Server : match[p] <= k}) > Majority
  BY <1>4, <1>5
<1> QED BY <1>6 DEF Median

\* The calls that are there after a step are of the right types.
LEMMA CallsTyped ==
    ASSUME Base, DataInv, [Next]_vars, NEW m \in DOMAIN net'
    PROVE  /\ m.kind = "appendReq" => RequestOK(m) /\ m.leaderCommit \in Nat
           /\ m.kind = "appendRsp" => ReplyOK(m)
<1>0. LogTypes /\ commitIndex \in [Server -> Nat]
  BY DEF DataInv
<1>1. CASE m \in DOMAIN net
  BY <1>1 DEF DataInv, LogTypes
<1>2. CASE m \notin DOMAIN net
  <2>1. CASE m.kind \in VoteKinds
    BY <2>1 DEF VoteKinds
  <2>2. ASSUME NEW s \in Server, EntriesSent(s, m)
        PROVE  m.kind = "appendReq" /\ RequestOK(m) /\ m.leaderCommit \in Nat
    <3>1. logs[s] \in Seq(Entries) /\ CurPeerInv
      BY <1>0 DEF Base, LogTypes
    <3>2. RequestOK(m)
      BY <1>0, <2>2, <3>1, SentKnown
    <3> QED BY <1>0, <2>2, <3>2 DEF EntriesSent
  <2>3. ASSUME NEW n \in DOMAIN net, AppendEntries(n), EntriesAnswered(n, m)
        PROVE  m.kind = "appendRsp" /\ ReplyOK(m)
    <3>1. n.kind = "appendReq" /\ n.to \in Server
      BY <2>3 DEF AppendEntries, Base, NetInv, MessageOK
    <3>2. RequestOK(n) /\ logs[n.to] \in Seq(Entries)
      BY <1>0, <3>1 DEF LogTypes
    <3>3. Len(n.sendLogs) \in Nat /\ Len(logs[n.to]) \in Nat
      BY <3>2 DEF RequestOK
    <3>4. m.conflict_index \in Int
      BY <2>3, <3>3 DEF EntriesAnswered, FirstOfTerm, NoEntry
    <3> QED BY <2>3, <3>2, <3>3, <3>4 DEF EntriesAnswered, ReplyOK, RequestOK
  <2> QED BY <1>2, <2>1, <2>2, <2>3, NewCalls
<1> QED BY <1>1, <1>2

\* An answer that counts moves the indices of one peer, and m_commitIndex to the median
\* of the indices or nowhere.
Counted(m, next, match, c) ==
    /\ next = nextIndex[m.from][m.to] + m.sent
    /\ nextIndex' = [nextIndex EXCEPT ![m.from][m.to] = next]
    /\ match = [matchIndex[m.from] EXCEPT ![m.to] = next - 1]
    /\ matchIndex' = [matchIndex EXCEPT ![m.from] = match]
    /\ commitIndex' = [commitIndex EXCEPT ![m.from] = c]
    /\ c \in CommitChoices(m.from, match)
LEMMA AnswerCounted ==
    ASSUME FieldsInv, NetInv, DataInv, NEW m \in DOMAIN net, AppendReply(m),
           ~(m.term > curTerm[m.from]), m.success
    PROVE  \E next \in Int, match \in [Server -> Int], c \in Nat : Counted(m, next, match, c)
<1>1. m.from \in Server /\ m.to \in Server /\ m.kind = "appendRsp"
  BY DEF AppendReply, NetInv, MessageOK
<1>2. m.sent \in Nat /\ nextIndex[m.from][m.to] \in Int /\ matchIndex[m.from] \in [Server -> Int]
      /\ commitIndex[m.from] \in Nat
  BY <1>1 DEF DataInv, LogTypes, ReplyOK
<1>3. PICK next, match : /\ next = NextAfterSuccess(m.from, m)
                         /\ match = [matchIndex[m.from] EXCEPT ![m.to] = MatchAfterSuccess(next)]
  OBVIOUS
<1>4. next = nextIndex[m.from][m.to] + m.sent /\ MatchAfterSuccess(next) = next - 1 /\ next \in Int
      /\ match \in [Server -> Int]
  <2>1. next = nextIndex[m.from][m.to] + m.sent /\ MatchAfterSuccess(next) = next - 1
    BY <1>3 DEF NextAfterSuccess, MatchAfterSuccess
  <2>2. next \in Int /\ MatchAfterSuccess(next) \in Int
    BY <1>2, <2>1
  <2> QED BY <1>2, <1>3, <2>1, <2>2, Updated
<1>5. PICK c \in CommitChoices(m.from, match) :
          /\ nextIndex' = [nextIndex EXCEPT ![m.from][m.to] = next]
          /\ matchIndex' = [matchIndex EXCEPT ![m.from] = match]
          /\ commitIndex' = [commitIndex EXCEPT ![m.from] = c]
  <2>1. /\ nextIndex' = [nextIndex EXCEPT ![m.from][m.to] = NextAfterSuccess(m.from, m)]
        /\ matchIndex' = [matchIndex EXCEPT ![m.from] = [matchIndex[m.from] EXCEPT ![m.to] =
                                                   MatchAfterSuccess(NextAfterSuccess(m.from, m))]]
        /\ \E c \in CommitChoices(m.from, [matchIndex[m.from] EXCEPT ![m.to] =
                                          MatchAfterSuccess(NextAfterSuccess(m.from, m))]) :
               commitIndex' = [commitIndex EXCEPT ![m.from] = c]
    BY DEF AppendReply
  <2> QED BY <1>3, <2>1
<1>6. c \in Nat
  <2>1. Median(match) \in Int
    BY <1>4, MedianFound
  <2>2. c = commitIndex[m.from] \/ (c = Median(match) /\ ~(Median(match) <= commitIndex[m.from]))
    BY DEF CommitChoices
  <2> QED BY <1>2, <2>1, <2>2
<1>7. Counted(m, next, match, c)
  <2>1. match = [matchIndex[m.from] EXCEPT ![m.to] = next - 1]
    BY <1>3, <1>4
  <2> QED BY <1>4, <1>5, <2>1 DEF Counted
<1> QED BY <1>4, <1>6, <1>7

\* The indices a server keeps of the others, and its own.
LEMMA IndicesTyped ==
    ASSUME FieldsInv, NetInv, DataInv, [Next]_vars
    PROVE  matchIndex' \in [Server -> [Server -> Int]] /\ commitIndex' \in [Server -> Nat]
<1>0. matchIndex \in [Server -> [Server -> Int]] /\ commitIndex \in [Server -> Nat]
  BY DEF DataInv
<1>1. ASSUME NEW s \in Server,
             \/ CallRequestVote(s) \/ SendAppendEntries(s) \/ CheckLogUptodate(s) \/ GrantVote(s)
             \/ ElectionTimeout(s) \/ Heartbeat(s) \/ Start(s) \/ Kill(s)
      PROVE  UNCHANGED <<matchIndex, commitIndex>>
  BY <1>1 DEF CallRequestVote, SendAppendEntries, CheckLogUptodate, GrantVote, ElectionTimeout, Heartbeat,
     Start, Kill, leaderVars
<1>2. ASSUME NEW s \in Server, ElectionDecided(s) \/ Restart(s)
      PROVE  matchIndex' \in [Server -> [Server -> Int]] /\ commitIndex' \in [Server -> Nat]
  <2>1. PICK row : row = [p \in Server |-> 0]
    OBVIOUS
  <2>2. row \in [Server -> Int]
    BY <2>1
  <2>3. UNCHANGED matchIndex \/ matchIndex' = [matchIndex EXCEPT ![s] = row]
    BY <1>2, <2>1 DEF ElectionDecided, Restart
  <2>4. UNCHANGED commitIndex \/ commitIndex' = [commitIndex EXCEPT ![s] = 0]
    BY <1>2 DEF ElectionDecided, Restart
  <2>5. matchIndex' \in [Server -> [Server -> Int]]
    BY <1>0, <2>2, <2>3, Updated
  <2>6. commitIndex' \in [Server -> Nat]
    BY <1>0, <2>4
  <2> QED BY <2>5, <2>6
<1>3. ASSUME NEW m \in DOMAIN net, RequestVote(m) \/ VoteReply(m)
      PROVE  UNCHANGED <<matchIndex, commitIndex>>
  BY <1>3 DEF RequestVote, VoteReply, leaderVars
<1>4. ASSUME NEW m \in DOMAIN net, AppendEntries(m)
      PROVE  UNCHANGED matchIndex /\ commitIndex' \in [Server -> Nat]
  <2>1. UNCHANGED matchIndex /\ m.to \in Server /\ m.kind = "appendReq"
    BY <1>4 DEF AppendEntries, NetInv, MessageOK
  <2>2. UNCHANGED commitIndex \/ (/\ ~TooShort(logs[m.to], m)
            /\ commitIndex' = [commitIndex EXCEPT ![m.to] =
                                  CommitAfter(commitIndex[m.to], m, Synced(logs[m.to], m))])
    <3>1. CASE m.term < curTerm[m.to]
      BY <1>4, <3>1 DEF AppendEntries
    <3>2. CASE ~(m.term < curTerm[m.to])
      BY <1>4, <3>2 DEF AppendEntries
    <3> QED BY <3>1, <3>2
  <2>3. CASE ~TooShort(logs[m.to], m)
    <3>1. RequestOK(m) /\ m.leaderCommit \in Nat /\ logs[m.to] \in Seq(Entries) /\ commitIndex[m.to] \in Nat
      BY <1>0, <2>1 DEF DataInv, LogTypes
    <3>2. Len(Synced(logs[m.to], m)) \in Nat
      BY <2>3, <3>1, SyncedLog
    <3>3. CommitAfter(commitIndex[m.to], m, Synced(logs[m.to], m)) \in Nat
      BY <3>1, <3>2 DEF CommitAfter, Min2
    <3> QED BY <1>0, <2>1, <2>2, <3>3, Updated
  <2> QED BY <1>0, <2>1, <2>2, <2>3
<1>5. ASSUME NEW m \in DOMAIN net, AppendReply(m)
      PROVE  matchIndex' \in [Server -> [Server -> Int]] /\ commitIndex' \in [Server -> Nat]
  <2>1. CASE ~(m.term > curTerm[m.from]) /\ m.success
    <3>1. PICK next \in Int, match \in [Server -> Int], c \in Nat : Counted(m, next, match, c)
      BY <1>5, <2>1, AnswerCounted
    <3>2. matchIndex' = [matchIndex EXCEPT ![m.from] = match] /\ commitIndex' = [commitIndex EXCEPT ![m.from] = c]
      BY <3>1 DEF Counted
    <3>3. matchIndex' \in [Server -> [Server -> Int]]
      BY <1>0, <3>2, Updated
    <3>4. commitIndex' \in [Server -> Nat]
      BY <1>0, <3>2, Updated
    <3> QED BY <3>3, <3>4
  <2>2. CASE m.term > curTerm[m.from] \/ ~m.success
    <3>1. UNCHANGED <<matchIndex, commitIndex>>
      BY <1>5, <2>2 DEF AppendReply, leaderVars
    <3> QED BY <1>0, <3>1
  <2> QED BY <2>1, <2>2
<1>6. ASSUME UNCHANGED vars PROVE UNCHANGED <<matchIndex, commitIndex>>
  BY <1>6 DEF vars, leaderVars
<1> QED BY <1>0, <1>1, <1>2, <1>3, <1>4, <1>5, <1>6 DEF Next, ThreadStep

\* At a first start there are no entries and no calls.
LEMMA DataInit == Init => DataInv
<1> SUFFICES ASSUME Init PROVE DataInv
  OBVIOUS
<1>1. DOMAIN net = {}
  BY DEF Init, EmptyBag, SetToBag
<1>2. <<>> \in Seq(Entries)
  OBVIOUS
<1>3. /\ logs \in [Server -> Seq(Entries)] /\ started \in Nat /\ nextIndex \in [Server -> [Server -> Int]]
      /\ matchIndex \in [Server -> [Server -> Int]] /\ commitIndex \in [Server -> Nat]
  BY <1>2 DEF Init
<1>4. \A s \in Server : disk[s].logs \in Seq(Entries)
  BY <1>2 DEF Init, NoFile
<1> QED BY <1>1, <1>3, <1>4 DEF DataInv, LogTypes

\* Every step leaves logs, indices and calls of the right types.
LEMMA DataNext == Base /\ DataInv /\ [Next]_vars => DataInv'
<1> SUFFICES ASSUME Base, DataInv, [Next]_vars PROVE DataInv'
  OBVIOUS
<1>1. FieldsInv /\ NetInv /\ LogTypes
  BY DEF Base, DataInv
<1>2. logs' \in [Server -> Seq(Entries)]
  BY <1>1, LogsTyped
<1>3. \A s \in Server : disk'[s].logs \in Seq(Entries)
  BY <1>1, <1>2, FilesTyped
<1>4. started' \in Nat /\ nextIndex' \in [Server -> [Server -> Int]]
  BY <1>1, StartedTyped, NextIndexTyped
<1>5. matchIndex' \in [Server -> [Server -> Int]] /\ commitIndex' \in [Server -> Nat]
  BY <1>1, IndicesTyped
<1>6. \A m \in DOMAIN net' : /\ m.kind = "appendReq" => RequestOK(m) /\ m.leaderCommit \in Nat
                             /\ m.kind = "appendRsp" => ReplyOK(m)
  BY CallsTyped
<1> QED BY <1>2, <1>3, <1>4, <1>5, <1>6 DEF DataInv, LogTypes

\* At any time.
LEMMA DataAlways ==
    ASSUME Overlap = FALSE
    PROVE  Spec => []DataInv
BY DataInit, DataNext, BaseAlways, PTL DEF Spec

\* The fields of the servers, their files and the calls in progress have their types,
\* whatever restarts; the median sendAppendEntries commits by (raft.cpp:576-583) exists.
THEOREM RaftTyped ==
    ASSUME Overlap = FALSE
    PROVE  Spec => []TypeOK
<1>1. Base /\ DataInv => TypeOK
  BY DEF Base, FieldsInv, CurPeerInv, NetInv, Single, MessageOK, DataInv, LogTypes, TypeOK
<1> QED BY <1>1, BaseAlways, DataAlways, PTL

-----------------------------------------------------------------------------
(* The indices of a leader stay in its log.                                *)

\* A call that carries entries, when its caller leads: it was made in the present term,
\* and what it is answered, unless from a later term, points into what was sent.
CallFits(m, term, len) ==
    /\ m.kind = "appendReq" => m.term = term /\ m.prevLogIndex + Len(m.sendLogs) <= len
    /\ m.kind = "appendRsp" /\ m.success => m.prevLogIndex + m.sent <= len
    /\ m.kind = "appendRsp" /\ ~m.success =>
           \/ m.term > term
           \/ m.conflict_term = NoEntry /\ m.conflict_index \in 0..m.prevLogIndex
           \/ m.conflict_term # NoEntry /\ m.conflict_index \in 1..m.prevLogIndex
\* The calls of a server that carry entries, or the answer to them.
EntryCalls(s) == {m \in DOMAIN net : m.from = s /\ m.kind \in AppendKinds}
RangeOK(s) ==
    state[s] = "LEADER" =>
        /\ \A p \in Server : nextIndex[s][p] \in 1..(Len(logs[s]) + 1)
        /\ \A m \in EntryCalls(s) : /\ nextIndex[s][m.to] = m.prevLogIndex + 1
                                    /\ CallFits(m, curTerm[s], Len(logs[s]))
RangeInv == restarts = 0 /\ \A s \in Server : RangeOK(s)

\* A leader that was not elected by the step led before, in the same term; its log has
\* at most grown, and only an answer has moved its indices.
LEMMA StillLeads ==
    ASSUME Base, LogTypes, [Next]_vars, NEW p \in Server, state'[p] = "LEADER", ~ElectionDecided(p)
    PROVE  /\ state[p] = "LEADER" /\ curTerm'[p] = curTerm[p]
           /\ logs'[p] = logs[p] \/ Start(p)
           /\ nextIndex'[p] = nextIndex[p] \/ \E m \in DOMAIN net : AppendReply(m) /\ m.from = p
<1>0. /\ DOMAIN state = Server /\ curTerm \in [Server -> Nat] /\ DOMAIN logs = Server /\ DOMAIN nextIndex = Server
      /\ \A m \in DOMAIN net : m.to \in Server /\ m.from \in Server /\ m.term \in Nat
  BY DEF Base, FieldsInv, LogTypes, NetInv, MessageOK
<1>1. ASSUME NEW s \in Server,
             \/ CallRequestVote(s) \/ SendAppendEntries(s) \/ CheckLogUptodate(s) \/ GrantVote(s)
             \/ Heartbeat(s) \/ Kill(s)
      PROVE  UNCHANGED <<state, curTerm, logs, nextIndex>>
  BY <1>1 DEF CallRequestVote, SendAppendEntries, CheckLogUptodate, GrantVote, Heartbeat, Kill, raftVars,
     leaderVars
<1>2. ASSUME NEW s \in Server, ElectionTimeout(s) PROVE UNCHANGED <<state[p], curTerm[p], logs, nextIndex>>
  <2>1. /\ state' = [state EXCEPT ![s] = "CANDIDATE"] /\ curTerm' = [curTerm EXCEPT ![s] = curTerm[s] + 1]
        /\ UNCHANGED <<logs, nextIndex>>
    BY <1>2 DEF ElectionTimeout, leaderVars
  <2>2. p # s
    BY <1>0, <2>1
  <2> QED BY <1>0, <2>1, <2>2
<1>3. ASSUME NEW s \in Server, ElectionDecided(s) PROVE UNCHANGED <<state[p], curTerm, logs, nextIndex[p]>>
  <2>1. p # s
    BY <1>3
  <2>2. /\ UNCHANGED <<curTerm, logs>>
        /\ UNCHANGED state \/ state' = [state EXCEPT ![s] = "LEADER"]
        /\ UNCHANGED nextIndex \/ nextIndex' = [nextIndex EXCEPT ![s] = [q \in Server |-> Len(logs[s]) + 1]]
    BY <1>3 DEF ElectionDecided
  <2> QED BY <1>0, <2>1, <2>2
<1>4. ASSUME NEW s \in Server, Start(s)
      PROVE  UNCHANGED <<state, curTerm, nextIndex>> /\ (logs'[p] = logs[p] \/ Start(p))
  <2>1. UNCHANGED <<state, curTerm, nextIndex>>
        /\ logs' = [logs EXCEPT ![s] = Append(logs[s], [term |-> curTerm[s], cmd |-> started + 1])]
    BY <1>4 DEF Start, leaderVars
  <2> QED BY <1>0, <1>4, <2>1
<1>5. ASSUME NEW s \in Server, Restart(s) PROVE UNCHANGED <<state[p], curTerm[p], logs[p], nextIndex[p]>>
  <2>1. /\ state' = [state EXCEPT ![s] = "FOLLOWER"] /\ curTerm' = [curTerm EXCEPT ![s] = disk[s].term]
        /\ logs' = [logs EXCEPT ![s] = disk[s].logs]
        /\ nextIndex' = [nextIndex EXCEPT ![s] = [q \in Server |-> 1]]
    BY <1>5 DEF Restart
  <2>2. p # s
    BY <1>0, <2>1
  <2> QED BY <1>0, <2>1, <2>2
<1>6. ASSUME NEW m \in DOMAIN net, RequestVote(m) PROVE UNCHANGED <<state[p], curTerm[p], logs, nextIndex>>
  <2>1. UNCHANGED <<logs, nextIndex>>
    BY <1>6 DEF RequestVote, raftVars, leaderVars
  <2>2. CASE curTerm[m.to] > m.term
    BY <1>6, <2>1, <2>2 DEF RequestVote, raftVars
  <2>3. CASE ~(curTerm[m.to] > m.term)
    <3>1. /\ state' = [state EXCEPT ![m.to] = IF curTerm[m.to] < m.term THEN "FOLLOWER" ELSE state[m.to]]
          /\ curTerm' = [curTerm EXCEPT ![m.to] = m.term]
      BY <1>6, <2>3 DEF RequestVote
    <3>2. CASE p = m.to
      <4>1. ~(curTerm[p] < m.term)
        BY <1>0, <3>1, <3>2
      <4> QED BY <1>0, <2>1, <2>3, <3>1, <3>2, <4>1
    <3>3. CASE p # m.to
      BY <1>0, <2>1, <3>1, <3>3
    <3> QED BY <3>2, <3>3
  <2> QED BY <2>2, <2>3
<1>7. ASSUME NEW m \in DOMAIN net, AppendEntries(m) PROVE UNCHANGED <<state[p], curTerm[p], logs[p], nextIndex>>
  <2>1. UNCHANGED nextIndex
    BY <1>7 DEF AppendEntries
  <2>2. CASE m.term < curTerm[m.to]
    BY <1>7, <2>1, <2>2 DEF AppendEntries, raftVars
  <2>3. CASE ~(m.term < curTerm[m.to])
    <3>1. /\ state' = [state EXCEPT ![m.to] = "FOLLOWER"]
          /\ curTerm' = [curTerm EXCEPT ![m.to] = m.term]
          /\ UNCHANGED logs \/ logs' = [logs EXCEPT ![m.to] = Synced(logs[m.to], m)]
      BY <1>7, <2>3 DEF AppendEntries
    <3>2. p # m.to
      BY <1>0, <3>1
    <3> QED BY <1>0, <2>1, <3>1, <3>2
  <2> QED BY <2>2, <2>3
<1>8. ASSUME NEW m \in DOMAIN net, VoteReply(m) PROVE UNCHANGED <<state[p], curTerm[p], logs[p], nextIndex>>
  <2>1. UNCHANGED nextIndex
    BY <1>8 DEF VoteReply, leaderVars
  <2>2. CASE m.term > curTerm[m.from]
    <3>1. /\ state' = [state EXCEPT ![m.from] = "FOLLOWER"]
          /\ \E t : curTerm' = [curTerm EXCEPT ![m.from] = t]
          /\ logs' = [logs EXCEPT ![m.from] = logs[m.from] \o disk[m.from].logs]
      BY <1>8, <2>2 DEF VoteReply
    <3>2. p # m.from
      BY <1>0, <3>1
    <3> QED BY <1>0, <2>1, <3>1, <3>2
  <2>3. CASE ~(m.term > curTerm[m.from])
    BY <1>8, <2>1, <2>3 DEF VoteReply
  <2> QED BY <2>2, <2>3
<1>9. ASSUME NEW m \in DOMAIN net, AppendReply(m)
      PROVE  UNCHANGED <<state[p], curTerm[p], logs>> /\ (nextIndex'[p] = nextIndex[p] \/ m.from = p)
  <2>1. CASE m.term > curTerm[m.from]
    <3>1. /\ state' = [state EXCEPT ![m.from] = "FOLLOWER"] /\ curTerm' = [curTerm EXCEPT ![m.from] = m.term]
          /\ UNCHANGED <<logs, nextIndex>>
      BY <1>9, <2>1 DEF AppendReply, leaderVars
    <3>2. p # m.from
      BY <1>0, <3>1
    <3> QED BY <1>0, <3>1, <3>2
  <2>2. CASE ~(m.term > curTerm[m.from])
    <3>1. UNCHANGED <<state, curTerm, logs>>
          /\ \E next : nextIndex' = [nextIndex EXCEPT ![m.from][m.to] = next]
      BY <1>9, <2>2 DEF AppendReply
    <3> QED BY <1>0, <3>1
  <2> QED BY <2>1, <2>2
<1>10. ASSUME UNCHANGED vars PROVE UNCHANGED <<state, curTerm, logs, nextIndex>>
  BY <1>10 DEF vars, raftVars, leaderVars
<1> QED BY <1>1, <1>2, <1>3, <1>4, <1>5, <1>6, <1>7, <1>8, <1>9, <1>10 DEF Next, ThreadStep


\* Without restarts.
LEMMA StillFirst ==
    ASSUME MaxRestart = 0, FieldsInv, [Next]_vars
    PROVE  UNCHANGED <<restarts, lives>>
<1>1. ASSUME NEW s \in Server,
             \/ CallRequestVote(s) \/ SendAppendEntries(s) \/ CheckLogUptodate(s) \/ GrantVote(s)
             \/ ElectionTimeout(s) \/ ElectionDecided(s) \/ Heartbeat(s) \/ Start(s) \/ Kill(s)
      PROVE  UNCHANGED <<restarts, lives>>
  BY <1>1 DEF CallRequestVote, SendAppendEntries, CheckLogUptodate, GrantVote, ElectionTimeout,
     ElectionDecided, Heartbeat, Start, Kill, historyVars
<1>2. ASSUME NEW s \in Server, Restart(s) PROVE FALSE
  <2>1. restarts \in Nat
    BY DEF FieldsInv
  <2> QED BY <1>2, <2>1 DEF Restart
<1>3. ASSUME NEW m \in DOMAIN net, RequestVote(m) \/ VoteReply(m) \/ AppendEntries(m) \/ AppendReply(m)
      PROVE  UNCHANGED <<restarts, lives>>
  <2>1. CASE RequestVote(m) \/ AppendReply(m)
    BY <2>1 DEF RequestVote, AppendReply, historyVars
  <2>2. CASE VoteReply(m)
    BY <2>2 DEF VoteReply
  <2>3. CASE AppendEntries(m)
    BY <2>3 DEF AppendEntries
  <2> QED BY <1>3, <2>1, <2>2, <2>3
<1>4. ASSUME UNCHANGED vars PROVE UNCHANGED <<restarts, lives>>
  BY <1>4 DEF vars, historyVars
<1> QED BY <1>1, <1>2, <1>3, <1>4 DEF Next, ThreadStep

\* Two calls of a server in one life are to different servers.
LEMMA CallsApart ==
    ASSUME NetInv, restarts = 0, NEW m \in DOMAIN net, NEW n \in DOMAIN net, m.from = n.from, m.to = n.to
    PROVE  m = n
<1>1. m.life = 0 /\ n.life = 0
  BY DEF NetInv, MessageOK
<1> QED BY <1>1 DEF NetInv, Key, Pending

\* Where an answer moves the next index of a peer to, when the server leads on.
LEMMA RangeReply ==
    ASSUME FieldsInv, NetInv, LogTypes, NEW m \in DOMAIN net, AppendReply(m), NEW p \in Server, m.from = p,
           RangeOK(p), state[p] = "LEADER", state'[p] = "LEADER"
    PROVE  \E x \in 1..(Len(logs[p]) + 1) : nextIndex' = [nextIndex EXCEPT ![p][m.to] = x]
<1>0. /\ m.to \in Server /\ m.kind = "appendRsp" /\ m.term \in Nat /\ curTerm[p] \in Nat /\ DOMAIN state = Server
      /\ Len(logs[p]) \in Nat /\ m \in EntryCalls(p)
  <2>1. m.to \in Server /\ m.kind = "appendRsp" /\ m.term \in Nat
    BY DEF AppendReply, NetInv, MessageOK
  <2>2. curTerm[p] \in Nat /\ DOMAIN state = Server /\ logs[p] \in Seq(Entries)
    BY DEF FieldsInv, LogTypes
  <2> QED BY <2>1, <2>2 DEF EntryCalls, AppendKinds
<1>1. /\ m.prevLogIndex \in Int /\ m.sent \in Nat /\ m.conflict_index \in Int
      /\ nextIndex[p][m.to] = m.prevLogIndex + 1 /\ nextIndex[p][m.to] \in 1..(Len(logs[p]) + 1)
      /\ CallFits(m, curTerm[p], Len(logs[p]))
  BY <1>0 DEF RangeOK, LogTypes, ReplyOK
<1>2. ~(m.term > curTerm[p])
  <2> SUFFICES ASSUME m.term > curTerm[p] PROVE FALSE
    OBVIOUS
  <2>1. state' = [state EXCEPT ![p] = "FOLLOWER"]
    BY DEF AppendReply
  <2> QED BY <1>0, <2>1
<1>3. CASE m.success
  <2>1. nextIndex' = [nextIndex EXCEPT ![p][m.to] = NextAfterSuccess(p, m)]
    BY <1>2, <1>3 DEF AppendReply
  <2>2. NextAfterSuccess(p, m) \in 1..(Len(logs[p]) + 1)
    BY <1>0, <1>1, <1>3 DEF NextAfterSuccess, CallFits
  <2> QED BY <2>1, <2>2
<1>4. CASE ~m.success
  <2>1. PICK x \in BackUp(p, m) : nextIndex' = [nextIndex EXCEPT ![p][m.to] = x]
    BY <1>2, <1>4 DEF AppendReply
  <2>2. m.prevLogIndex <= Len(logs[p])
    BY <1>0, <1>1
  <2>3. CASE m.conflict_term = NoEntry
    <3>1. m.conflict_index \in 0..m.prevLogIndex
      BY <1>0, <1>1, <1>2, <1>4, <2>3 DEF CallFits
    <3>2. x = m.conflict_index + 1
      BY <2>1, <2>3 DEF BackUp
    <3>3. x \in 1..(Len(logs[p]) + 1)
      BY <1>0, <1>1, <2>2, <3>1, <3>2
    <3> QED BY <2>1, <3>3
  <2>4. CASE m.conflict_term # NoEntry
    <3>1. m.conflict_index \in 1..m.prevLogIndex
      BY <1>0, <1>1, <1>2, <1>4, <2>4 DEF CallFits
    <3>2. \/ x = m.conflict_index
          \/ \E i \in 1..Min2(m.prevLogIndex, Len(logs[p])) : x = i + 1
          \/ \E i \in (Len(logs[p]) + 1)..m.prevLogIndex : x = i + 1
      BY <2>1, <2>4 DEF BackUp
    <3>3. x \in 1..(Len(logs[p]) + 1)
      BY <1>0, <1>1, <2>2, <3>1, <3>2 DEF Min2
    <3> QED BY <2>1, <3>3
  <2> QED BY <2>3, <2>4
<1> QED BY <1>3, <1>4

\* What a leader sends fits its log, and what is answered to that fits as well.
LEMMA SentFits ==
    ASSUME CurPeerInv, LogTypes, NEW p \in Server, RangeOK(p), state[p] = "LEADER", NEW m, EntriesSent(p, m)
    PROVE  nextIndex[p][m.to] = m.prevLogIndex + 1 /\ CallFits(m, curTerm[p], Len(logs[p]))
<1>1. m.to \in Server /\ m.kind = "appendReq" /\ m.term = curTerm[p] /\ m.to = Callee(p)
  BY DEF EntriesSent, CurPeerInv, CalleeIsAPeer
<1>2. /\ nextIndex[p][m.to] \in 1..(Len(logs[p]) + 1) /\ m.prevLogIndex = nextIndex[p][m.to] - 1
      /\ logs[p] \in Seq(Entries)
  BY <1>1 DEF EntriesSent, RangeOK, LogTypes
<1>3. Len(logs[p]) \in Nat /\ m.prevLogIndex \in Nat /\ m.prevLogIndex <= Len(logs[p])
  BY <1>2
<1>4. m.sendLogs = SubSeq(logs[p], m.prevLogIndex + 1, Len(logs[p]))
  <2>1. m.sendLogs = IF m.prevLogIndex < 0 THEN <<>> ELSE SubSeq(logs[p], m.prevLogIndex + 1, Len(logs[p]))
    BY DEF EntriesSent
  <2>2. ~(m.prevLogIndex < 0)
    BY <1>3
  <2> QED BY <2>1, <2>2
<1>5. Len(m.sendLogs) = IF m.prevLogIndex < Len(logs[p]) THEN Len(logs[p]) - m.prevLogIndex ELSE 0
  <2>1. PICK q : q = logs[p]
    OBVIOUS
  <2>2. PICK i : i = m.prevLogIndex
    OBVIOUS
  <2>3. q \in Seq(Entries) /\ i \in Nat
    BY <1>2, <1>3, <2>1, <2>2
  <2>4. Len(SubSeq(q, i + 1, Len(q))) = IF i < Len(q) THEN Len(q) - i ELSE 0
    BY <2>3, Ending
  <2> QED BY <1>4, <2>1, <2>2, <2>4
<1>6. m.prevLogIndex + Len(m.sendLogs) <= Len(logs[p])
  BY <1>3, <1>5
<1> QED BY <1>1, <1>2, <1>3, <1>6 DEF CallFits

\* What appendEntries answers points into what was sent.
LEMMA AnswerFits ==
    ASSUME FieldsInv, NetInv, LogTypes, NEW n \in DOMAIN net, AppendEntries(n), NEW m, EntriesAnswered(n, m),
           NEW p \in Server, m.from = p, RangeOK(p), state[p] = "LEADER"
    PROVE  nextIndex[p][m.to] = m.prevLogIndex + 1 /\ CallFits(m, curTerm[p], Len(logs[p]))
<1>1. n.kind = "appendReq" /\ n.from = p /\ n.to \in Server /\ m.to = n.to /\ n \in EntryCalls(p)
  BY DEF AppendEntries, EntriesAnswered, NetInv, MessageOK, EntryCalls, AppendKinds
<1>2. /\ nextIndex[p][m.to] = n.prevLogIndex + 1 /\ nextIndex[p][m.to] \in 1..(Len(logs[p]) + 1)
      /\ n.term = curTerm[p] /\ n.prevLogIndex + Len(n.sendLogs) <= Len(logs[p])
  BY <1>1 DEF RangeOK, CallFits
<1>3. n.prevLogIndex \in Int /\ m.prevLogIndex = n.prevLogIndex /\ m.sent = Len(n.sendLogs)
      /\ m.kind = "appendRsp" /\ m.term = curTerm[n.to]
  BY <1>1 DEF LogTypes, RequestOK, EntriesAnswered
<1>4. /\ curTerm[n.to] \in Nat /\ curTerm[p] \in Nat /\ logs[n.to] \in Seq(Entries) /\ Len(logs[n.to]) \in Nat
      /\ Len(logs[p]) \in Nat /\ n.prevLogIndex \in Nat
  <2>1. curTerm[n.to] \in Nat /\ curTerm[p] \in Nat /\ logs[n.to] \in Seq(Entries) /\ logs[p] \in Seq(Entries)
    BY <1>1 DEF FieldsInv, LogTypes
  <2>2. n.prevLogIndex \in Nat
    BY <1>2, <1>3
  <2> QED BY <2>1, <2>2
<1>5. ASSUME ~m.success
      PROVE  \/ m.term > curTerm[p]
             \/ m.conflict_term = NoEntry /\ m.conflict_index \in 0..m.prevLogIndex
             \/ m.conflict_term # NoEntry /\ m.conflict_index \in 1..m.prevLogIndex
  <2>1. CASE n.term < curTerm[n.to]
    BY <1>2, <1>3, <1>4, <2>1
  <2>2. CASE TooShort(logs[n.to], n) /\ m.conflict_term = NoEntry /\ m.conflict_index = Len(logs[n.to])
    BY <1>3, <1>4, <2>2 DEF TooShort
  <2>3. CASE /\ ~TooShort(logs[n.to], n) /\ Mismatch(logs[n.to], n)
             /\ m.conflict_term = logs[n.to][n.prevLogIndex].term
             /\ m.conflict_index \in FirstOfTerm(logs[n.to], m.conflict_term)
    <3>1. n.prevLogIndex \in 1..Len(logs[n.to])
      BY <1>4, <2>3 DEF TooShort, Mismatch
    <3>2. m.conflict_term \in Nat
      <4>1. PICK q : q = logs[n.to]
        OBVIOUS
      <4>2. q[n.prevLogIndex] \in Entries
        BY <1>4, <3>1, <4>1
      <4> QED BY <2>3, <4>1, <4>2 DEF Entries
    <3>3. m.conflict_index \in 1..n.prevLogIndex
      BY <1>4, <2>3, <3>1 DEF FirstOfTerm
    <3> QED BY <1>3, <3>2, <3>3 DEF NoEntry
  <2> QED BY <1>5, <2>1, <2>2, <2>3 DEF EntriesAnswered
<1> QED BY <1>2, <1>3, <1>5 DEF CallFits


\* A log of a leader has at most grown.
LEMMA LogGrows ==
    ASSUME FieldsInv, LogTypes, NEW p \in Server, logs'[p] = logs[p] \/ Start(p)
    PROVE  /\ Len(logs[p]) \in Nat /\ Len(logs'[p]) \in Nat /\ Len(logs'[p]) >= Len(logs[p])
           /\ \A i \in 1..Len(logs[p]) : logs'[p][i] = logs[p][i]
<1>1. logs[p] \in Seq(Entries) /\ DOMAIN logs = Server /\ Len(logs[p]) \in Nat
  BY DEF LogTypes
<1>2. CASE logs'[p] = logs[p]
  BY <1>1, <1>2
<1>3. CASE Start(p)
  <2>1. PICK e \in Entries : logs' = [logs EXCEPT ![p] = Append(logs[p], e)]
    BY <1>3, LogStarted
  <2>2. logs'[p] = Append(logs[p], e)
    BY <1>1, <2>1
  <2> QED BY <1>1, <2>2, AppendProperties
<1> QED BY <1>2, <1>3

\* Every step leaves the indices of every leader in its log, and its calls with them.
LEMMA RangeNext ==
    ASSUME MaxRestart = 0, Base, Base', ElectInv, DataInv, RangeInv, [Next]_vars
    PROVE  RangeInv'
<1>0. /\ FieldsInv /\ FieldsInv' /\ NetInv /\ NetInv' /\ CurPeerInv /\ LogTypes /\ restarts = 0 /\ UNCHANGED restarts
      /\ \A s \in Server : RangeOK(s)
  BY StillFirst DEF Base, DataInv, RangeInv
<1> SUFFICES ASSUME NEW p \in Server, state'[p] = "LEADER"
             PROVE  /\ \A q \in Server : nextIndex'[p][q] \in 1..(Len(logs'[p]) + 1)
                    /\ \A m \in EntryCalls(p)' : /\ nextIndex'[p][m.to] = m.prevLogIndex + 1
                                                 /\ CallFits(m, curTerm'[p], Len(logs'[p]))
  BY <1>0 DEF RangeInv, RangeOK
<1>1. /\ DOMAIN state = Server /\ DOMAIN nextIndex = Server /\ logs[p] \in Seq(Entries) /\ Len(logs[p]) \in Nat
      /\ nextIndex[p] \in [Server -> Int] /\ curTerm[p] \in Nat
  BY <1>0 DEF FieldsInv, LogTypes
<1>2. CASE ElectionDecided(p)
  <2>1. electing[p] /\ state[p] # "LEADER" /\ \A m \in OwnCalls(p) : m.kind \in VoteKinds
    BY <1>0, <1>2 DEF ElectionDecided, ElectInv, ElectOK
  <2>2. /\ nextIndex' = [nextIndex EXCEPT ![p] = [q \in Server |-> Len(logs[p]) + 1]]
        /\ UNCHANGED <<logs, net>>
    BY <1>2, <2>1 DEF ElectionDecided
  <2>3. nextIndex'[p] = [q \in Server |-> Len(logs[p]) + 1]
    BY <1>1, <2>2
  <2>4. ASSUME NEW m \in EntryCalls(p)' PROVE FALSE
    <3>1. m \in DOMAIN net /\ m.from = p /\ m.kind \in AppendKinds
      BY <2>2, <2>4 DEF EntryCalls
    <3>2. m.life = 0 /\ lives[p] = 0
      BY <1>0, <3>1 DEF NetInv, MessageOK, FieldsInv
    <3>3. m \in OwnCalls(p)
      BY <3>1, <3>2 DEF OwnCalls, Pending
    <3> QED BY <2>1, <3>1, <3>3 DEF VoteKinds, AppendKinds
  <2> QED BY <1>1, <2>2, <2>3, <2>4
<1>3. CASE ~ElectionDecided(p)
  <2>1. /\ state[p] = "LEADER" /\ curTerm'[p] = curTerm[p]
        /\ logs'[p] = logs[p] \/ Start(p)
        /\ nextIndex'[p] = nextIndex[p] \/ \E m \in DOMAIN net : AppendReply(m) /\ m.from = p
    BY <1>0, <1>3, StillLeads
  <2>2. Len(logs'[p]) \in Nat /\ Len(logs'[p]) >= Len(logs[p])
    BY <1>0, <2>1, LogGrows
  <2>3. /\ \A q \in Server : nextIndex[p][q] \in 1..(Len(logs[p]) + 1)
        /\ \A m \in EntryCalls(p) : /\ nextIndex[p][m.to] = m.prevLogIndex + 1
                                    /\ CallFits(m, curTerm[p], Len(logs[p]))
    BY <1>0, <2>1 DEF RangeOK
  <2>4. ASSUME NEW m \in DOMAIN net, AppendReply(m), m.from = p
        PROVE  /\ m \in EntryCalls(p) /\ m \notin DOMAIN net'
               /\ \E x \in 1..(Len(logs[p]) + 1) : nextIndex' = [nextIndex EXCEPT ![p][m.to] = x]
    <3>1. Receive(m) /\ Single(net) /\ m \in EntryCalls(p)
      BY <1>0, <2>4 DEF AppendReply, NetInv, EntryCalls, AppendKinds
    <3>2. m \notin DOMAIN net'
      BY <3>1, RemoveOne DEF Receive
    <3> QED BY <1>0, <2>1, <2>4, <3>1, <3>2, RangeReply
  <2>5. ASSUME NEW q \in Server PROVE nextIndex'[p][q] \in 1..(Len(logs[p]) + 1)
    <3>1. CASE nextIndex'[p] = nextIndex[p]
      BY <2>3, <3>1
    <3>2. CASE \E m \in DOMAIN net : AppendReply(m) /\ m.from = p
      <4>1. PICK m \in DOMAIN net : AppendReply(m) /\ m.from = p
        BY <3>2
      <4>2. PICK x \in 1..(Len(logs[p]) + 1) : nextIndex' = [nextIndex EXCEPT ![p][m.to] = x]
        BY <2>4, <4>1
      <4>3. nextIndex'[p] = [nextIndex[p] EXCEPT ![m.to] = x]
        BY <1>1, <4>2
      <4>4. nextIndex'[p][q] = IF q = m.to THEN x ELSE nextIndex[p][q]
        BY <1>1, <4>3
      <4> QED BY <2>3, <4>4
    <3> QED BY <2>1, <3>1, <3>2
  <2>6. \A q \in Server : nextIndex'[p][q] \in 1..(Len(logs'[p]) + 1)
    BY <1>1, <2>2, <2>5
  <2>7. ASSUME NEW m \in EntryCalls(p)', m \in DOMAIN net
        PROVE  nextIndex'[p][m.to] = m.prevLogIndex + 1 /\ CallFits(m, curTerm'[p], Len(logs'[p]))
    <3>1. m \in EntryCalls(p) /\ m \in DOMAIN net' /\ m.to \in Server /\ m.from = p
      BY <1>0, <2>7 DEF EntryCalls, NetInv, MessageOK
    <3>2. nextIndex'[p][m.to] = nextIndex[p][m.to]
      <4>1. CASE nextIndex'[p] = nextIndex[p]
        BY <4>1
      <4>2. CASE \E r \in DOMAIN net : AppendReply(r) /\ r.from = p
        <5>1. PICK r \in DOMAIN net : AppendReply(r) /\ r.from = p
          BY <4>2
        <5>2. PICK x \in 1..(Len(logs[p]) + 1) : nextIndex' = [nextIndex EXCEPT ![p][r.to] = x]
          BY <2>4, <5>1
        <5>3. m # r
          BY <2>4, <3>1, <5>1
        <5>4. m.to # r.to
          BY <1>0, <2>7, <3>1, <5>1, <5>3, CallsApart
        <5>5. nextIndex'[p] = [nextIndex[p] EXCEPT ![r.to] = x]
          BY <1>1, <5>2
        <5> QED BY <1>1, <3>1, <5>4, <5>5
      <4> QED BY <2>1, <4>1, <4>2
    <3>3. CallFits(m, curTerm'[p], Len(logs'[p]))
      <4>1. CallFits(m, curTerm[p], Len(logs[p])) /\ curTerm'[p] = curTerm[p]
        BY <2>1, <2>3, <3>1
      <4>2. m.kind = "appendReq" => m.prevLogIndex + Len(m.sendLogs) \in Int
        BY <1>0, <2>7 DEF LogTypes, RequestOK
      <4>3. m.kind = "appendRsp" => m.prevLogIndex + m.sent \in Int
        BY <1>0, <2>7 DEF LogTypes, ReplyOK
      <4> QED BY <1>1, <2>2, <4>1, <4>2, <4>3 DEF CallFits
    <3> QED BY <2>3, <3>1, <3>2, <3>3
  <2>8. ASSUME NEW m \in EntryCalls(p)', m \notin DOMAIN net
        PROVE  nextIndex'[p][m.to] = m.prevLogIndex + 1 /\ CallFits(m, curTerm'[p], Len(logs'[p]))
    <3>1. m \in DOMAIN net' /\ m.from = p /\ m.kind \notin VoteKinds
      BY <2>8 DEF EntryCalls, AppendKinds, VoteKinds
    <3>2. CASE \E s \in Server : SendAppendEntries(s) /\ EntriesSent(s, m)
      <4>1. SendAppendEntries(p) /\ EntriesSent(p, m)
        BY <3>1, <3>2 DEF EntriesSent
      <4>2. UNCHANGED <<logs, nextIndex, curTerm>>
        BY <4>1 DEF SendAppendEntries, raftVars, leaderVars
      <4> QED BY <1>0, <2>1, <4>1, <4>2, SentFits
    <3>3. CASE \E n \in DOMAIN net : AppendEntries(n) /\ EntriesAnswered(n, m)
      <4>1. PICK n \in DOMAIN net : AppendEntries(n) /\ EntriesAnswered(n, m)
        BY <3>3
      <4>2. nextIndex[p][m.to] = m.prevLogIndex + 1 /\ CallFits(m, curTerm[p], Len(logs[p]))
        BY <1>0, <2>1, <3>1, <4>1, AnswerFits
      <4>3. UNCHANGED nextIndex
        BY <4>1 DEF AppendEntries
      <4>4. logs'[p] = logs[p]
        <5>1. CASE Start(p)
          BY <2>8, <3>1, <5>1 DEF Start, threadVars
        <5> QED BY <2>1, <5>1
      <4> QED BY <2>1, <4>2, <4>3, <4>4
    <3> QED BY <2>8, <3>1, <3>2, <3>3, NewCalls
  <2> QED BY <2>6, <2>7, <2>8
<1> QED BY <1>2, <1>3

\* Nobody leads at a first start.
LEMMA RangeAlways ==
    ASSUME Overlap = FALSE, MaxRestart = 0
    PROVE  Spec => []RangeInv
<1>1. Init => RangeInv
  BY DEF Init, RangeInv, RangeOK
<1> QED BY <1>1, RangeNext, BaseAlways, ElectAlways, DataAlways, PTL DEF Spec

\* A leader's next index for every peer is in its log or just beyond it, so that what
\* sendAppendEntries reads at prevLogIndex (raft.cpp:553) and copies from there
\* (raft.cpp:560) is in its log: the answers it counts by (raft.cpp:575, 602) are to
\* calls it made in its term, one for each peer.
THEOREM RaftNextIndex ==
    ASSUME Overlap = FALSE, MaxRestart = 0
    PROVE  Spec => []NextIndexInRange
<1>1. RangeInv => NextIndexInRange
  BY DEF RangeInv, RangeOK, NextIndexInRange
<1> QED BY <1>1, RangeAlways, PTL

-----------------------------------------------------------------------------
(* What is committed stays.                                                *)
(*                                                                         *)
(* H are the logs there have been, as before.  E gives the log that the    *)
(* leader of a term was elected with.  A keeps what appendEntries has      *)
(* answered success to: the term, the server and the log it was left with. *)

\* h is a beginning of g.
Begins(h, g) == Len(h) <= Len(g) /\ \A i \in 1..Len(h) : g[i] = h[i]
Majorities == {Q \in SUBSET Server : Cardinality(Q) > Majority}

\* Server p has acknowledged h in the term of its last entry.
Acked(A, p, h) == \E a \in A : a.term = LastTerm(h) /\ a.by = p /\ Begins(h, a.log)
\* More than half of the servers have.
Committed(A, h) == h # <<>> /\ \E Q \in Majorities : \A q \in Q : Acked(A, q, h)
\* They never will: more than half of the servers have not and are past the term.
Lost(A, h) == \E Q \in Majorities : \A q \in Q : curTerm[q] > LastTerm(h) /\ ~Acked(A, q, h)

\* The log g is the one the leader of term t was elected with, and entries of t.
OfTerm(E, t, g) == Begins(E[t], g) /\ \A j \in (Len(E[t]) + 1)..Len(g) : g[j].term = t

\* A beginning of a beginning.
LEMMA BeginsTrans ==
    ASSUME NEW f \in Seq(Entries), NEW g \in Seq(Entries), NEW h \in Seq(Entries), Begins(f, g), Begins(g, h)
    PROVE  Begins(f, h)
<1>1. Len(f) \in Nat /\ Len(g) \in Nat /\ Len(h) \in Nat
  OBVIOUS
<1> QED BY <1>1 DEF Begins

\* The last entry of a log is in any log it begins.
LEMMA BeginsLast ==
    ASSUME NEW g \in Seq(Entries), NEW h \in Seq(Entries), Begins(h, g), h # <<>>
    PROVE  /\ Len(h) \in 1..Len(g) /\ g[Len(h)] = h[Len(h)] /\ LastTerm(h) = g[Len(h)].term
           /\ g # <<>> /\ LastTerm(h) \in Nat
<1>1. Len(h) \in Nat /\ Len(g) \in Nat /\ Len(h) # 0 /\ Len(<<>>) = 0
  OBVIOUS
<1>2. Len(h) \in 1..Len(h) /\ Len(h) <= Len(g)
  BY <1>1 DEF Begins
<1>3. g[Len(h)] = h[Len(h)]
  BY <1>2 DEF Begins
<1>4. LastTerm(h) = h[Len(h)].term
  BY DEF LastTerm
<1>5. h[Len(h)] \in Entries
  BY <1>2
<1> QED BY <1>1, <1>2, <1>3, <1>4, <1>5 DEF Entries

\* The last term of a log, if it has an entry.
LEMMA LastTermNat ==
    ASSUME NEW g \in Seq(Entries)
    PROVE  LastTerm(g) \in Nat /\ (g # <<>> => Len(g) \in 1..Len(g) /\ LastTerm(g) = g[Len(g)].term)
<1>1. CASE g = <<>>
  BY <1>1 DEF LastTerm
<1>2. CASE g # <<>>
  <2>1. Len(g) \in Nat /\ Len(g) # 0
    BY <1>2
  <2>2. Len(g) \in 1..Len(g) /\ g[Len(g)] \in Entries
    BY <2>1
  <2> QED BY <1>2, <2>2 DEF LastTerm, Entries
<1> QED BY <1>1, <1>2

\* A log of a term ends in that term or is the one its leader was elected with.
LEMMA OfTermLast ==
    ASSUME NEW E, NEW t \in Nat, NEW g \in Seq(Entries), E[t] \in Seq(Entries), OfTerm(E, t, g),
           LastTerm(E[t]) <= t
    PROVE  LastTerm(g) <= t /\ (Len(g) > Len(E[t]) => LastTerm(g) = t)
<1> DEFINE e == E[t]
<1>1. Len(g) \in Nat /\ Len(e) \in Nat /\ Begins(e, g) /\ Len(e) <= Len(g)
  BY DEF OfTerm, Begins
<1>2. CASE Len(g) > Len(e)
  <2>1. g # <<>> /\ Len(g) \in (Len(e) + 1)..Len(g)
    BY <1>1, <1>2
  <2>2. g[Len(g)].term = t
    BY <2>1 DEF OfTerm
  <2> QED BY <2>1, <2>2 DEF LastTerm
<1>3. CASE ~(Len(g) > Len(e))
  <2>1. Len(g) = Len(e) /\ \A i \in 1..Len(e) : e[i] = g[i]
    BY <1>1, <1>3 DEF Begins
  <2>2. g = e
    BY <2>1, SameLog
  <2> QED BY <1>3, <2>2
<1> QED BY <1>2, <1>3

\* Of two logs of a term, the shorter one begins the other.
LEMMA Comparable ==
    ASSUME NEW H, History(H), NEW E, NEW t, E[t] \in Seq(Entries), NEW g \in H, NEW h \in H,
           OfTerm(E, t, g), OfTerm(E, t, h), Len(g) <= Len(h)
    PROVE  Begins(g, h)
<1> DEFINE e == E[t]
<1>1. g \in Seq(Entries) /\ h \in Seq(Entries)
  BY DEF History
<1>2. Len(g) \in Nat /\ Len(h) \in Nat /\ Len(e) \in Nat /\ Len(e) <= Len(g)
  BY <1>1 DEF OfTerm, Begins
<1>3. CASE Len(g) = Len(e)
  BY <1>2, <1>3 DEF OfTerm, Begins
<1>4. CASE Len(g) # Len(e)
  <2>1. Len(g) \in (Len(e) + 1)..Len(g) /\ Len(g) \in (Len(e) + 1)..Len(h) /\ 1 <= Len(g)
        /\ Len(g) \in 0..Len(g) /\ Len(g) \in 0..Len(h)
    BY <1>2, <1>4
  <2>2. g[Len(g)].term = h[Len(g)].term
    BY <2>1 DEF OfTerm
  <2>3. SubSeq(g, 1, Len(g)) = SubSeq(h, 1, Len(g))
    BY <1>2, <2>1, <2>2, SameBeginning
  <2>4. \A j \in 1..Len(g) : SubSeq(g, 1, Len(g))[j] = g[j]
    BY <1>1, <2>1, Beginning
  <2>5. \A j \in 1..Len(g) : SubSeq(h, 1, Len(g))[j] = h[j]
    BY <1>1, <2>1, Beginning
  <2> QED BY <2>3, <2>4, <2>5 DEF Begins
<1> QED BY <1>3, <1>4

\* Every log of its term begins the log of a leader.
LEMMA LeaderBegins ==
    ASSUME NEW H, History(H), NEW E, NEW s \in Server, state[s] = "LEADER", logs[s] \in H,
           curTerm[s] \in Nat, E[curTerm[s]] \in Seq(Entries), LastTerm(E[curTerm[s]]) <= curTerm[s],
           OfTerm(E, curTerm[s], logs[s]), NEW f \in H, OfTerm(E, curTerm[s], f)
    PROVE  Begins(f, logs[s])
<1> DEFINE e == E[curTerm[s]]
<1>1. /\ f \in Seq(Entries) /\ logs[s] \in Seq(Entries) /\ Len(f) \in Nat /\ Len(logs[s]) \in Nat
      /\ Len(e) \in Nat /\ Len(e) <= Len(f) /\ Len(e) <= Len(logs[s])
  BY DEF History, OfTerm, Begins
<1>2. Len(f) <= Len(logs[s])
  <2>1. CASE Len(f) > Len(e)
    <3>1. LastTerm(f) = curTerm[s]
      BY <1>1, <2>1, OfTermLast
    <3>2. f # <<>>
      BY <1>1, <2>1
    <3> QED BY <3>1, <3>2 DEF History
  <2>2. CASE ~(Len(f) > Len(e))
    BY <1>1, <2>2
  <2> QED BY <2>1, <2>2
<1> QED BY <1>2, Comparable

\* Two majorities have a server in common.
LEMMA MajoritiesMeet ==
    ASSUME NEW Q \in Majorities, NEW R \in Majorities
    PROVE  \E q \in Server : q \in Q /\ q \in R
<1>1. /\ Q \subseteq Server /\ R \subseteq Server /\ Cardinality(Q) > Majority /\ Cardinality(R) > Majority
  BY DEF Majorities
<1>2. IsFiniteSet(Q) /\ IsFiniteSet(R) /\ Cardinality(Q) \in Nat /\ Cardinality(R) \in Nat
  BY <1>1, ServersFinite, FS_Subset, FS_CardinalityType
<1>3. Cardinality(Q) + Cardinality(R) > Cardinality(Server)
  BY <1>1, <1>2, ServersFinite DEF Majority
<1>4. Q \cap R # {}
  BY <1>1, <1>3, ServersFinite, FS_MajoritiesIntersect
<1> QED BY <1>1, <1>4

\* What is committed is not lost.
LEMMA NotLost ==
    ASSUME NEW A, NEW h, Committed(A, h)
    PROVE  ~Lost(A, h)
BY MajoritiesMeet DEF Committed, Lost

-----------------------------------------------------------------------------
(* What the steps do to candidates, votes and requests for votes.          *)

\* Server p has voted for s in term t, or is about to.
Voted(p, s, t) ==
    \/ <<t, p, s>> \in ballots
    \/ voting[p].pc = "grant" /\ voting[p].m.from = s /\ voting[p].m.term = t
\* The requests for votes in progress.
Asks == {m \in Pending : m.kind = "voteReq"}

\* A server never goes back to an earlier term.
LEMMA TermsGrow ==
    ASSUME LateThreads = FALSE, MaxRestart = 0, Base, Base', ElectedInv, ElectionSafety, LeadInv,
           VotesKept, VotesKept', [Next]_vars, NEW p \in Server
    PROVE  curTerm[p] \in Nat /\ curTerm'[p] \in Nat /\ curTerm'[p] >= curTerm[p]
<1>0. FieldsInv /\ curTerm[p] \in Nat /\ curTerm'[p] \in Nat /\ \A s \in Server : LeaderOK(s)
  BY DEF Base, FieldsInv, LeadInv
<1>1. CASE Stays(p) \/ StepsDown(p)
  BY <1>0, <1>1 DEF Stays, StepsDown
<1>2. CASE \E m \in DOMAIN net : RequestVote(m) \/ VoteReply(m) \/ AppendEntries(m) \/ AppendReply(m)
  BY <1>1, <1>2, LeaderCall
<1>3. CASE \E s \in Server :
               \/ CallRequestVote(s) \/ SendAppendEntries(s) \/ CheckLogUptodate(s) \/ GrantVote(s)
               \/ ElectionTimeout(s) \/ Start(s) \/ Kill(s) \/ Restart(s)
  BY <1>0, <1>1, <1>3, LeaderServer
<1>4. ASSUME NEW s \in Server, ElectionDecided(s) \/ Heartbeat(s) PROVE UNCHANGED curTerm
  BY <1>4 DEF ElectionDecided, Heartbeat, raftVars
<1>5. ASSUME UNCHANGED vars PROVE UNCHANGED curTerm
  BY <1>5 DEF vars, raftVars
<1> QED BY <1>0, <1>2, <1>3, <1>4, <1>5 DEF Next, ThreadStep

\* A candidate after a step that is not its timeout was one before it, in the same term
\* and with the same log.
LEMMA StillAsks ==
    ASSUME MaxRestart = 0, Base, LogTypes, VotesKept', [Next]_vars, NEW p \in Server,
           state'[p] = "CANDIDATE", ~ElectionTimeout(p)
    PROVE  state[p] = "CANDIDATE" /\ curTerm'[p] = curTerm[p] /\ logs'[p] = logs[p]
<1>0. /\ DOMAIN state = Server /\ curTerm \in [Server -> Nat] /\ DOMAIN logs = Server /\ FieldsInv
      /\ \A m \in DOMAIN net : m.to \in Server /\ m.from \in Server /\ m.term \in Nat
  BY DEF Base, FieldsInv, LogTypes, NetInv, MessageOK
<1>1. ASSUME NEW s \in Server,
             \/ CallRequestVote(s) \/ SendAppendEntries(s) \/ CheckLogUptodate(s) \/ GrantVote(s)
             \/ Heartbeat(s) \/ Kill(s)
      PROVE  UNCHANGED <<state, curTerm>>
  BY <1>1 DEF CallRequestVote, SendAppendEntries, CheckLogUptodate, GrantVote, Heartbeat, Kill, raftVars
<1>2. ASSUME NEW s \in Server, ElectionTimeout(s) PROVE UNCHANGED <<state[p], curTerm[p]>>
  <2>1. state' = [state EXCEPT ![s] = "CANDIDATE"] /\ curTerm' = [curTerm EXCEPT ![s] = curTerm[s] + 1]
    BY <1>2 DEF ElectionTimeout
  <2>2. p # s
    BY <1>2
  <2> QED BY <1>0, <2>1, <2>2
<1>3. ASSUME NEW s \in Server, ElectionDecided(s) PROVE UNCHANGED <<state[p], curTerm>>
  <2>1. UNCHANGED curTerm /\ (UNCHANGED state \/ state' = [state EXCEPT ![s] = "LEADER"])
    BY <1>3 DEF ElectionDecided
  <2> QED BY <1>0, <2>1
<1>4. ASSUME NEW s \in Server, Start(s) PROVE UNCHANGED <<state, curTerm>> /\ logs'[p] = logs[p]
  <2>1. UNCHANGED <<state, curTerm>> /\ state[s] = "LEADER"
        /\ logs' = [logs EXCEPT ![s] = Append(logs[s], [term |-> curTerm[s], cmd |-> started + 1])]
    BY <1>4 DEF Start
  <2>2. p # s
    BY <2>1
  <2> QED BY <1>0, <2>1, <2>2
<1>5. ASSUME NEW s \in Server, Restart(s) PROVE FALSE
  <2>1. restarts \in Nat
    BY <1>0 DEF FieldsInv
  <2> QED BY <1>5, <2>1 DEF Restart
<1>6. ASSUME NEW m \in DOMAIN net, RequestVote(m) PROVE UNCHANGED <<state[p], curTerm[p]>>
  <2>1. CASE curTerm[m.to] > m.term
    BY <1>6, <2>1 DEF RequestVote, raftVars
  <2>2. CASE ~(curTerm[m.to] > m.term)
    <3>1. /\ state' = [state EXCEPT ![m.to] = IF curTerm[m.to] < m.term THEN "FOLLOWER" ELSE state[m.to]]
          /\ curTerm' = [curTerm EXCEPT ![m.to] = m.term]
      BY <1>6, <2>2 DEF RequestVote
    <3>2. CASE p = m.to
      <4>1. ~(curTerm[p] < m.term)
        BY <1>0, <3>1, <3>2
      <4> QED BY <1>0, <2>2, <3>1, <3>2, <4>1
    <3>3. CASE p # m.to
      BY <1>0, <3>1, <3>3
    <3> QED BY <3>2, <3>3
  <2> QED BY <2>1, <2>2
<1>7. ASSUME NEW m \in DOMAIN net, AppendEntries(m) PROVE UNCHANGED <<state[p], curTerm[p], logs[p]>>
  <2>1. CASE m.term < curTerm[m.to]
    BY <1>7, <2>1 DEF AppendEntries, raftVars
  <2>2. CASE ~(m.term < curTerm[m.to])
    <3>1. /\ state' = [state EXCEPT ![m.to] = "FOLLOWER"]
          /\ curTerm' = [curTerm EXCEPT ![m.to] = m.term]
          /\ UNCHANGED logs \/ logs' = [logs EXCEPT ![m.to] = Synced(logs[m.to], m)]
      BY <1>7, <2>2 DEF AppendEntries
    <3>2. p # m.to
      BY <1>0, <3>1
    <3> QED BY <1>0, <3>1, <3>2
  <2> QED BY <2>1, <2>2
<1>8. ASSUME NEW m \in DOMAIN net, VoteReply(m) PROVE UNCHANGED <<state[p], curTerm[p]>>
  <2>1. CASE m.term > curTerm[m.from]
    <3>1. state' = [state EXCEPT ![m.from] = "FOLLOWER"] /\ \E t : curTerm' = [curTerm EXCEPT ![m.from] = t]
      BY <1>8, <2>1 DEF VoteReply
    <3>2. p # m.from
      BY <1>0, <3>1
    <3> QED BY <1>0, <3>1, <3>2
  <2>2. CASE ~(m.term > curTerm[m.from])
    BY <1>8, <2>2 DEF VoteReply
  <2> QED BY <2>1, <2>2
<1>9. ASSUME NEW m \in DOMAIN net, AppendReply(m) PROVE UNCHANGED <<state[p], curTerm[p]>>
  <2>1. CASE m.term > curTerm[m.from]
    <3>1. state' = [state EXCEPT ![m.from] = "FOLLOWER"] /\ curTerm' = [curTerm EXCEPT ![m.from] = m.term]
      BY <1>9, <2>1 DEF AppendReply
    <3>2. p # m.from
      BY <1>0, <3>1
    <3> QED BY <1>0, <3>1, <3>2
  <2>2. CASE ~(m.term > curTerm[m.from])
    BY <1>9, <2>2 DEF AppendReply
  <2> QED BY <2>1, <2>2
<1>10. ASSUME UNCHANGED vars PROVE UNCHANGED <<state, curTerm>>
  BY <1>10 DEF vars, raftVars
<1>11. UNCHANGED <<state[p], curTerm[p]>>
  BY <1>1, <1>2, <1>3, <1>4, <1>5, <1>6, <1>7, <1>8, <1>9, <1>10 DEF Next, ThreadStep
<1>12. logs'[p] = logs[p]
  BY <1>0, <1>4, <1>7, LogsStay
<1> QED BY <1>11, <1>12

\* A vote is new when its candidate's timeout has passed, or when the candidate's log
\* has been found to be up to date.
LEMMA NewVoted ==
    ASSUME Base, [Next]_vars, NEW p \in Server, NEW s \in Server, NEW t, Voted(p, s, t)'
    PROVE  \/ Voted(p, s, t)
           \/ ElectionTimeout(s) /\ p = s /\ t = curTerm[s] + 1
           \/ /\ CheckLogUptodate(p) /\ Serves(p) /\ voting[p].m.from = s /\ voting[p].m.term = t
              /\ UpToDate(voting[p].m.lastLogTerm, voting[p].m.lastLogIndex, logs[p])
<1>0. NetInv /\ DOMAIN voting = Server
  BY DEF Base, NetInv
<1>1. ASSUME UNCHANGED <<ballots, voting>> PROVE Voted(p, s, t)
  BY <1>1 DEF Voted
<1>2. ASSUME NEW q \in Server,
             \/ CallRequestVote(q) \/ SendAppendEntries(q) \/ ElectionDecided(q)
             \/ Heartbeat(q) \/ Kill(q) \/ Start(q)
      PROVE  UNCHANGED <<ballots, voting>>
  BY <1>2 DEF CallRequestVote, SendAppendEntries, ElectionDecided, Heartbeat, Kill, Start, historyVars, threadVars
<1>3. ASSUME NEW m \in DOMAIN net, VoteReply(m) \/ AppendEntries(m) \/ AppendReply(m)
      PROVE  UNCHANGED <<ballots, voting>>
  <2>1. CASE VoteReply(m)
    BY <2>1 DEF VoteReply
  <2>2. CASE AppendEntries(m)
    BY <2>2 DEF AppendEntries
  <2>3. CASE AppendReply(m)
    BY <2>3 DEF AppendReply
  <2> QED BY <1>3, <2>1, <2>2, <2>3
<1>4. ASSUME UNCHANGED vars PROVE UNCHANGED <<ballots, voting>>
  BY <1>4 DEF vars, threadVars, historyVars
<1>5. ASSUME NEW m \in DOMAIN net, RequestVote(m) PROVE Voted(p, s, t)
  <2>1. UNCHANGED ballots
    BY <1>5 DEF RequestVote, historyVars
  <2>2. UNCHANGED voting \/ \E w : voting' = [voting EXCEPT ![m.to] = [pc |-> "check", m |-> m, term |-> w]]
    BY <1>5 DEF RequestVote
  <2>3. voting'[p] = voting[p] \/ voting'[p].pc = "check"
    <3>1. CASE UNCHANGED voting
      BY <3>1
    <3>2. CASE ~UNCHANGED voting
      <4>1. PICK w : voting' = [voting EXCEPT ![m.to] = [pc |-> "check", m |-> m, term |-> w]]
        BY <2>2, <3>2
      <4>2. m.to \in Server
        BY <1>0 DEF NetInv, MessageOK
      <4> QED BY <1>0, <4>1, <4>2
    <3> QED BY <3>1, <3>2
  <2> QED BY <2>1, <2>3 DEF Voted
<1>6. ASSUME NEW q \in Server, Restart(q) PROVE Voted(p, s, t)
  <2>1. UNCHANGED ballots /\ voting' = [voting EXCEPT ![q] = NoVote]
    BY <1>6 DEF Restart
  <2>2. voting'[p] = voting[p] \/ voting'[p].pc = "idle"
    BY <1>0, <2>1 DEF NoVote
  <2> QED BY <2>1, <2>2 DEF Voted
<1>7. ASSUME NEW q \in Server, ElectionTimeout(q)
      PROVE  Voted(p, s, t) \/ (ElectionTimeout(s) /\ p = s /\ t = curTerm[s] + 1)
  <2>1. ballots' = ballots \cup {<<curTerm[q] + 1, q, q>>} /\ UNCHANGED voting
    BY <1>7 DEF ElectionTimeout
  <2> QED BY <1>7, <2>1 DEF Voted
<1>8. ASSUME NEW q \in Server, GrantVote(q) PROVE Voted(p, s, t)
  <2>1. /\ ballots' = ballots \cup {<<voting[q].m.term, q, voting[q].m.from>>}
        /\ voting' = [voting EXCEPT ![q] = NoVote] /\ voting[q].pc = "grant"
    BY <1>8 DEF GrantVote
  <2>2. voting'[p] = voting[p] \/ voting'[p].pc = "idle"
    BY <1>0, <2>1 DEF NoVote
  <2> QED BY <2>1, <2>2 DEF Voted
<1>9. ASSUME NEW q \in Server, CheckLogUptodate(q)
      PROVE  \/ Voted(p, s, t)
             \/ /\ CheckLogUptodate(p) /\ Serves(p) /\ voting[p].m.from = s /\ voting[p].m.term = t
                /\ UpToDate(voting[p].m.lastLogTerm, voting[p].m.lastLogIndex, logs[p])
  <2>1. UNCHANGED ballots /\ voting[q].pc = "check" /\ Serves(q)
    BY <1>9 DEF CheckLogUptodate, historyVars, Serves
  <2>2. CASE UpToDate(voting[q].m.lastLogTerm, voting[q].m.lastLogIndex, logs[q])
    <3>1. voting' = [voting EXCEPT ![q].pc = "grant"]
      BY <1>9, <2>2 DEF CheckLogUptodate
    <3>2. CASE p # q
      <4>1. voting'[p] = voting[p]
        BY <1>0, <3>1, <3>2
      <4> QED BY <2>1, <4>1 DEF Voted
    <3>3. CASE p = q
      <4>1. voting'[p].m = voting[p].m
        BY <1>0, <3>1, <3>3 DEF NetInv, VoteOK
      <4> QED BY <1>9, <2>1, <2>2, <3>3, <4>1 DEF Voted
    <3> QED BY <3>2, <3>3
  <2>3. CASE ~UpToDate(voting[q].m.lastLogTerm, voting[q].m.lastLogIndex, logs[q])
    <3>1. voting' = [voting EXCEPT ![q] = NoVote]
      BY <1>9, <2>3 DEF CheckLogUptodate
    <3>2. voting'[p] = voting[p] \/ voting'[p].pc = "idle"
      BY <1>0, <3>1 DEF NoVote
    <3> QED BY <2>1, <3>2 DEF Voted
  <2> QED BY <2>2, <2>3
<1> QED BY <1>1, <1>2, <1>3, <1>4, <1>5, <1>6, <1>7, <1>8, <1>9 DEF Next, ThreadStep

\* What callRequestVote reads for its call.
VoteAsked(s, m) ==
    /\ m.kind = "voteReq" /\ m.from = s /\ m.term = curTerm[s]
    /\ m.lastLogIndex = Len(logs[s]) /\ m.lastLogTerm = LastTerm(logs[s])

\* A request for a vote that comes into the net is made by a callRequestVote thread.
LEMMA NewRequest ==
    ASSUME [Next]_vars, NEW m \in DOMAIN net', m \notin DOMAIN net, m.kind = "voteReq"
    PROVE  \E s \in Server : CallRequestVote(s) /\ VoteAsked(s, m)
<1>1. ASSUME NEW s \in Server, CallRequestVote(s) PROVE VoteAsked(s, m)
  <2>1. PICK r : VoteAsked(s, r) /\ Send(r)
    <3>1. PICK r : r = [kind |-> "voteReq", from |-> s, to |-> Callee(s), term |-> curTerm[s],
             life |-> lives[s], lastLogIndex |-> Len(logs[s]), lastLogTerm |-> LastTerm(logs[s])]
      OBVIOUS
    <3>2. Send(r)
      BY <1>1, <3>1 DEF CallRequestVote
    <3> QED BY <3>1, <3>2 DEF VoteAsked
  <2> QED BY <2>1, SendWithin
<1>2. ASSUME NEW s \in Server, CheckLogUptodate(s) \/ GrantVote(s) PROVE FALSE
  <2>1. UNCHANGED net \/ \E r : r.kind = "voteRsp" /\ Send(r)
    BY <1>2 DEF CheckLogUptodate, GrantVote, VoteRsp
  <2> QED BY <2>1, SendWithin
<1>3. ASSUME NEW n \in DOMAIN net, RequestVote(n) PROVE FALSE
  <2>1. Receive(n) \/ \E r : r.kind = "voteRsp" /\ Answer(n, r)
    BY <1>3 DEF RequestVote, VoteRsp
  <2> QED BY <2>1, ReceiveWithin, AnswerWithin
<1>4. ASSUME NEW n \in DOMAIN net, VoteReply(n) \/ AppendReply(n) PROVE FALSE
  BY <1>4, ReceiveWithin DEF VoteReply, AppendReply
<1>5. ASSUME NEW s \in Server,
             ElectionTimeout(s) \/ ElectionDecided(s) \/ Heartbeat(s) \/ Start(s) \/ Kill(s) \/ Restart(s)
      PROVE  FALSE
  BY <1>5 DEF ElectionTimeout, ElectionDecided, Heartbeat, Start, Kill, Restart, threadVars
<1>6. CASE UNCHANGED vars
  BY <1>6 DEF vars, threadVars
<1>7. ASSUME NEW s \in Server, SendAppendEntries(s) PROVE FALSE
  BY <1>7, CallSent DEF EntriesSent
<1>8. ASSUME NEW n \in DOMAIN net, AppendEntries(n) PROVE FALSE
  BY <1>8, CallAnswered DEF EntriesAnswered
<1> QED BY <1>1, <1>2, <1>3, <1>4, <1>5, <1>6, <1>7, <1>8 DEF Next, ThreadStep

\* A request that is served was served before, or waited in the net.
LEMMA NewServed ==
    ASSUME NetInv, [Next]_vars, NEW p \in Server, Serves(p)'
    PROVE  voting'[p].m \in Pending
<1>0. DOMAIN voting = Server
  BY DEF NetInv
<1>1. ASSUME voting'[p] = voting[p] PROVE voting'[p].m \in Pending
  BY <1>1 DEF Serves, Pending
<1>2. ASSUME NEW q \in Server,
             \/ CallRequestVote(q) \/ SendAppendEntries(q) \/ ElectionDecided(q)
             \/ Heartbeat(q) \/ Kill(q) \/ Start(q) \/ ElectionTimeout(q)
      PROVE  UNCHANGED voting
  BY <1>2 DEF CallRequestVote, SendAppendEntries, ElectionDecided, Heartbeat, Kill, Start, ElectionTimeout,
     threadVars
<1>3. ASSUME NEW m \in DOMAIN net, VoteReply(m) \/ AppendEntries(m) \/ AppendReply(m)
      PROVE  UNCHANGED voting
  <2>1. CASE VoteReply(m)
    BY <2>1 DEF VoteReply
  <2>2. CASE AppendEntries(m)
    BY <2>2 DEF AppendEntries
  <2>3. CASE AppendReply(m)
    BY <2>3 DEF AppendReply
  <2> QED BY <1>3, <2>1, <2>2, <2>3
<1>4. ASSUME UNCHANGED vars PROVE UNCHANGED voting
  BY <1>4 DEF vars, threadVars
<1>5. ASSUME NEW m \in DOMAIN net, RequestVote(m) PROVE voting'[p].m \in Pending
  <2>1. UNCHANGED voting \/ \E w : voting' = [voting EXCEPT ![m.to] = [pc |-> "check", m |-> m, term |-> w]]
    BY <1>5 DEF RequestVote
  <2>2. CASE UNCHANGED voting
    BY <1>1, <2>2
  <2>3. ASSUME NEW w, voting' = [voting EXCEPT ![m.to] = [pc |-> "check", m |-> m, term |-> w]]
        PROVE  voting'[p] = voting[p] \/ voting'[p].m = m
    BY <1>0, <2>3
  <2> QED BY <1>1, <2>1, <2>2, <2>3 DEF Pending
<1>6. ASSUME NEW q \in Server, Restart(q) \/ GrantVote(q) PROVE voting'[p] = voting[p]
  <2>1. voting' = [voting EXCEPT ![q] = NoVote]
    BY <1>6 DEF Restart, GrantVote
  <2>2. p # q
    BY <1>0, <2>1 DEF NoVote, Serves
  <2> QED BY <1>0, <2>1, <2>2
<1>7. ASSUME NEW q \in Server, CheckLogUptodate(q) PROVE voting'[p].m \in Pending
  <2>1. voting' = [voting EXCEPT ![q].pc = "grant"] \/ voting' = [voting EXCEPT ![q] = NoVote]
    BY <1>7 DEF CheckLogUptodate
  <2>2. CASE p # q
    <3>1. voting'[p] = voting[p]
      BY <1>0, <2>1, <2>2
    <3> QED BY <1>1, <3>1
  <2>3. CASE p = q
    <3>1. Serves(p) /\ voting' = [voting EXCEPT ![q].pc = "grant"]
      BY <1>0, <1>7, <2>1, <2>3 DEF CheckLogUptodate, Serves, NoVote
    <3>2. voting'[p].m = voting[p].m
      BY <1>0, <2>3, <3>1 DEF NetInv, VoteOK
    <3> QED BY <3>1, <3>2 DEF Pending
  <2> QED BY <2>2, <2>3
<1> QED BY <1>1, <1>2, <1>3, <1>4, <1>5, <1>6, <1>7 DEF Next, ThreadStep

\* So the requests in progress are those there were, and what callRequestVote adds.
LEMMA NewAsks ==
    ASSUME NetInv, [Next]_vars, NEW m \in Asks'
    PROVE  m \in Asks \/ \E s \in Server : CallRequestVote(s) /\ VoteAsked(s, m)
<1>1. m.kind = "voteReq" /\ (m \in DOMAIN net' \/ \E p \in Server : Serves(p)' /\ m = voting'[p].m)
  BY DEF Asks, Pending
<1>2. CASE m \in DOMAIN net'
  BY <1>1, <1>2, NewRequest DEF Asks, Pending
<1>3. ASSUME NEW p \in Server, Serves(p)', m = voting'[p].m PROVE m \in Asks
  BY <1>1, <1>3, NewServed DEF Asks
<1> QED BY <1>1, <1>2, <1>3

-----------------------------------------------------------------------------
(* The logs that more than half of the servers have acknowledged.          *)

\* The terms in a log do not exceed its last one; a log is one of its last term, and the
\* log the leader of a term was elected with is of earlier terms.  What is acknowledged
\* is a log of the term, by a server that has been in the term.
PastOK(H, A, E) ==
    /\ E \in [Nat -> Seq(Entries)]
    /\ \A h \in H : \A i \in 1..Len(h) : h[i].term <= LastTerm(h)
    /\ \A h \in H : h # <<>> => OfTerm(E, LastTerm(h), h) /\ Len(E[LastTerm(h)]) < Len(h)
    /\ \A e \in elected : E[e[1]] \in H /\ LastTerm(E[e[1]]) <= e[1]
    /\ \A a \in A : /\ a.term \in Nat /\ a.by \in Server /\ a.log \in H /\ OfTerm(E, a.term, a.log)
                    /\ a.term <= curTerm[a.by] /\ \E s \in Server : <<a.term, s>> \in elected

\* The log of p is of no later term than p is in, and of that term if p leads it or has
\* entries of it; in the last case p leads the term or has acknowledged the log.
LogOK(A, E, p) ==
    /\ LastTerm(logs[p]) <= curTerm[p]
    /\ state[p] = "LEADER" => OfTerm(E, curTerm[p], logs[p])
    /\ logs[p] # <<>> /\ LastTerm(logs[p]) = curTerm[p] =>
           Acked(A, p, logs[p]) \/ <<curTerm[p], p>> \in elected

\* What a server has acknowledged stays in its log and gets into the logs of later
\* leaders, or it is lost.
KeptOK(H, A, E) ==
    \A h \in H : h # <<>> =>
        /\ \A p \in Server : Acked(A, p, h) => Begins(h, logs[p]) \/ Lost(A, h)
        /\ \A e \in elected : e[1] > LastTerm(h) => Begins(h, E[e[1]]) \/ Lost(A, h)

\* It is in the log of every candidate the server votes for: that log is as long, or of a
\* later term.  A candidate asks with the log it has.
VoteSafe(H, A) ==
    \A s, p \in Server : state[s] = "CANDIDATE" /\ Voted(p, s, curTerm[s]) =>
        \A h \in H : h # <<>> /\ LastTerm(h) < curTerm[s] /\ Acked(A, p, h) =>
            Begins(h, logs[s]) \/ Lost(A, h)
AsksOK ==
    /\ \A m \in Asks :
           /\ m.term <= curTerm[m.from]
           /\ state[m.from] = "CANDIDATE" /\ curTerm[m.from] = m.term =>
                  m.lastLogIndex = Len(logs[m.from]) /\ m.lastLogTerm = LastTerm(logs[m.from])
    /\ \A t \in Nat : \A p, c \in Server : <<t, p, c>> \in ballots => t <= curTerm[c]

\* The first c entries of log are those of a committed log of no later term than t.
CommitOK(H, A, c, log, t) ==
    c > 0 => /\ c <= Len(log)
             /\ \E h \in H : /\ Committed(A, h) /\ LastTerm(h) <= t /\ c <= Len(h)
                             /\ \A i \in 1..c : log[i] = h[i]

\* The entries sent are the end of a log of the leader, which the server they are sent to has
\* acknowledged a beginning of, if it has acknowledged anything in the term.
EntriesOK(H, A, E, m) ==
    \E f \in H : /\ Whole(m, f) /\ OfTerm(E, m.term, f) /\ CommitOK(H, A, m.leaderCommit, f, m.term)
                 /\ \A a \in A : a.term = m.term /\ a.by = m.to => Begins(a.log, f)

\* A leader counts what has been acknowledged in its term.
AckedUpTo(A, t, p, n) == \E a \in A : a.term = t /\ a.by = p /\ n <= Len(a.log)
AnswerOK(A, r) ==
    r.success /\ state[r.from] = "LEADER" => AckedUpTo(A, curTerm[r.from], r.to, r.prevLogIndex + r.sent)
CountOK(A, s) ==
    state[s] = "LEADER" =>
        \A p \in Server : matchIndex[s][p] > 0 => AckedUpTo(A, curTerm[s], p, matchIndex[s][p])

Trail(H, A, E) ==
    /\ PastOK(H, A, E) /\ KeptOK(H, A, E) /\ VoteSafe(H, A) /\ AsksOK
    /\ \A p \in Server : LogOK(A, E, p) /\ CountOK(A, p) /\ CommitOK(H, A, commitIndex[p], logs[p], curTerm[p])
    /\ \A m \in DOMAIN net : /\ m.kind = "appendReq" => EntriesOK(H, A, E, m)
                             /\ m.kind = "appendRsp" => AnswerOK(A, m)
TrailInv == AnswersTimely => \E H, A, E : Known(H) /\ Trail(H, A, E)

\* What else holds at any time.
Ground ==
    /\ Base /\ ElectInv /\ BallotInv /\ ElectedInv /\ ElectionSafety /\ LeadInv /\ DataInv /\ RangeInv

\* How the history of a step's end goes beyond that of its beginning: what is added to
\* the acknowledged logs is of the term the server has come to, and no new log is
\* acknowledged.
Grown(H, A, E, G, B, F) ==
    /\ H \subseteq G /\ A \subseteq B
    /\ \A a \in B : a \notin A => a.by \in Server /\ a.term = curTerm'[a.by] /\ a.log = logs'[a.by]
    /\ \A h \in G : h \notin H => \A p \in Server : ~Acked(B, p, h)
    /\ \A e \in elected : F[e[1]] = E[e[1]]

\* What is acknowledged or committed stays so, and what is lost stays lost.
LEMMA AckedStays ==
    ASSUME NEW A, NEW B, A \subseteq B, NEW h
    PROVE  /\ \A p : Acked(A, p, h) => Acked(B, p, h)
           /\ Committed(A, h) => Committed(B, h)
BY DEF Acked, Committed
LEMMA LostStays ==
    ASSUME NEW H, NEW A, NEW E, NEW G, NEW B, NEW F, Grown(H, A, E, G, B, F), NEW h \in Seq(Entries), Lost(A, h),
           \A p \in Server : curTerm[p] \in Nat /\ curTerm'[p] \in Nat /\ curTerm'[p] >= curTerm[p]
    PROVE  Lost(B, h)'
<1>1. PICK Q \in Majorities : \A q \in Q : curTerm[q] > LastTerm(h) /\ ~Acked(A, q, h)
  BY DEF Lost
<1>2. ASSUME NEW q \in Q PROVE curTerm'[q] > LastTerm(h) /\ ~Acked(B, q, h)
  <2>1. q \in Server /\ LastTerm(h) \in Nat /\ curTerm[q] > LastTerm(h)
    BY <1>1, LastTermNat DEF Majorities
  <2>2. ASSUME Acked(B, q, h) PROVE FALSE
    <3>1. PICK a \in B : a.term = LastTerm(h) /\ a.by = q /\ Begins(h, a.log)
      BY <2>2 DEF Acked
    <3>2. a \notin A
      BY <1>1, <3>1 DEF Acked
    <3>3. LastTerm(h) = curTerm'[q]
      BY <3>1, <3>2 DEF Grown
    <3> QED BY <2>1, <3>3
  <2> QED BY <2>1, <2>2
<1> QED BY <1>1, <1>2 DEF Lost

\* Commitments stay when the log agrees as far as they go.
LEMMA CommitStays ==
    ASSUME NEW H, NEW A, NEW G, NEW B, H \subseteq G, A \subseteq B, H \subseteq Seq(Entries), NEW c \in Nat,
           NEW log, NEW new, NEW t \in Nat, NEW u \in Nat, t <= u, CommitOK(H, A, c, log, t),
           c > 0 => c <= Len(new) /\ \A i \in 1..c : new[i] = log[i]
    PROVE  CommitOK(G, B, c, new, u)
<1> SUFFICES ASSUME c > 0
             PROVE  /\ c <= Len(new)
                    /\ \E h \in G : /\ Committed(B, h) /\ LastTerm(h) <= u /\ c <= Len(h)
                                    /\ \A i \in 1..c : new[i] = h[i]
  BY DEF CommitOK
<1>1. PICK h \in H : /\ Committed(A, h) /\ LastTerm(h) <= t /\ c <= Len(h)
                     /\ \A i \in 1..c : log[i] = h[i]
  BY DEF CommitOK
<1>2. LastTerm(h) \in Nat
  BY LastTermNat
<1>3. LastTerm(h) <= u
  BY <1>1, <1>2
<1>4. Committed(B, h)
  <2>1. Committed(A, h)
    BY <1>1
  <2> QED BY <2>1, AckedStays
<1> QED BY <1>1, <1>3, <1>4

\* Two committed logs agree: one begins the other.
LEMMA CommittedAgreeing ==
    ASSUME NEW H, NEW A, NEW E, History(H), PastOK(H, A, E), KeptOK(H, A, E),
           NEW g \in H, NEW h \in H, Committed(A, g), Committed(A, h)
    PROVE  Begins(g, h) \/ Begins(h, g)
<1>0. /\ g # <<>> /\ h # <<>> /\ g \in Seq(Entries) /\ h \in Seq(Entries) /\ ~Lost(A, g) /\ ~Lost(A, h)
      /\ Len(g) \in Nat /\ Len(h) \in Nat /\ LastTerm(g) \in Nat /\ LastTerm(h) \in Nat
      /\ E[LastTerm(g)] \in Seq(Entries) /\ E[LastTerm(h)] \in Seq(Entries)
  <2>1. g # <<>> /\ h # <<>> /\ g \in Seq(Entries) /\ h \in Seq(Entries) /\ E \in [Nat -> Seq(Entries)]
    BY DEF Committed, History, PastOK
  <2>2. ~Lost(A, g) /\ ~Lost(A, h)
    BY NotLost
  <2>3. LastTerm(g) \in Nat /\ LastTerm(h) \in Nat
    BY <2>1, LastTermNat
  <2>4. E[LastTerm(g)] \in Seq(Entries) /\ E[LastTerm(h)] \in Seq(Entries)
    BY <2>1, <2>3
  <2>5. Len(g) \in Nat /\ Len(h) \in Nat
    BY <2>1
  <2> QED BY <2>1, <2>2, <2>3, <2>4, <2>5
<1>1. OfTerm(E, LastTerm(g), g) /\ OfTerm(E, LastTerm(h), h)
  BY <1>0 DEF PastOK
<1>2. ASSUME NEW x \in H, NEW y \in H, x # <<>>, y # <<>>, ~Lost(A, x), LastTerm(x) < LastTerm(y),
             OfTerm(E, LastTerm(y), y), E[LastTerm(y)] \in Seq(Entries)
      PROVE  Begins(x, y)
  <2>1. PICK s \in Server : <<LastTerm(y), s>> \in elected
    BY <1>2 DEF History
  <2>2. x \in Seq(Entries) /\ y \in Seq(Entries)
    BY DEF History
  <2>3. LastTerm(y) > LastTerm(x)
    BY <1>2, <2>2, LastTermNat
  <2>4. Begins(x, E[LastTerm(y)])
    BY <1>2, <2>1, <2>3 DEF KeptOK
  <2> QED BY <1>2, <2>2, <2>4, BeginsTrans DEF OfTerm
<1>3. CASE LastTerm(g) = LastTerm(h)
  <2>1. CASE Len(g) <= Len(h)
    BY <1>0, <1>1, <1>3, <2>1, Comparable
  <2>2. CASE Len(h) <= Len(g)
    BY <1>0, <1>1, <1>3, <2>2, Comparable
  <2> QED BY <1>0, <2>1, <2>2
<1>4. CASE LastTerm(g) < LastTerm(h)
  BY <1>0, <1>1, <1>2, <1>4
<1>5. CASE LastTerm(h) < LastTerm(g)
  BY <1>0, <1>1, <1>2, <1>5
<1> QED BY <1>0, <1>3, <1>4, <1>5

-----------------------------------------------------------------------------
(* Votes.                                                                  *)

\* A log that checkLogUptodate finds to be up to date has what the server that looks at
\* it has acknowledged.
LEMMA UpToDateHas ==
    ASSUME NEW H, NEW A, NEW E, History(H), PastOK(H, A, E), KeptOK(H, A, E),
           NEW p \in Server, NEW s \in Server, logs[p] \in H, logs[s] \in H,
           UpToDate(LastTerm(logs[s]), Len(logs[s]), logs[p]),
           NEW h \in H, h # <<>>, Acked(A, p, h), ~Lost(A, h)
    PROVE  Begins(h, logs[s])
<1> DEFINE g == logs[p]
           q == logs[s]
           w == LastTerm(q)
<1>1. h \in Seq(Entries) /\ g \in Seq(Entries) /\ q \in Seq(Entries)
  BY DEF History
<1>2. Begins(h, g)
  BY DEF KeptOK
<1>3. /\ g # <<>> /\ Len(h) \in 1..Len(g) /\ LastTerm(h) = g[Len(h)].term /\ LastTerm(h) \in Nat
  <2> HIDE DEF g
  <2> QED BY <1>1, <1>2, BeginsLast
<1>4. LastTerm(h) <= LastTerm(g)
  BY <1>3 DEF PastOK
<1>5. LastTerm(g) \in Nat /\ w \in Nat /\ Len(g) \in Nat /\ Len(q) \in Nat /\ (w = 0 \/ q # <<>>)
  <2>1. LastTerm(g) \in Nat /\ w \in Nat
    <3> HIDE DEF g, q
    <3> QED BY <1>1, LastTermNat
  <2> QED BY <1>1, <2>1 DEF LastTerm
<1>6. w > LastTerm(g) \/ (w = LastTerm(g) /\ Len(q) >= Len(g))
  BY <1>3 DEF UpToDate
<1>7. q # <<>>
  <2>1. CASE w > LastTerm(g)
    BY <1>5, <2>1
  <2>2. CASE Len(q) >= Len(g)
    <3>1. Len(q) # 0
      BY <1>3, <1>5, <2>2
    <3> HIDE DEF q
    <3> QED BY <3>1
  <2> QED BY <1>6, <2>1, <2>2
<1>8. E[w] \in Seq(Entries) /\ OfTerm(E, w, q) /\ Begins(E[w], q)
  <2>1. E \in [Nat -> Seq(Entries)] /\ OfTerm(E, w, q)
    BY <1>7 DEF PastOK
  <2>2. E[w] \in Seq(Entries)
    <3> HIDE DEF w
    <3> QED BY <1>5, <2>1
  <2> QED BY <2>1, <2>2 DEF OfTerm
<1>9. CASE w > LastTerm(g)
  <2>1. PICK x \in Server : <<w, x>> \in elected
    BY <1>7 DEF History
  <2>2. w > LastTerm(h)
    <3> HIDE DEF w, g
    <3> QED BY <1>3, <1>4, <1>5, <1>9
  <2>3. Begins(h, E[w])
    BY <2>1, <2>2 DEF KeptOK
  <2> HIDE DEF q, w
  <2>4. Begins(h, q)
    BY <1>1, <1>8, <2>3, BeginsTrans
  <2> QED BY <2>4 DEF q
<1>10. CASE w = LastTerm(g) /\ Len(q) >= Len(g)
  <2>1. OfTerm(E, w, g)
    BY <1>3, <1>10 DEF PastOK
  <2>2. g \in H /\ q \in H /\ Len(g) <= Len(q)
    BY <1>5, <1>10
  <2> HIDE DEF g, q, w
  <2>3. Begins(g, q)
    BY <1>8, <2>1, <2>2, Comparable
  <2>4. Begins(h, q)
    BY <1>1, <1>2, <2>3, BeginsTrans
  <2> QED BY <2>4 DEF q
<1> QED BY <1>6, <1>9, <1>10

\* Every step leaves a candidate with the logs its voters have acknowledged.
LEMMA VoteNext ==
    ASSUME LateThreads = FALSE, MaxRestart = 0, Ground, Ground', VotesKept, VotesKept', [Next]_vars,
           NEW H, NEW A, NEW E, NEW G, NEW B, NEW F, Known(H), Trail(H, A, E), Grown(H, A, E, G, B, F)
    PROVE  VoteSafe(G, B)'
<1>0. /\ Base /\ Base' /\ NetInv /\ LogTypes /\ ElectedInv /\ ElectionSafety /\ LeadInv /\ History(H)
      /\ BallotInv' /\ PastOK(H, A, E) /\ KeptOK(H, A, E) /\ VoteSafe(H, A) /\ AsksOK
      /\ curTerm \in [Server -> Nat] /\ \A q \in Server : logs[q] \in H
  BY DEF Ground, Base, DataInv, Known, Trail, FieldsInv
<1>1. \A q \in Server : curTerm[q] \in Nat /\ curTerm'[q] \in Nat /\ curTerm'[q] >= curTerm[q]
  BY <1>0, TermsGrow
<1> SUFFICES ASSUME NEW s \in Server, NEW p \in Server, NEW t, t = curTerm'[s],
                    state'[s] = "CANDIDATE", Voted(p, s, t)',
                    NEW h \in G, h # <<>>, LastTerm(h) < t, Acked(B, p, h), ~Lost(B, h)'
             PROVE  Begins(h, logs'[s])
  BY DEF VoteSafe, Voted
<1>2. h \in H /\ h \in Seq(Entries) /\ LastTerm(h) \in Nat
  <2>1. h \in H /\ h \in Seq(Entries)
    BY <1>0 DEF Grown, History
  <2> QED BY <2>1, LastTermNat
<1>3. ~Lost(A, h)
  BY <1>1, <1>2, LostStays
<1>4. Acked(A, p, h)
  <2> SUFFICES ASSUME ~Acked(A, p, h) PROVE FALSE
    OBVIOUS
  <2>1. PICK a \in B : a.term = LastTerm(h) /\ a.by = p /\ Begins(h, a.log)
    BY DEF Acked
  <2>2. LastTerm(h) = curTerm'[p]
    BY <2>1 DEF Acked, Grown
  <2>3. VotesOK(p)'
    BY <1>0 DEF BallotInv
  <2>4. t <= curTerm'[p]
    <3>0. t \in Nat
      BY <1>1
    <3>1. CASE <<t, p, s>> \in ballots'
      BY <2>3, <3>0, <3>1 DEF VotesOK
    <3>2. CASE voting'[p].pc = "grant" /\ voting'[p].m.term = t
      BY <2>3, <3>2 DEF VotesOK, Serves
    <3> QED BY <3>1, <3>2 DEF Voted
  <2> QED BY <1>1, <1>2, <2>2, <2>4
<1>5. CASE ElectionTimeout(s)
  <2>1. UNCHANGED logs /\ t = curTerm[s] + 1
    BY <1>0, <1>5 DEF ElectionTimeout
  <2>2. ASSUME t \in Nat, t > curTerm[s] PROVE ~Voted(p, s, t)
    <3>1. <<t, p, s>> \notin ballots
      BY <1>0, <1>1, <2>2 DEF AsksOK
    <3>2. ASSUME voting[p].pc = "grant", voting[p].m.from = s, voting[p].m.term = t PROVE FALSE
      <4>1. voting[p].m \in Asks
        BY <1>0, <3>2 DEF Asks, Pending, Serves, NetInv, VoteOK
      <4> QED BY <1>0, <1>1, <2>2, <3>2, <4>1 DEF AsksOK
    <3> QED BY <3>1, <3>2 DEF Voted
  <2>3. ~(Serves(p) /\ voting[p].m.from = s /\ voting[p].m.term = t)
    <3> SUFFICES ASSUME Serves(p), voting[p].m.from = s, voting[p].m.term = t PROVE FALSE
      OBVIOUS
    <3>1. voting[p].m \in Asks
      BY <1>0 DEF Asks, Pending, NetInv, VoteOK
    <3> QED BY <1>0, <1>1, <2>1, <3>1 DEF AsksOK
  <2>4. ~Voted(p, s, t)
    BY <1>1, <2>1, <2>2
  <2>5. p = s
    BY <1>0, <2>3, <2>4, NewVoted
  <2> QED BY <1>0, <1>2, <1>3, <1>4, <2>1, <2>5 DEF KeptOK
<1>6. CASE ~ElectionTimeout(s)
  <2>1. state[s] = "CANDIDATE" /\ t = curTerm[s] /\ logs'[s] = logs[s]
    BY <1>0, <1>6, StillAsks
  <2>2. CASE Voted(p, s, t)
    BY <1>0, <1>2, <1>3, <1>4, <2>1, <2>2 DEF VoteSafe
  <2>3. CASE ~Voted(p, s, t)
    <3>1. /\ Serves(p) /\ voting[p].m.from = s /\ voting[p].m.term = t
          /\ UpToDate(voting[p].m.lastLogTerm, voting[p].m.lastLogIndex, logs[p])
      BY <1>0, <1>6, <2>1, <2>3, NewVoted
    <3>2. voting[p].m \in Asks
      BY <1>0, <3>1 DEF Asks, Pending, NetInv, VoteOK
    <3>3. voting[p].m.lastLogIndex = Len(logs[s]) /\ voting[p].m.lastLogTerm = LastTerm(logs[s])
      BY <1>0, <2>1, <3>1, <3>2 DEF AsksOK
    <3>4. Begins(h, logs[s])
      BY <1>0, <1>2, <1>3, <1>4, <3>1, <3>3, UpToDateHas
    <3> QED BY <2>1, <3>4
  <2> QED BY <2>2, <2>3
<1> QED BY <1>5, <1>6

\* A candidate asks for votes with the log it has.
LEMMA AsksNext ==
    ASSUME LateThreads = FALSE, MaxRestart = 0, Ground, Ground', VotesKept, VotesKept', [Next]_vars, AsksOK
    PROVE  AsksOK'
<1>0. /\ Base /\ Base' /\ NetInv /\ LogTypes /\ ElectedInv /\ ElectionSafety /\ LeadInv
      /\ curTerm \in [Server -> Nat]
  BY DEF Ground, Base, DataInv, FieldsInv
<1>1. \A q \in Server : curTerm[q] \in Nat /\ curTerm'[q] \in Nat /\ curTerm'[q] >= curTerm[q]
  BY <1>0, TermsGrow
<1>2. \A m \in Asks : m.from \in Server /\ m.term \in Nat
  BY <1>0 DEF Asks, Pending, NetInv, MessageOK, VoteOK
<1>3. \A p \in Server : Serves(p) => voting[p].m \in Asks
  BY <1>0 DEF Asks, Pending, NetInv, VoteOK
<1>4. ASSUME NEW m \in Asks'
      PROVE  /\ m.term <= curTerm'[m.from]
             /\ state'[m.from] = "CANDIDATE" /\ curTerm'[m.from] = m.term =>
                  m.lastLogIndex = Len(logs'[m.from]) /\ m.lastLogTerm = LastTerm(logs'[m.from])
  <2>1. CASE \E s \in Server : CallRequestVote(s) /\ VoteAsked(s, m)
    <3>1. PICK s \in Server : CallRequestVote(s) /\ VoteAsked(s, m)
      BY <2>1
    <3>2. UNCHANGED <<state, curTerm, logs>>
      BY <3>1 DEF CallRequestVote, raftVars
    <3> QED BY <1>1, <3>1, <3>2 DEF VoteAsked
  <2>2. CASE m \in Asks
    <3>1. PICK s \in Server : s = m.from
      BY <1>2, <2>2
    <3>2. m.term \in Nat /\ m.term <= curTerm[s]
      BY <1>2, <2>2, <3>1 DEF AsksOK
    <3>3. m.term <= curTerm'[s]
      BY <1>1, <3>2
    <3>4. ASSUME state'[s] = "CANDIDATE", curTerm'[s] = m.term
          PROVE  m.lastLogIndex = Len(logs'[s]) /\ m.lastLogTerm = LastTerm(logs'[s])
      <4>1. ~ElectionTimeout(s)
        <5>1. ASSUME ElectionTimeout(s) PROVE curTerm'[s] = curTerm[s] + 1
          BY <1>0, <5>1 DEF ElectionTimeout
        <5> QED BY <1>1, <3>2, <3>4, <5>1
      <4>2. state[s] = "CANDIDATE" /\ curTerm'[s] = curTerm[s] /\ logs'[s] = logs[s]
        BY <1>0, <3>4, <4>1, StillAsks
      <4>3. m.lastLogIndex = Len(logs[s]) /\ m.lastLogTerm = LastTerm(logs[s])
        BY <2>2, <3>1, <3>4, <4>2 DEF AsksOK
      <4> QED BY <4>2, <4>3
    <3> QED BY <3>1, <3>3, <3>4
  <2> QED BY <1>0, <2>1, <2>2, NewAsks
<1>5. ASSUME NEW t \in Nat, NEW p \in Server, NEW c \in Server, <<t, p, c>> \in ballots' PROVE t <= curTerm'[c]
  <2>1. Voted(p, c, t)'
    BY <1>5 DEF Voted
  <2>2. CASE Voted(p, c, t)
    <3>1. t <= curTerm[c]
      <4>1. CASE <<t, p, c>> \in ballots
        BY <4>1 DEF AsksOK
      <4>2. CASE voting[p].pc = "grant" /\ voting[p].m.from = c /\ voting[p].m.term = t
        BY <1>3, <4>2 DEF AsksOK, Serves
      <4> QED BY <2>2, <4>1, <4>2 DEF Voted
    <3> QED BY <1>1, <3>1
  <2>3. CASE ElectionTimeout(c) /\ t = curTerm[c] + 1
    <3>1. curTerm'[c] = curTerm[c] + 1
      BY <1>0, <2>3 DEF ElectionTimeout
    <3> QED BY <1>1, <2>3, <3>1
  <2>4. CASE Serves(p) /\ voting[p].m.from = c /\ voting[p].m.term = t
    <3>1. t <= curTerm[c]
      BY <1>3, <2>4 DEF AsksOK
    <3> QED BY <1>1, <3>1
  <2> QED BY <1>0, <2>1, <2>2, <2>3, <2>4, NewVoted
<1> QED BY <1>4, <1>5 DEF AsksOK

-----------------------------------------------------------------------------
(* The steps that add to the history.                                      *)

\* electionLoop makes s the leader.
Wins(s) == ElectionDecided(s) /\ state[s] = "CANDIDATE" /\ recvVotes[s] > Majority
\* appendEntries takes what m carries.
Takes(m) ==
    AppendEntries(m) /\ ~(m.term < curTerm[m.to]) /\ ~TooShort(logs[m.to], m) /\ ~Mismatch(logs[m.to], m)
Ack(m) == [term |-> m.term, by |-> m.to, log |-> logs'[m.to]]

\* A command makes a new log, an election sets the log of its term, and entries taken
\* are acknowledged.
Told(H, A, E, G, B, F) ==
    \/ \E s \in Server : Start(s) /\ G = H \cup {logs'[s]} /\ B = A /\ F = E
    \/ \E s \in Server : Wins(s) /\ G = H /\ B = A /\ F = [E EXCEPT ![curTerm[s]] = logs[s]]
    \/ \E m \in DOMAIN net : Takes(m) /\ G = H /\ B = A \cup {Ack(m)} /\ F = E
    \/ G = H /\ B = A /\ F = E /\ UNCHANGED <<logs, elected>> /\ \A m \in DOMAIN net : ~Takes(m)

\* Every step has such a continuation of the history.
LEMMA ElectedWins ==
    ASSUME [Next]_vars
    PROVE  UNCHANGED elected \/ \E s \in Server : Wins(s)
<1>1. ASSUME NEW s \in Server,
             \/ CallRequestVote(s) \/ SendAppendEntries(s) \/ CheckLogUptodate(s) \/ GrantVote(s)
             \/ ElectionTimeout(s) \/ Heartbeat(s) \/ Start(s) \/ Kill(s) \/ Restart(s)
      PROVE  UNCHANGED elected
  BY <1>1 DEF CallRequestVote, SendAppendEntries, CheckLogUptodate, GrantVote, ElectionTimeout,
     Heartbeat, Start, Kill, Restart, historyVars
<1>2. ASSUME NEW s \in Server, ElectionDecided(s) PROVE UNCHANGED elected \/ Wins(s)
  BY <1>2 DEF ElectionDecided, Wins
<1>3. ASSUME NEW m \in DOMAIN net, RequestVote(m) \/ VoteReply(m) \/ AppendEntries(m) \/ AppendReply(m)
      PROVE  UNCHANGED elected
  <2>1. CASE RequestVote(m) \/ AppendReply(m)
    BY <2>1 DEF RequestVote, AppendReply, historyVars
  <2>2. CASE VoteReply(m)
    BY <2>2 DEF VoteReply
  <2>3. CASE AppendEntries(m)
    BY <2>3 DEF AppendEntries
  <2> QED BY <1>3, <2>1, <2>2, <2>3
<1>4. ASSUME UNCHANGED vars PROVE UNCHANGED elected
  BY <1>4 DEF vars, historyVars
<1> QED BY <1>1, <1>2, <1>3, <1>4 DEF Next, ThreadStep

LEMMA HistoryTold ==
    ASSUME LateThreads = FALSE, MaxRestart = 0, Ground, Ground', LogsChecked, LogsChecked', [Next]_vars,
           NEW H, NEW A, NEW E, Known(H)
    PROVE  \E G, B, F : Known(G)' /\ Told(H, A, E, G, B, F)
<1>0. /\ Base /\ ElectedInv /\ ElectionSafety /\ ElectionSafety' /\ LeadInv /\ LogTypes /\ FieldsInv /\ VotesKept'
  BY DEF Ground, Base, DataInv, LogsChecked
<1>1. PICK G : (G = H \/ \E s \in Server : Start(s) /\ G = H \cup {logs'[s]}) /\ Known(G)'
  BY <1>0, KnownNext
<1>2. CASE \E s \in Server : Start(s)
  <2>1. PICK s \in Server : Start(s) /\ G = H \cup {logs'[s]}
    <3>1. CASE G = H
      <4>1. PICK s \in Server : Start(s)
        BY <1>2
      <4>2. logs'[s] \in H
        BY <1>1, <3>1 DEF Known
      <4> QED BY <3>1, <4>1, <4>2
    <3> QED BY <1>1, <3>1
  <2> QED BY <1>1, <2>1 DEF Told
<1>3. CASE G = H /\ \E s \in Server : Wins(s)
  <2>1. PICK s \in Server : Wins(s)
    BY <1>3
  <2>2. PICK F : F = [E EXCEPT ![curTerm[s]] = logs[s]]
    OBVIOUS
  <2> QED BY <1>1, <1>3, <2>1, <2>2 DEF Told
<1>4. CASE G = H /\ \E m \in DOMAIN net : Takes(m)
  <2>1. PICK m \in DOMAIN net : Takes(m)
    BY <1>4
  <2>2. PICK B : B = A \cup {Ack(m)}
    OBVIOUS
  <2> QED BY <1>1, <1>4, <2>1, <2>2 DEF Told
<1>5. CASE /\ G = H /\ ~\E s \in Server : Start(s) \/ Wins(s)
           /\ ~\E m \in DOMAIN net : Takes(m)
  <2>1. UNCHANGED elected
    BY <1>5, ElectedWins
  <2>2. UNCHANGED logs
    <3>1. ASSUME NEW m \in DOMAIN net, AppendEntries(m) PROVE UNCHANGED logs
      <4>1. m.term < curTerm[m.to] \/ TooShort(logs[m.to], m) \/ Mismatch(logs[m.to], m)
        BY <1>5, <3>1 DEF Takes
      <4>2. CASE m.term < curTerm[m.to]
        BY <3>1, <4>2 DEF AppendEntries, raftVars
      <4>3. CASE ~(m.term < curTerm[m.to])
        BY <3>1, <4>1, <4>3 DEF AppendEntries
      <4> QED BY <4>2, <4>3
    <3> QED BY <1>0, <1>5, <3>1, LogsStay
  <2> QED BY <1>1, <1>5, <2>1, <2>2 DEF Told
<1> QED BY <1>1, <1>2, <1>3, <1>4, <1>5

\* What start() does: n is the log of s with one more entry, of the term s leads.
Started(s, n) ==
    /\ logs' = [logs EXCEPT ![s] = n] /\ n \in Seq(Entries) /\ n # <<>> /\ Len(n) = Len(logs[s]) + 1
    /\ LastTerm(n) = curTerm[s] /\ Begins(logs[s], n) /\ n[Len(n)].term = curTerm[s]
    /\ state[s] = "LEADER" /\ <<curTerm[s], s>> \in elected
    /\ UNCHANGED <<state, curTerm, elected, ballots, commitIndex, matchIndex, net>>
LEMMA StartTold ==
    ASSUME Ground, VotesKept, NEW s \in Server, Start(s)
    PROVE  \E n : n = logs'[s] /\ Started(s, n)
<1>1. FieldsInv /\ LogTypes /\ logs[s] \in Seq(Entries) /\ DOMAIN logs = Server /\ LeaderOK(s)
  BY DEF Ground, Base, DataInv, LogTypes, LeadInv
<1>2. PICK e \in Entries : e.term = curTerm[s] /\ logs' = [logs EXCEPT ![s] = Append(logs[s], e)]
  BY <1>1, LogStarted
<1>3. PICK n : n = Append(logs[s], e)
  OBVIOUS
<1>4. logs' = [logs EXCEPT ![s] = n] /\ logs'[s] = n
  BY <1>1, <1>2, <1>3
<1>5. /\ n \in Seq(Entries) /\ Len(n) = Len(logs[s]) + 1 /\ n[Len(n)] = e /\ Len(logs[s]) \in Nat
      /\ \A i \in 1..Len(logs[s]) : n[i] = logs[s][i]
  BY <1>1, <1>3, AppendProperties
<1>6. n # <<>>
  BY <1>5
<1>7. LastTerm(n) = curTerm[s]
  BY <1>2, <1>5, <1>6 DEF LastTerm
<1>8. Begins(logs[s], n)
  BY <1>5 DEF Begins
<1>9. /\ state[s] = "LEADER"
      /\ UNCHANGED <<state, curTerm, elected, ballots, commitIndex, matchIndex, net>>
  BY DEF Start, leaderVars, threadVars
<1>10. <<curTerm[s], s>> \in elected
  BY <1>1, <1>9 DEF LeaderOK
<1> QED BY <1>2, <1>4, <1>5, <1>6, <1>7, <1>8, <1>9, <1>10 DEF Started

\* What electionLoop does when s becomes the leader: nobody led the term before, and
\* s has no call in progress that carries entries.
Won(s) ==
    /\ \A p \in Server : <<curTerm[s], p>> \notin elected
    /\ elected' = elected \cup {<<curTerm[s], s>>} /\ state' = [state EXCEPT ![s] = "LEADER"]
    /\ \A p \in Server : matchIndex'[s][p] = 0
    /\ EntryCalls(s) = {} /\ state[s] = "CANDIDATE"
    /\ UNCHANGED <<curTerm, logs, ballots, voting, commitIndex, net>>
LEMMA WinsTold ==
    ASSUME Ground, Ground', VotesKept, VotesKept', NEW s \in Server, Wins(s)
    PROVE  Won(s)
<1>1. /\ FieldsInv /\ NetInv /\ ElectInv /\ LeaderOK(s) /\ ElectionSafety' /\ DOMAIN matchIndex = Server
      /\ ElectedInv /\ curTerm[s] \in Nat /\ restarts = 0
  BY DEF Ground, Base, DataInv, LeadInv, FieldsInv, RangeInv
<1>2. /\ elected' = elected \cup {<<curTerm[s], s>>} /\ state' = [state EXCEPT ![s] = "LEADER"]
      /\ matchIndex' = [matchIndex EXCEPT ![s] = [p \in Server |-> 0]]
      /\ state[s] = "CANDIDATE" /\ electing[s]
      /\ UNCHANGED <<curTerm, logs, ballots, voting, commitIndex, net>>
  BY DEF Wins, ElectionDecided
<1>3. ASSUME NEW p \in Server, <<curTerm[s], p>> \in elected PROVE FALSE
  <2>1. PICK e : e = <<curTerm[s], p>>
    OBVIOUS
  <2>2. PICK f : f = <<curTerm[s], s>>
    OBVIOUS
  <2>3. e \in elected' /\ f \in elected' /\ e[1] = f[1]
    BY <1>2, <1>3, <2>1, <2>2
  <2>4. e = f
    BY <1>1, <2>3 DEF ElectionSafety
  <2> QED BY <1>1, <1>2, <1>3, <2>1, <2>2, <2>4 DEF LeaderOK
<1>4. \A p \in Server : matchIndex'[s][p] = 0
  BY <1>1, <1>2
<1>5. ASSUME NEW m \in EntryCalls(s) PROVE FALSE
  <2>1. m \in DOMAIN net /\ m.from = s /\ m.kind \in AppendKinds
    BY <1>5 DEF EntryCalls
  <2>2. m.life = 0 /\ lives[s] = 0
    BY <1>1, <2>1 DEF NetInv, MessageOK, FieldsInv
  <2>3. m \in OwnCalls(s)
    BY <2>1, <2>2 DEF OwnCalls, Pending
  <2>4. m.kind \in VoteKinds
    BY <1>1, <1>2, <2>3 DEF ElectInv, ElectOK
  <2> QED BY <2>1, <2>4 DEF VoteKinds, AppendKinds
<1> QED BY <1>2, <1>3, <1>4, <1>5 DEF Won

\* What appendEntries does when it takes the entries of m: the server is left with a log
\* f of the leader, all of which it has got.
Taken(H, A, E, m, f) ==
    /\ f \in H /\ f \in Seq(Entries) /\ OfTerm(E, m.term, f) /\ CommitOK(H, A, m.leaderCommit, f, m.term)
    /\ Len(f) = m.prevLogIndex + Len(m.sendLogs)
    /\ \A a \in A : a.term = m.term /\ a.by = m.to => Begins(a.log, f)
    /\ m.term \in Nat /\ m.to \in Server /\ m.from \in Server /\ m.leaderCommit \in Nat
    /\ m.from # m.to /\ <<m.term, m.from>> \in elected
    /\ curTerm[m.to] <= m.term /\ m.kind = "appendReq" /\ m \notin DOMAIN net'
    /\ logs' = [logs EXCEPT ![m.to] = f] /\ curTerm' = [curTerm EXCEPT ![m.to] = m.term]
    /\ state' = [state EXCEPT ![m.to] = "FOLLOWER"]
    /\ commitIndex' = [commitIndex EXCEPT ![m.to] = CommitAfter(commitIndex[m.to], m, f)]
    /\ UNCHANGED <<elected, ballots, matchIndex>>
LEMMA TakesTold ==
    ASSUME Ground, LogsChecked, LogsChecked', NEW H, NEW A, NEW E, Known(H), Trail(H, A, E),
           NEW m \in DOMAIN net, Takes(m)
    PROVE  \E f : Taken(H, A, E, m, f)
<1>0. /\ FieldsInv /\ NetInv /\ LogTypes /\ History(H) /\ m.kind = "appendReq" /\ AppendEntries(m)
      /\ ~(m.term < curTerm[m.to]) /\ ~TooShort(logs[m.to], m) /\ ~Mismatch(logs[m.to], m)
      /\ VotesKept /\ LeadInv
  BY DEF Ground, Base, DataInv, Known, Takes, AppendEntries, LogsChecked
<1>1. /\ m.to \in Server /\ m.from \in Server /\ m.term \in Nat /\ curTerm[m.to] \in Nat
      /\ m.from # m.to /\ <<m.term, m.from>> \in elected /\ m.leaderCommit \in Nat /\ RequestOK(m)
      /\ logs[m.to] \in H
  BY <1>0 DEF FieldsInv, NetInv, MessageOK, LeadInv, Ground, DataInv, LogTypes, Known
<1>2. PICK f \in H : /\ Whole(m, f) /\ OfTerm(E, m.term, f) /\ CommitOK(H, A, m.leaderCommit, f, m.term)
                     /\ \A a \in A : a.term = m.term /\ a.by = m.to => Begins(a.log, f)
  BY <1>0 DEF Trail, EntriesOK
<1>3. logs[m.to] = <<>> => m.prevLogIndex = 0
  <2>1. slips' = slips \cup AppendSlips(m.to, m)
    BY <1>0 DEF AppendEntries
  <2>2. "unchecked" \notin AppendSlips(m.to, m)
    BY <2>1 DEF LogsChecked
  <2> QED BY <1>0, <1>1, <2>2 DEF AppendSlips
<1>4. Synced(logs[m.to], m) = f
  BY <1>0, <1>1, <1>2, <1>3, SyncedWhole
<1>5. /\ logs' = [logs EXCEPT ![m.to] = f] /\ curTerm' = [curTerm EXCEPT ![m.to] = m.term]
      /\ state' = [state EXCEPT ![m.to] = "FOLLOWER"]
      /\ commitIndex' = [commitIndex EXCEPT ![m.to] = CommitAfter(commitIndex[m.to], m, f)]
      /\ UNCHANGED <<elected, ballots, matchIndex>>
  BY <1>0, <1>4 DEF AppendEntries
<1>6. m \notin DOMAIN net'
  <2>1. PICK r : Answer(m, r) /\ r.kind = "appendRsp"
    BY <1>0 DEF AppendEntries, AppendRsp
  <2>2. Single(net) /\ m # r
    BY <1>0, <2>1 DEF NetInv
  <2>3. DOMAIN BagRemove(net, m) = DOMAIN net \ {m}
    BY <2>2, RemoveOne
  <2>4. DOMAIN net' = DOMAIN BagRemove(net, m) \cup {r}
    BY <2>1 DEF Answer, BagAdd
  <2> QED BY <2>2, <2>3, <2>4
<1>7. f \in Seq(Entries) /\ Len(f) = m.prevLogIndex + Len(m.sendLogs) /\ curTerm[m.to] <= m.term
  BY <1>0, <1>1, <1>2 DEF History, Whole
<1> QED BY <1>0, <1>1, <1>2, <1>5, <1>6, <1>7 DEF Taken

-----------------------------------------------------------------------------
(* What every step keeps.                                                  *)

Moves(H, A, E, G, B, F) ==
    /\ Ground /\ Ground' /\ AnswersTimely /\ AnswersTimely' /\ [Next]_vars
    /\ Known(H) /\ Known(G)' /\ Trail(H, A, E) /\ Told(H, A, E, G, B, F)

\* What the lemmas below start from.
LEMMA MovesFrom ==
    ASSUME LateThreads = FALSE, MaxRestart = 0,
           NEW H, NEW A, NEW E, NEW G, NEW B, NEW F, Moves(H, A, E, G, B, F)
    PROVE  /\ Base /\ Base' /\ FieldsInv /\ NetInv /\ NetInv' /\ LogTypes /\ LogTypes'
           /\ ElectedInv /\ ElectedInv' /\ ElectionSafety /\ LeadInv /\ BallotInv /\ BallotInv'
           /\ VotesKept /\ VotesKept' /\ LogsChecked /\ LogsChecked' /\ [Next]_vars
           /\ History(H) /\ History(G)' /\ PastOK(H, A, E) /\ KeptOK(H, A, E)
           /\ elected \subseteq Nat \X Server /\ elected \subseteq elected'
           /\ E \in [Nat -> Seq(Entries)]
           /\ \A s \in Server : /\ curTerm[s] \in Nat /\ curTerm'[s] \in Nat /\ curTerm'[s] >= curTerm[s]
                                /\ logs[s] \in H /\ logs[s] \in Seq(Entries) /\ Len(logs[s]) \in Nat
                                /\ LeaderOK(s) /\ LogOK(A, E, s)
<1>1. /\ Base /\ Base' /\ FieldsInv /\ NetInv /\ NetInv' /\ LogTypes /\ LogTypes'
      /\ ElectedInv /\ ElectedInv' /\ ElectionSafety /\ LeadInv /\ BallotInv /\ BallotInv'
      /\ VotesKept /\ VotesKept' /\ LogsChecked /\ LogsChecked' /\ [Next]_vars
      /\ History(H) /\ History(G)' /\ PastOK(H, A, E) /\ KeptOK(H, A, E)
      /\ elected \subseteq Nat \X Server /\ E \in [Nat -> Seq(Entries)]
  BY DEF Moves, Ground, Base, DataInv, AnswersTimely, LogsChecked, Known, Trail, ElectedInv, PastOK
<1>2. \A s \in Server : logs[s] \in H /\ LogOK(A, E, s)
  BY DEF Moves, Known, Trail
<1>3. \A s \in Server : logs[s] \in Seq(Entries) /\ Len(logs[s]) \in Nat
  BY <1>1 DEF LogTypes
<1>4. \A s \in Server : LeaderOK(s)
  BY <1>1 DEF LeadInv
<1>5. \A s \in Server : curTerm[s] \in Nat /\ curTerm'[s] \in Nat /\ curTerm'[s] >= curTerm[s]
  BY <1>1, TermsGrow
<1>6. elected \subseteq elected'
  BY <1>1, ElectedGrows
<1> QED BY <1>1, <1>2, <1>3, <1>4, <1>5, <1>6

\* What each kind of step does.
StartMove(H, A, E, G, B, F, s, n) == Start(s) /\ Started(s, n) /\ G = H \cup {n} /\ B = A /\ F = E
WinMove(H, A, E, G, B, F, s) == Won(s) /\ G = H /\ B = A /\ F = [E EXCEPT ![curTerm[s]] = logs[s]]
TakeMove(H, A, E, G, B, F, m, f) ==
    /\ AppendEntries(m) /\ Taken(H, A, E, m, f) /\ G = H /\ F = E
    /\ B = A \cup {[term |-> m.term, by |-> m.to, log |-> f]}
StillMove(H, A, E, G, B, F) ==
    G = H /\ B = A /\ F = E /\ UNCHANGED <<logs, elected>> /\ \A m \in DOMAIN net : ~Takes(m)
LEMMA MovesBy ==
    ASSUME LateThreads = FALSE, MaxRestart = 0,
           NEW H, NEW A, NEW E, NEW G, NEW B, NEW F, Moves(H, A, E, G, B, F)
    PROVE  \/ \E s \in Server : \E n : StartMove(H, A, E, G, B, F, s, n)
           \/ \E s \in Server : WinMove(H, A, E, G, B, F, s)
           \/ \E m \in DOMAIN net : \E f : TakeMove(H, A, E, G, B, F, m, f)
           \/ StillMove(H, A, E, G, B, F)
<1>1. VotesKept /\ VotesKept' /\ LogsChecked /\ LogsChecked' /\ LogTypes
  BY MovesFrom
<1>2. Ground /\ Ground' /\ Known(H) /\ Trail(H, A, E) /\ Told(H, A, E, G, B, F)
  BY DEF Moves
<1>3. ASSUME NEW s \in Server, Start(s), G = H \cup {logs'[s]}, B = A, F = E
      PROVE  \E n : StartMove(H, A, E, G, B, F, s, n)
  <2>1. PICK n : n = logs'[s] /\ Started(s, n)
    BY <1>1, <1>2, <1>3, StartTold
  <2>2. StartMove(H, A, E, G, B, F, s, n)
    BY <1>3, <2>1 DEF StartMove
  <2> QED BY <2>2
<1>4. ASSUME NEW s \in Server, Wins(s), G = H, B = A, F = [E EXCEPT ![curTerm[s]] = logs[s]]
      PROVE  WinMove(H, A, E, G, B, F, s)
  <2>1. Won(s)
    BY <1>1, <1>2, <1>4, WinsTold
  <2> QED BY <1>4, <2>1 DEF WinMove
<1>5. ASSUME NEW m \in DOMAIN net, Takes(m), G = H, B = A \cup {Ack(m)}, F = E
      PROVE  \E f : TakeMove(H, A, E, G, B, F, m, f)
  <2>1. PICK f : Taken(H, A, E, m, f)
    BY <1>1, <1>2, <1>5, TakesTold
  <2>2. logs'[m.to] = f
    <3>1. logs' = [logs EXCEPT ![m.to] = f] /\ m.to \in Server /\ DOMAIN logs = Server
      BY <1>1, <2>1 DEF Taken, LogTypes
    <3> QED BY <3>1
  <2>3. TakeMove(H, A, E, G, B, F, m, f)
    BY <1>5, <2>1, <2>2 DEF Ack, Takes, TakeMove
  <2> QED BY <2>3
<1>6. CASE G = H /\ B = A /\ F = E /\ UNCHANGED <<logs, elected>> /\ \A m \in DOMAIN net : ~Takes(m)
  BY <1>6 DEF StillMove
<1> QED BY <1>2, <1>3, <1>4, <1>5, <1>6 DEF Told

\* Such a continuation adds nothing that would change what is acknowledged of the logs
\* there have been.
LEMMA ToldGrows ==
    ASSUME LateThreads = FALSE, MaxRestart = 0,
           NEW H, NEW A, NEW E, NEW G, NEW B, NEW F, Moves(H, A, E, G, B, F)
    PROVE  Grown(H, A, E, G, B, F)
<1>0. /\ FieldsInv /\ LogTypes /\ History(H) /\ PastOK(H, A, E) /\ elected \subseteq Nat \X Server
      /\ E \in [Nat -> Seq(Entries)]
      /\ \A s \in Server : /\ curTerm[s] \in Nat /\ logs[s] \in H /\ Len(logs[s]) \in Nat
                           /\ LogOK(A, E, s)
  BY MovesFrom
<1>1. ASSUME NEW s \in Server, NEW n, StartMove(H, A, E, G, B, F, s, n)
      PROVE  Grown(H, A, E, G, B, F)
  <2>0. Started(s, n) /\ G = H \cup {n} /\ B = A /\ F = E
    BY <1>1 DEF StartMove
  <2>1. ASSUME NEW p \in Server, Acked(A, p, n) PROVE FALSE
    <3>1. PICK a \in A : a.term = curTerm[s] /\ Begins(n, a.log)
      BY <2>0, <2>1 DEF Acked, Started
    <3>2. a.log \in H /\ OfTerm(E, curTerm[s], a.log)
      BY <1>0, <3>1 DEF PastOK
    <3>3. OfTerm(E, curTerm[s], logs[s]) /\ state[s] = "LEADER"
      BY <1>0, <2>0 DEF Started, LogOK
    <3>4. LastTerm(E[curTerm[s]]) <= curTerm[s] /\ E[curTerm[s]] \in Seq(Entries)
      <4>1. PICK e : e = <<curTerm[s], s>>
        OBVIOUS
      <4>2. e \in elected /\ e[1] = curTerm[s]
        BY <2>0, <4>1 DEF Started
      <4> QED BY <1>0, <4>2 DEF PastOK
    <3>5. Begins(a.log, logs[s])
      BY <1>0, <3>2, <3>3, <3>4, LeaderBegins
    <3>6. Len(n) <= Len(a.log) /\ Len(a.log) <= Len(logs[s]) /\ Len(n) = Len(logs[s]) + 1
      BY <2>0, <3>1, <3>5 DEF Begins, Started
    <3>7. Len(a.log) \in Nat /\ Len(logs[s]) \in Nat
      BY <1>0, <3>2 DEF History
    <3> QED BY <3>6, <3>7
  <2> QED BY <2>0, <2>1 DEF Grown
<1>2. ASSUME NEW s \in Server, WinMove(H, A, E, G, B, F, s)
      PROVE  Grown(H, A, E, G, B, F)
  <2>0. Won(s) /\ G = H /\ B = A /\ F = [E EXCEPT ![curTerm[s]] = logs[s]]
    BY <1>2 DEF WinMove
  <2>1. ASSUME NEW e \in elected PROVE F[e[1]] = E[e[1]]
    <3>1. PICK t \in Nat, p \in Server : e = <<t, p>>
      BY <1>0
    <3>2. t # curTerm[s]
      BY <2>0, <3>1 DEF Won
    <3> QED BY <1>0, <2>0, <3>1, <3>2
  <2> QED BY <2>0, <2>1 DEF Grown
<1>3. ASSUME NEW m \in DOMAIN net, NEW f, TakeMove(H, A, E, G, B, F, m, f)
      PROVE  Grown(H, A, E, G, B, F)
  <2>0. Taken(H, A, E, m, f) /\ G = H /\ F = E /\ B = A \cup {[term |-> m.term, by |-> m.to, log |-> f]}
    BY <1>3 DEF TakeMove
  <2>1. m.to \in Server /\ curTerm'[m.to] = m.term /\ logs'[m.to] = f
    <3>1. /\ m.to \in Server /\ DOMAIN logs = Server /\ DOMAIN curTerm = Server
          /\ logs' = [logs EXCEPT ![m.to] = f] /\ curTerm' = [curTerm EXCEPT ![m.to] = m.term]
      BY <1>0, <2>0 DEF Taken, LogTypes, FieldsInv
    <3> QED BY <3>1
  <2> QED BY <2>0, <2>1 DEF Grown
<1>4. CASE StillMove(H, A, E, G, B, F)
  BY <1>4 DEF StillMove, Grown
<1> QED BY <1>1, <1>2, <1>3, <1>4, MovesBy

-----------------------------------------------------------------------------
(* What a step adds to the history, and what it leaves in the logs.        *)

\* What depends on the terms of elections does not change.
LEMMA ElectedStay ==
    ASSUME NEW H, NEW A, NEW E, NEW G, NEW B, NEW F, Grown(H, A, E, G, B, F), NEW s, NEW t, <<t, s>> \in elected
    PROVE  F[t] = E[t] /\ \A h : OfTerm(E, t, h) => OfTerm(F, t, h)
<1>1. PICK e : e = <<t, s>>
  OBVIOUS
<1>2. F[e[1]] = E[e[1]] /\ e[1] = t
  BY <1>1 DEF Grown
<1> QED BY <1>2 DEF OfTerm

\* A log of a term that gets an entry of it is one still.
LEMMA OfTermGrows ==
    ASSUME NEW E, NEW t \in Nat, E[t] \in Seq(Entries), NEW g \in Seq(Entries), NEW n \in Seq(Entries),
           OfTerm(E, t, g), Begins(g, n), Len(n) = Len(g) + 1, n[Len(n)].term = t
    PROVE  OfTerm(E, t, n) /\ Len(E[t]) < Len(n)
<1>1. Len(g) \in Nat /\ Len(n) \in Nat /\ Len(E[t]) \in Nat /\ Len(E[t]) <= Len(g)
  BY DEF OfTerm, Begins
<1>2. Begins(E[t], n)
  BY BeginsTrans DEF OfTerm
<1>3. ASSUME NEW j \in (Len(E[t]) + 1)..Len(n) PROVE n[j].term = t
  <2>1. CASE j = Len(n)
    BY <2>1
  <2>2. CASE j # Len(n)
    <3>1. j \in (Len(E[t]) + 1)..Len(g) /\ j \in 1..Len(g)
      BY <1>1, <2>2
    <3> QED BY <3>1 DEF OfTerm, Begins
  <2> QED BY <2>1, <2>2
<1> QED BY <1>1, <1>2, <1>3 DEF OfTerm

\* A log that is new is what start() makes, what is newly acknowledged is what
\* appendEntries takes, and who is newly elected is a leader from now on.
LogBy(A, E, B, F, h, s) == Started(s, h) /\ B = A /\ F = E
AckBy(H, A, E, G, F, a, m) ==
    /\ AppendEntries(m) /\ Taken(H, A, E, m, a.log) /\ G = H /\ F = E
    /\ a.term = m.term /\ a.by = m.to
LeaderBy(H, A, G, B, F, e, s) ==
    Won(s) /\ e = <<curTerm[s], s>> /\ F[curTerm[s]] = logs[s] /\ G = H /\ B = A
LEMMA NewLog ==
    ASSUME LateThreads = FALSE, MaxRestart = 0,
           NEW H, NEW A, NEW E, NEW G, NEW B, NEW F, Moves(H, A, E, G, B, F)
    PROVE  \A h \in G : h \notin H => \E s \in Server : LogBy(A, E, B, F, h, s)
<1> SUFFICES ASSUME NEW h \in G, h \notin H PROVE \E s \in Server : LogBy(A, E, B, F, h, s)
  OBVIOUS
<1>1. ASSUME NEW s \in Server, NEW n, StartMove(H, A, E, G, B, F, s, n)
      PROVE  LogBy(A, E, B, F, h, s)
  <2>1. Started(s, n) /\ G = H \cup {n} /\ B = A /\ F = E
    BY <1>1 DEF StartMove
  <2>2. h = n
    BY <2>1
  <2> QED BY <2>1, <2>2 DEF LogBy
<1>2. ASSUME NEW s \in Server, WinMove(H, A, E, G, B, F, s) PROVE FALSE
  BY <1>2 DEF WinMove
<1>3. ASSUME NEW m, NEW f, TakeMove(H, A, E, G, B, F, m, f) PROVE FALSE
  BY <1>3 DEF TakeMove
<1>4. CASE StillMove(H, A, E, G, B, F)
  BY <1>4 DEF StillMove
<1> QED BY <1>1, <1>2, <1>3, <1>4, MovesBy

\* A new acknowledgement is of entries taken.
LEMMA NewAck ==
    ASSUME LateThreads = FALSE, MaxRestart = 0,
           NEW H, NEW A, NEW E, NEW G, NEW B, NEW F, Moves(H, A, E, G, B, F)
    PROVE  \A a \in B : a \notin A =>
               \E m \in DOMAIN net : AckBy(H, A, E, G, F, a, m)
<1> SUFFICES ASSUME NEW a \in B, a \notin A PROVE \E m \in DOMAIN net : AckBy(H, A, E, G, F, a, m)
  OBVIOUS
<1>1. ASSUME NEW s, NEW n, StartMove(H, A, E, G, B, F, s, n) PROVE FALSE
  BY <1>1 DEF StartMove
<1>2. ASSUME NEW s \in Server, WinMove(H, A, E, G, B, F, s) PROVE FALSE
  BY <1>2 DEF WinMove
<1>3. ASSUME NEW m \in DOMAIN net, NEW f, TakeMove(H, A, E, G, B, F, m, f)
      PROVE  AckBy(H, A, E, G, F, a, m)
  <2>1. /\ AppendEntries(m) /\ Taken(H, A, E, m, f) /\ G = H /\ F = E
        /\ B = A \cup {[term |-> m.term, by |-> m.to, log |-> f]}
    BY <1>3 DEF TakeMove
  <2>2. a = [term |-> m.term, by |-> m.to, log |-> f]
    BY <2>1
  <2>3. a.log = f /\ a.term = m.term /\ a.by = m.to
    BY <2>2
  <2> QED BY <2>1, <2>3 DEF AckBy
<1>4. CASE StillMove(H, A, E, G, B, F)
  BY <1>4 DEF StillMove
<1> QED BY <1>1, <1>2, <1>3, <1>4, MovesBy

\* A new pair of term and leader is of an election won.
LEMMA NewLeader ==
    ASSUME LateThreads = FALSE, MaxRestart = 0,
           NEW H, NEW A, NEW E, NEW G, NEW B, NEW F, Moves(H, A, E, G, B, F)
    PROVE  \A e \in elected' : e \notin elected =>
               \E s \in Server : LeaderBy(H, A, G, B, F, e, s)
<1> SUFFICES ASSUME NEW e \in elected', e \notin elected PROVE \E s \in Server : LeaderBy(H, A, G, B, F, e, s)
  OBVIOUS
<1>1. ASSUME NEW s, NEW n, StartMove(H, A, E, G, B, F, s, n) PROVE FALSE
  BY <1>1 DEF StartMove, Started
<1>2. ASSUME NEW s \in Server, WinMove(H, A, E, G, B, F, s)
      PROVE  LeaderBy(H, A, G, B, F, e, s)
  <2>1. Won(s) /\ G = H /\ B = A /\ F = [E EXCEPT ![curTerm[s]] = logs[s]]
    BY <1>2 DEF WinMove
  <2>2. e = <<curTerm[s], s>>
    BY <2>1 DEF Won
  <2>3. E \in [Nat -> Seq(Entries)] /\ curTerm[s] \in Nat
    BY MovesFrom
  <2>4. F[curTerm[s]] = logs[s]
    BY <2>1, <2>3
  <2> QED BY <2>1, <2>2, <2>4 DEF LeaderBy
<1>3. ASSUME NEW m, NEW f, TakeMove(H, A, E, G, B, F, m, f) PROVE FALSE
  BY <1>3 DEF TakeMove, Taken
<1>4. CASE StillMove(H, A, E, G, B, F)
  BY <1>4 DEF StillMove
<1> QED BY <1>1, <1>2, <1>3, <1>4, MovesBy

\* The logs leaders are elected with are logs.
LEMMA OriginsTyped ==
    ASSUME LateThreads = FALSE, MaxRestart = 0,
           NEW H, NEW A, NEW E, NEW G, NEW B, NEW F, Moves(H, A, E, G, B, F)
    PROVE  F \in [Nat -> Seq(Entries)]
<1>0. E \in [Nat -> Seq(Entries)] /\ \A s \in Server : logs[s] \in Seq(Entries)
  BY MovesFrom
<1>1. ASSUME NEW s, NEW n, StartMove(H, A, E, G, B, F, s, n) PROVE F = E
  BY <1>1 DEF StartMove
<1>2. ASSUME NEW s \in Server, WinMove(H, A, E, G, B, F, s) PROVE F \in [Nat -> Seq(Entries)]
  <2>1. F = [E EXCEPT ![curTerm[s]] = logs[s]]
    BY <1>2 DEF WinMove
  <2> QED BY <1>0, <2>1, Updated
<1>3. ASSUME NEW m, NEW f, TakeMove(H, A, E, G, B, F, m, f) PROVE F = E
  BY <1>3 DEF TakeMove
<1>5. F = E \/ \E s \in Server : WinMove(H, A, E, G, B, F, s)
  <2>1. StillMove(H, A, E, G, B, F) => F = E
    BY DEF StillMove
  <2> QED BY <1>1, <1>3, <2>1, MovesBy
<1> QED BY <1>0, <1>2, <1>5

\* Every step leaves logs of their last term, and acknowledgements of logs.
LEMMA PastNext ==
    ASSUME LateThreads = FALSE, MaxRestart = 0,
           NEW H, NEW A, NEW E, NEW G, NEW B, NEW F, Moves(H, A, E, G, B, F)
    PROVE  PastOK(G, B, F)'
<1>0. /\ History(H) /\ PastOK(H, A, E) /\ elected \subseteq elected'
      /\ \A s \in Server : logs[s] \in H /\ LogOK(A, E, s)
  BY MovesFrom
<1>t. /\ E \in [Nat -> Seq(Entries)] /\ DOMAIN curTerm = Server
      /\ \A s \in Server : logs[s] \in Seq(Entries) /\ Len(logs[s]) \in Nat
  BY MovesFrom DEF FieldsInv
<1>c. \A s \in Server : curTerm[s] \in Nat /\ curTerm'[s] \in Nat /\ curTerm'[s] >= curTerm[s]
  BY MovesFrom
<1>g. Grown(H, A, E, G, B, F) /\ H \subseteq G
  <2>1. Grown(H, A, E, G, B, F)
    BY ToldGrows
  <2> QED BY <2>1 DEF Grown
<1>1. F \in [Nat -> Seq(Entries)]
  BY OriginsTyped
<1>3. ASSUME NEW h \in H
      PROVE  /\ \A i \in 1..Len(h) : h[i].term <= LastTerm(h)
             /\ h # <<>> => OfTerm(F, LastTerm(h), h) /\ Len(F[LastTerm(h)]) < Len(h)
  <2>1. \A i \in 1..Len(h) : h[i].term <= LastTerm(h)
    BY <1>0 DEF PastOK
  <2>2. ASSUME h # <<>> PROVE OfTerm(F, LastTerm(h), h) /\ Len(F[LastTerm(h)]) < Len(h)
    <3>1. PICK s \in Server : <<LastTerm(h), s>> \in elected
      BY <1>0, <2>2 DEF History
    <3>2. OfTerm(E, LastTerm(h), h) /\ Len(E[LastTerm(h)]) < Len(h)
      BY <1>0, <2>2 DEF PastOK
    <3> QED BY <1>g, <3>1, <3>2, ElectedStay
  <2> QED BY <2>1, <2>2
<1>4. ASSUME NEW h \in G, h \notin H
      PROVE  /\ \A i \in 1..Len(h) : h[i].term <= LastTerm(h)
             /\ OfTerm(F, LastTerm(h), h) /\ Len(F[LastTerm(h)]) < Len(h)
  <2>0. PICK s \in Server : LogBy(A, E, B, F, h, s)
    BY <1>4, NewLog
  <2>1. PICK q : q = logs[s]
    OBVIOUS
  <2>2. PICK t : t = curTerm[s]
    OBVIOUS
  <2>3. /\ h \in Seq(Entries) /\ Len(h) = Len(q) + 1 /\ Begins(q, h) /\ LastTerm(h) = t
        /\ h[Len(h)].term = t /\ state[s] = "LEADER"
    BY <2>0, <2>1, <2>2 DEF LogBy, Started
  <2>4. q \in Seq(Entries) /\ Len(q) \in Nat /\ t \in Nat /\ q \in H /\ E[t] \in Seq(Entries)
    BY <1>0, <1>t, <1>c, <2>1, <2>2
  <2>5. OfTerm(E, t, q) /\ LastTerm(q) <= t
    BY <1>0, <2>1, <2>2, <2>3 DEF LogOK
  <2>6. OfTerm(E, t, h) /\ Len(E[t]) < Len(h)
    BY <2>3, <2>4, <2>5, OfTermGrows
  <2>7. ASSUME NEW i \in 1..Len(h) PROVE h[i].term <= LastTerm(h)
    <3>1. CASE i = Len(h)
      BY <2>3, <2>4, <3>1
    <3>2. CASE i # Len(h)
      <4>1. i \in 1..Len(q)
        BY <2>3, <2>4, <3>2
      <4>2. h[i] = q[i]
        BY <2>3, <4>1 DEF Begins
      <4>3. q[i] \in Entries
        BY <2>4, <4>1
      <4>4. q[i].term <= LastTerm(q)
        BY <1>0, <2>4, <4>1 DEF PastOK
      <4>5. LastTerm(q) \in Nat /\ q[i].term \in Nat
        BY <2>4, <4>3, LastTermNat DEF Entries
      <4> QED BY <2>3, <2>4, <2>5, <4>2, <4>4, <4>5
    <3> QED BY <3>1, <3>2
  <2> QED BY <2>0, <2>3, <2>6, <2>7 DEF LogBy
<1>5. ASSUME NEW e \in elected' PROVE F[e[1]] \in G /\ LastTerm(F[e[1]]) <= e[1]
  <2>1. CASE e \in elected
    <3>1. F[e[1]] = E[e[1]]
      BY <1>g, <2>1 DEF Grown
    <3> QED BY <1>0, <1>g, <2>1, <3>1 DEF PastOK
  <2>2. CASE e \notin elected
    <3>1. PICK s \in Server : LeaderBy(H, A, G, B, F, e, s)
      BY <2>2, NewLeader
    <3>2. e[1] = curTerm[s] /\ F[e[1]] = logs[s] /\ G = H
      BY <3>1 DEF LeaderBy
    <3> QED BY <1>0, <3>2 DEF LogOK
  <2> QED BY <2>1, <2>2
<1>6. ASSUME NEW a \in B
      PROVE  /\ a.term \in Nat /\ a.by \in Server /\ a.log \in G /\ OfTerm(F, a.term, a.log)
             /\ a.term <= curTerm'[a.by] /\ \E s \in Server : <<a.term, s>> \in elected'
  <2>1. CASE a \in A
    <3>1. PICK t, p : t = a.term /\ p = a.by
      OBVIOUS
    <3>2. /\ t \in Nat /\ p \in Server /\ a.log \in H /\ OfTerm(E, t, a.log) /\ t <= curTerm[p]
          /\ \E s \in Server : <<t, s>> \in elected
      BY <1>0, <2>1, <3>1 DEF PastOK
    <3>3. OfTerm(F, t, a.log)
      BY <1>g, <3>2, ElectedStay
    <3>4. t <= curTerm'[p]
      BY <1>c, <3>2
    <3>5. \E s \in Server : <<t, s>> \in elected'
      BY <1>0, <3>2
    <3> QED BY <1>g, <3>1, <3>2, <3>3, <3>4, <3>5
  <2>2. CASE a \notin A
    <3>1. PICK m \in DOMAIN net : AckBy(H, A, E, G, F, a, m)
      BY <2>2, NewAck
    <3>2. /\ m.term \in Nat /\ m.to \in Server /\ m.from \in Server /\ a.log \in H /\ OfTerm(E, m.term, a.log)
          /\ <<m.term, m.from>> \in elected /\ curTerm' = [curTerm EXCEPT ![m.to] = m.term]
      BY <3>1 DEF AckBy, Taken
    <3>3. curTerm'[m.to] = m.term
      BY <1>t, <3>2
    <3>4. m.term <= m.term
      BY <3>2
    <3>5. \E s \in Server : <<m.term, s>> \in elected'
      BY <1>0, <3>2
    <3> QED BY <3>1, <3>2, <3>3, <3>4, <3>5 DEF AckBy
  <2> QED BY <2>1, <2>2
<1>7. ASSUME NEW h \in G PROVE \A i \in 1..Len(h) : h[i].term <= LastTerm(h)
  BY <1>3, <1>4
<1>8. ASSUME NEW h \in G, h # <<>> PROVE OfTerm(F, LastTerm(h), h) /\ Len(F[LastTerm(h)]) < Len(h)
  BY <1>3, <1>4, <1>8
<1> QED BY <1>1, <1>5, <1>6, <1>7, <1>8 DEF PastOK

\* A leader was made by the step or led before, in the same term.
MadeLeader(F, p) == Won(p) /\ F[curTerm[p]] = logs[p]
LedBefore(p) == state[p] = "LEADER" /\ curTerm'[p] = curTerm[p] /\ ~ElectionDecided(p)
LEMMA LeadsOn ==
    ASSUME LateThreads = FALSE, MaxRestart = 0,
           NEW H, NEW A, NEW E, NEW G, NEW B, NEW F, Moves(H, A, E, G, B, F), NEW p \in Server
    PROVE  state'[p] = "LEADER" => MadeLeader(F, p) \/ LedBefore(p)
<1> SUFFICES ASSUME state'[p] = "LEADER" PROVE MadeLeader(F, p) \/ LedBefore(p)
  OBVIOUS
<1>1. Base /\ LogTypes /\ VotesKept /\ VotesKept' /\ [Next]_vars
  BY MovesFrom
<1>2. CASE ElectionDecided(p)
  <2>1. Ground /\ Ground'
    BY DEF Moves
  <2>2. state[p] # "LEADER"
    <3>1. electing[p] /\ restarts = 0 /\ ElectOK(p)
      BY <1>2, <2>1 DEF Ground, ElectionDecided, RangeInv, ElectInv
    <3> QED BY <3>1 DEF ElectOK
  <2>3. Wins(p)
    BY <1>2, <2>2 DEF ElectionDecided, Wins
  <2>4. Won(p)
    BY <1>1, <2>1, <2>3, WinsTold
  <2>5. PICK e : e = <<curTerm[p], p>>
    OBVIOUS
  <2>6. e \in elected' /\ e \notin elected
    BY <2>4, <2>5 DEF Won
  <2>7. PICK s \in Server : LeaderBy(H, A, G, B, F, e, s)
    BY <2>6, NewLeader
  <2>8. s = p
    BY <2>5, <2>7 DEF LeaderBy
  <2> QED BY <2>4, <2>7, <2>8 DEF LeaderBy, MadeLeader
<1>3. CASE ~ElectionDecided(p)
  <2>1. state[p] = "LEADER" /\ curTerm'[p] = curTerm[p]
    BY <1>1, <1>3, StillLeads
  <2> QED BY <1>3, <2>1 DEF LedBefore
<1> QED BY <1>2, <1>3

\* How the log of a server changes.
TookLog(H, A, E, B, p, m) ==
    /\ Taken(H, A, E, m, logs'[p]) /\ m.to = p /\ curTerm'[p] = m.term
    /\ \E a \in B : a.term = m.term /\ a.by = p /\ a.log = logs'[p]
LEMMA NextLog ==
    ASSUME LateThreads = FALSE, MaxRestart = 0,
           NEW H, NEW A, NEW E, NEW G, NEW B, NEW F, Moves(H, A, E, G, B, F), NEW p \in Server
    PROVE  \/ logs'[p] = logs[p]
           \/ Started(p, logs'[p])
           \/ \E m \in DOMAIN net : TookLog(H, A, E, B, p, m)
<1>0. DOMAIN logs = Server /\ DOMAIN curTerm = Server
  <2>1. LogTypes /\ FieldsInv
    BY MovesFrom
  <2> QED BY <2>1 DEF LogTypes, FieldsInv
<1>1. ASSUME NEW s \in Server, NEW n, StartMove(H, A, E, G, B, F, s, n)
      PROVE  logs'[p] = logs[p] \/ Started(p, logs'[p])
  <2>1. Started(s, n) /\ logs' = [logs EXCEPT ![s] = n]
    BY <1>1 DEF StartMove, Started
  <2>2. CASE p = s
    <3>1. logs'[p] = n
      BY <1>0, <2>1, <2>2
    <3> QED BY <2>1, <2>2, <3>1
  <2>3. CASE p # s
    BY <1>0, <2>1, <2>3
  <2> QED BY <2>2, <2>3
<1>2. ASSUME NEW s \in Server, WinMove(H, A, E, G, B, F, s) PROVE logs'[p] = logs[p]
  BY <1>2 DEF WinMove, Won
<1>3. ASSUME NEW m \in DOMAIN net, NEW f, TakeMove(H, A, E, G, B, F, m, f)
      PROVE  logs'[p] = logs[p] \/ TookLog(H, A, E, B, p, m)
  <2>1. Taken(H, A, E, m, f) /\ B = A \cup {[term |-> m.term, by |-> m.to, log |-> f]}
    BY <1>3 DEF TakeMove
  <2>2. logs' = [logs EXCEPT ![m.to] = f] /\ curTerm' = [curTerm EXCEPT ![m.to] = m.term]
    BY <2>1 DEF Taken
  <2>3. CASE p = m.to
    <3>1. logs'[p] = f /\ curTerm'[p] = m.term
      BY <1>0, <2>2, <2>3
    <3>2. PICK a : a = [term |-> m.term, by |-> p, log |-> f]
      OBVIOUS
    <3>3. a \in B /\ a.term = m.term /\ a.by = p /\ a.log = f
      BY <2>1, <2>3, <3>2
    <3> QED BY <2>1, <2>3, <3>1, <3>3 DEF TookLog
  <2>4. CASE p # m.to
    BY <1>0, <2>2, <2>4
  <2> QED BY <2>3, <2>4
<1>4. CASE StillMove(H, A, E, G, B, F)
  BY <1>4 DEF StillMove
<1> QED BY <1>1, <1>2, <1>3, <1>4, MovesBy

\* Every step leaves a log of the right terms.
LEMMA LogOKNext ==
    ASSUME LateThreads = FALSE, MaxRestart = 0,
           NEW H, NEW A, NEW E, NEW G, NEW B, NEW F, Moves(H, A, E, G, B, F), NEW p \in Server
    PROVE  LogOK(B, F, p)'
<1>0. /\ E \in [Nat -> Seq(Entries)] /\ curTerm[p] \in Nat /\ curTerm'[p] \in Nat /\ curTerm'[p] >= curTerm[p]
      /\ logs[p] \in H /\ logs[p] \in Seq(Entries) /\ LogOK(A, E, p) /\ LeaderOK(p)
  BY MovesFrom
<1>1. PastOK(H, A, E) /\ elected \subseteq elected'
  BY MovesFrom
<1>g. Grown(H, A, E, G, B, F) /\ A \subseteq B
  <2>1. Grown(H, A, E, G, B, F)
    BY ToldGrows
  <2> QED BY <2>1 DEF Grown
<1>2. CASE logs'[p] = logs[p]
  <2>1. LastTerm(logs[p]) \in Nat /\ LastTerm(logs[p]) <= curTerm[p]
    BY <1>0, LastTermNat DEF LogOK
  <2>2. LastTerm(logs'[p]) <= curTerm'[p]
    <3>1. PICK x, t, u : x = LastTerm(logs[p]) /\ t = curTerm[p] /\ u = curTerm'[p]
      OBVIOUS
    <3>2. x \in Nat /\ x <= t /\ t \in Nat /\ u \in Nat /\ u >= t
      BY <1>0, <2>1, <3>1
    <3>3. x <= u
      BY <3>2
    <3> QED BY <1>2, <3>1, <3>3
  <2>3. ASSUME state'[p] = "LEADER" PROVE OfTerm(F, curTerm'[p], logs'[p])
    <3>1. CASE Won(p) /\ F[curTerm[p]] = logs[p]
      <4>1. curTerm'[p] = curTerm[p]
        BY <3>1 DEF Won
      <4>2. Len(logs[p]) \in Nat
        BY <1>0
      <4>3. OfTerm(F, curTerm[p], logs[p])
        BY <3>1, <4>2 DEF OfTerm, Begins
      <4> QED BY <1>2, <4>1, <4>3
    <3>2. CASE state[p] = "LEADER" /\ curTerm'[p] = curTerm[p]
      <4>1. OfTerm(E, curTerm[p], logs[p]) /\ <<curTerm[p], p>> \in elected
        BY <1>0, <3>2 DEF LogOK, LeaderOK
      <4>2. OfTerm(F, curTerm[p], logs[p])
        BY <1>g, <4>1, ElectedStay
      <4> QED BY <1>2, <3>2, <4>2
    <3>3. MadeLeader(F, p) \/ LedBefore(p)
      BY <2>3, LeadsOn
    <3> QED BY <3>1, <3>2, <3>3 DEF MadeLeader, LedBefore
  <2>4. ASSUME logs'[p] # <<>>, LastTerm(logs'[p]) = curTerm'[p]
        PROVE  Acked(B, p, logs'[p]) \/ <<curTerm'[p], p>> \in elected'
    <3>1. curTerm'[p] = curTerm[p]
      BY <1>0, <1>2, <2>1, <2>4
    <3>2. Acked(A, p, logs[p]) \/ <<curTerm[p], p>> \in elected
      BY <1>0, <1>2, <2>4, <3>1 DEF LogOK
    <3>3. Acked(A, p, logs[p]) => Acked(B, p, logs[p])
      BY <1>g DEF Acked
    <3> QED BY <1>1, <1>2, <3>1, <3>2, <3>3
  <2> QED BY <2>2, <2>3, <2>4 DEF LogOK
<1>3. CASE Started(p, logs'[p])
  <2>1. PICK n : n = logs'[p]
    OBVIOUS
  <2>2. PICK q, t : q = logs[p] /\ t = curTerm[p]
    OBVIOUS
  <2>3. /\ n \in Seq(Entries) /\ Len(n) = Len(q) + 1 /\ LastTerm(n) = t /\ Begins(q, n) /\ n[Len(n)].term = t
        /\ state[p] = "LEADER" /\ <<t, p>> \in elected /\ UNCHANGED <<curTerm, elected>>
    BY <1>3, <2>1, <2>2 DEF Started
  <2>4. q \in Seq(Entries) /\ t \in Nat /\ E[t] \in Seq(Entries) /\ OfTerm(E, t, q)
    BY <1>0, <2>2, <2>3 DEF LogOK
  <2>5. OfTerm(E, t, n)
    BY <2>3, <2>4, OfTermGrows
  <2>6. OfTerm(F, t, n)
    BY <1>g, <2>3, <2>5, ElectedStay
  <2>7. curTerm'[p] = t /\ t <= t /\ <<t, p>> \in elected'
    BY <2>2, <2>3, <2>4
  <2> QED BY <2>1, <2>3, <2>6, <2>7 DEF LogOK
<1>4. CASE \E m \in DOMAIN net : TookLog(H, A, E, B, p, m)
  <2>1. PICK m \in DOMAIN net : TookLog(H, A, E, B, p, m)
    BY <1>4
  <2>2. PICK f : f = logs'[p]
    OBVIOUS
  <2>3. /\ f \in Seq(Entries) /\ OfTerm(E, m.term, f) /\ m.term \in Nat /\ <<m.term, m.from>> \in elected
        /\ m.to = p /\ curTerm'[p] = m.term /\ state' = [state EXCEPT ![p] = "FOLLOWER"] /\ UNCHANGED elected
    BY <2>1, <2>2 DEF TookLog, Taken
  <2>4. LastTerm(E[m.term]) <= m.term /\ E[m.term] \in Seq(Entries)
    <3>1. PICK e : e = <<m.term, m.from>>
      OBVIOUS
    <3>2. e \in elected /\ e[1] = m.term
      BY <2>3, <3>1
    <3> QED BY <1>0, <1>1, <2>3, <3>2 DEF PastOK
  <2>5. LastTerm(f) <= m.term
    BY <2>3, <2>4, OfTermLast
  <2>6. state'[p] # "LEADER"
    <3>1. FieldsInv
      BY MovesFrom
    <3> QED BY <2>3, <3>1 DEF FieldsInv
  <2>7. ASSUME LastTerm(f) = m.term PROVE Acked(B, p, f)
    <3>1. PICK a \in B : a.term = m.term /\ a.by = p /\ a.log = f
      BY <2>1, <2>2 DEF TookLog
    <3>2. Begins(f, f)
      BY <2>3 DEF Begins
    <3> QED BY <2>7, <3>1, <3>2 DEF Acked
  <2> QED BY <2>2, <2>3, <2>5, <2>6, <2>7 DEF LogOK
<1> QED BY <1>2, <1>3, <1>4, NextLog

-----------------------------------------------------------------------------
(* What is acknowledged is kept or lost.                                   *)

\* The voters of a leader have come to its term.
LEMMA ElectedVoters ==
    ASSUME BallotInv, ElectedInv, VotesKept, NEW t \in Nat, NEW s \in Server, <<t, s>> \in elected
    PROVE  \E Q \in Majorities : \A q \in Q : q \in Server /\ <<t, q, s>> \in ballots /\ t <= curTerm[q]
<1>1. PICK Q \in SUBSET Server : Cardinality(Q) > Majority /\ \A q \in Q : <<t, q, s>> \in ballots
  BY DEF ElectedInv
<1>2. ASSUME NEW q \in Q PROVE q \in Server /\ <<t, q, s>> \in ballots /\ t <= curTerm[q]
  <2>1. q \in Server /\ <<t, q, s>> \in ballots
    BY <1>1
  <2>2. VotesOK(q)
    BY <2>1 DEF BallotInv
  <2> QED BY <2>1, <2>2 DEF VotesOK
<1>3. Q \in Majorities
  BY <1>1 DEF Majorities
<1> QED BY <1>2, <1>3

\* More than half of the servers have voted for a server that wins, and come to its term.
LEMMA WinnersVoters ==
    ASSUME BallotInv, ElectedInv', VotesKept, VotesKept', NEW s \in Server, curTerm[s] \in Nat, Won(s)
    PROVE  \E Q \in Majorities : \A q \in Q : /\ q \in Server /\ <<curTerm[s], q, s>> \in ballots
                                              /\ curTerm[s] <= curTerm[q]
<1>1. <<curTerm[s], s>> \in elected' /\ UNCHANGED ballots
  BY DEF Won
<1>2. PICK Q \in SUBSET Server : Cardinality(Q) > Majority /\ \A q \in Q : <<curTerm[s], q, s>> \in ballots
  BY <1>1 DEF ElectedInv
<1>3. ASSUME NEW q \in Q PROVE q \in Server /\ <<curTerm[s], q, s>> \in ballots /\ curTerm[s] <= curTerm[q]
  <2>1. q \in Server /\ <<curTerm[s], q, s>> \in ballots
    BY <1>2
  <2>2. VotesOK(q)
    BY <2>1 DEF BallotInv
  <2> QED BY <2>1, <2>2 DEF VotesOK
<1>4. Q \in Majorities
  BY <1>2 DEF Majorities
<1> QED BY <1>3, <1>4

\* A log is lost when more than half of the servers are past it without it.
LEMMA LostLater ==
    ASSUME LateThreads = FALSE, MaxRestart = 0,
           NEW H, NEW A, NEW E, NEW G, NEW B, NEW F, Moves(H, A, E, G, B, F),
           NEW h \in Seq(Entries), NEW t \in Nat, t > LastTerm(h), NEW Q \in Majorities,
           \A q \in Q : t <= curTerm[q] /\ ~Acked(B, q, h)
    PROVE  Lost(B, h)'
<1>1. \A q \in Server : curTerm[q] \in Nat /\ curTerm'[q] \in Nat /\ curTerm'[q] >= curTerm[q]
  BY MovesFrom
<1>2. LastTerm(h) \in Nat
  BY LastTermNat
<1>3. ASSUME NEW q \in Q PROVE curTerm'[q] > LastTerm(h) /\ ~Acked(B, q, h)
  <2>1. q \in Server /\ t <= curTerm[q]
    BY DEF Majorities
  <2> QED BY <1>1, <1>2, <2>1
<1> QED BY <1>3 DEF Lost

\* A log that start() makes is in the log of no leader of a later term, and will not be:
\* it comes too late.
LEMMA KeptNew ==
    ASSUME LateThreads = FALSE, MaxRestart = 0,
           NEW H, NEW A, NEW E, NEW G, NEW B, NEW F, Moves(H, A, E, G, B, F),
           NEW h \in G, h \notin H, NEW e \in elected', e[1] > LastTerm(h)
    PROVE  Lost(B, h)'
<1>1. PICK s \in Server : LogBy(A, E, B, F, h, s)
  BY NewLog
<1>2. h \in Seq(Entries) /\ UNCHANGED elected
  BY <1>1 DEF LogBy, Started
<1>3. BallotInv /\ ElectedInv /\ VotesKept /\ elected \subseteq Nat \X Server
  BY MovesFrom
<1>4. PICK t \in Nat, l \in Server : e = <<t, l>>
  BY <1>2, <1>3
<1>5. <<t, l>> \in elected /\ t > LastTerm(h)
  BY <1>2, <1>4
<1>6. PICK Q \in Majorities : \A q \in Q : q \in Server /\ t <= curTerm[q]
  BY <1>3, <1>5, ElectedVoters
<1>7. \A q \in Q : ~Acked(B, q, h)
  <2>1. Grown(H, A, E, G, B, F)
    BY ToldGrows
  <2> QED BY <1>6, <2>1 DEF Grown
<1> QED BY <1>2, <1>5, <1>6, <1>7, LostLater

\* What a server has acknowledged stays in its log.
LEMMA KeptLog ==
    ASSUME LateThreads = FALSE, MaxRestart = 0,
           NEW H, NEW A, NEW E, NEW G, NEW B, NEW F, Moves(H, A, E, G, B, F),
           NEW h \in H, h # <<>>, NEW p \in Server, Acked(B, p, h), ~Lost(B, h)'
    PROVE  Begins(h, logs'[p])
<1>0. /\ History(H) /\ PastOK(H, A, E) /\ KeptOK(H, A, E) /\ E \in [Nat -> Seq(Entries)]
      /\ logs[p] \in Seq(Entries)
      /\ \A s \in Server : curTerm[s] \in Nat /\ curTerm'[s] \in Nat /\ curTerm'[s] >= curTerm[s]
  BY MovesFrom
<1>1. Grown(H, A, E, G, B, F)
  BY ToldGrows
<1>2. h \in Seq(Entries) /\ LastTerm(h) \in Nat
  <2>1. h \in Seq(Entries)
    BY <1>0 DEF History
  <2> QED BY <2>1, LastTermNat
<1>3. ~Lost(A, h)
  BY <1>0, <1>1, <1>2, LostStays
<1>4. CASE ~Acked(A, p, h)
  <2>1. PICK a \in B : a.term = LastTerm(h) /\ a.by = p /\ Begins(h, a.log)
    BY DEF Acked
  <2>2. a \notin A
    BY <1>4, <2>1 DEF Acked
  <2> QED BY <1>1, <2>1, <2>2 DEF Grown
<1>5. CASE Acked(A, p, h)
  <2>1. Begins(h, logs[p])
    BY <1>0, <1>3, <1>5 DEF KeptOK
  <2>2. CASE logs'[p] = logs[p]
    BY <2>1, <2>2
  <2>3. CASE Started(p, logs'[p])
    <3>1. PICK n : n = logs'[p]
      OBVIOUS
    <3>2. n \in Seq(Entries) /\ Begins(logs[p], n)
      BY <2>3, <3>1 DEF Started
    <3>3. Begins(h, n)
      BY <1>0, <1>2, <2>1, <3>2, BeginsTrans
    <3> QED BY <3>1, <3>3
  <2>4. CASE \E m \in DOMAIN net : TookLog(H, A, E, B, p, m)
    <3>1. PICK m \in DOMAIN net : TookLog(H, A, E, B, p, m)
      BY <2>4
    <3>2. PICK f : f = logs'[p]
      OBVIOUS
    <3>3. /\ f \in Seq(Entries) /\ OfTerm(E, m.term, f) /\ m.term \in Nat /\ <<m.term, m.from>> \in elected
          /\ m.to = p /\ curTerm[m.to] <= m.term
          /\ \A a \in A : a.term = m.term /\ a.by = m.to => Begins(a.log, f)
      BY <3>1, <3>2 DEF TookLog, Taken
    <3>4. PICK a \in A : a.term = LastTerm(h) /\ a.by = p /\ Begins(h, a.log)
      BY <1>5 DEF Acked
    <3>5. a.term <= curTerm[p] /\ a.log \in H
      BY <1>0, <3>4 DEF PastOK
    <3>6. LastTerm(h) <= m.term
      <4>1. curTerm[p] \in Nat /\ curTerm[p] <= m.term /\ LastTerm(h) <= curTerm[p]
        BY <1>0, <3>3, <3>4, <3>5
      <4> QED BY <1>2, <3>3, <4>1
    <3>7. CASE LastTerm(h) = m.term
      <4>1. Begins(a.log, f) /\ a.log \in Seq(Entries)
        BY <1>0, <3>3, <3>4, <3>5, <3>7 DEF History
      <4>2. Begins(h, f)
        BY <1>2, <3>3, <3>4, <4>1, BeginsTrans
      <4> QED BY <3>2, <4>2
    <3>8. CASE m.term > LastTerm(h)
      <4>1. PICK e : e = <<m.term, m.from>>
        OBVIOUS
      <4>2. e \in elected /\ e[1] = m.term
        BY <3>3, <4>1
      <4>3. Begins(h, E[m.term])
        BY <1>0, <1>3, <3>8, <4>2 DEF KeptOK
      <4>4. Begins(E[m.term], f) /\ E[m.term] \in Seq(Entries)
        BY <1>0, <3>3 DEF OfTerm
      <4>5. Begins(h, f)
        BY <1>2, <3>3, <4>3, <4>4, BeginsTrans
      <4> QED BY <3>2, <4>5
    <3>9. LastTerm(h) = m.term \/ m.term > LastTerm(h)
      BY <1>2, <3>3, <3>6
    <3> QED BY <3>7, <3>8, <3>9
  <2> QED BY <2>2, <2>3, <2>4, NextLog
<1> QED BY <1>4, <1>5

\* It is in the log a new leader is elected with, if a voter of that leader has
\* acknowledged it, and lost if none has.
LEMMA KeptLeader ==
    ASSUME LateThreads = FALSE, MaxRestart = 0,
           NEW H, NEW A, NEW E, NEW G, NEW B, NEW F, Moves(H, A, E, G, B, F),
           NEW h \in H, h # <<>>, NEW e \in elected', e[1] > LastTerm(h), ~Lost(B, h)'
    PROVE  Begins(h, F[e[1]])
<1>0. /\ BallotInv /\ ElectedInv' /\ VotesKept /\ VotesKept' /\ History(H) /\ KeptOK(H, A, E)
      /\ \A s \in Server : curTerm[s] \in Nat /\ curTerm'[s] \in Nat /\ curTerm'[s] >= curTerm[s]
  BY MovesFrom
<1>1. Grown(H, A, E, G, B, F)
  BY ToldGrows
<1>2. h \in Seq(Entries)
  BY <1>0 DEF History
<1>3. ~Lost(A, h)
  BY <1>0, <1>1, <1>2, LostStays
<1>4. CASE e \in elected
  BY <1>0, <1>1, <1>3, <1>4 DEF KeptOK, Grown
<1>5. CASE e \notin elected
  <2>1. PICK s \in Server : LeaderBy(H, A, G, B, F, e, s)
    BY <1>5, NewLeader
  <2>2. Won(s) /\ e[1] = curTerm[s] /\ F[curTerm[s]] = logs[s] /\ B = A /\ curTerm[s] \in Nat
    BY <1>0, <2>1 DEF LeaderBy
  <2>3. PICK Q \in Majorities : \A q \in Q : /\ q \in Server /\ <<curTerm[s], q, s>> \in ballots
                                             /\ curTerm[s] <= curTerm[q]
    BY <1>0, <2>2, WinnersVoters
  <2>4. PICK q \in Q : Acked(A, q, h)
    <3>1. ASSUME \A q \in Q : ~Acked(A, q, h) PROVE Lost(B, h)'
      <4>1. \A q \in Q : curTerm[s] <= curTerm[q] /\ ~Acked(B, q, h)
        BY <2>2, <2>3, <3>1
      <4>2. curTerm[s] \in Nat /\ curTerm[s] > LastTerm(h)
        BY <2>2
      <4> QED BY <1>2, <4>1, <4>2, LostLater
    <3> QED BY <3>1
  <2>5. VoteSafe(H, A)
    BY DEF Moves, Trail
  <2>6. state[s] = "CANDIDATE" /\ q \in Server /\ Voted(q, s, curTerm[s])
    BY <2>2, <2>3 DEF Won, Voted
  <2>7. LastTerm(h) < curTerm[s]
    <3>1. LastTerm(h) \in Nat
      BY <1>2, LastTermNat
    <3> QED BY <2>2, <3>1
  <2>8. Begins(h, logs[s])
    BY <1>3, <2>4, <2>5, <2>6, <2>7 DEF VoteSafe
  <2> QED BY <2>2, <2>8
<1> QED BY <1>4, <1>5

\* What has been acknowledged stays where it was or is lost.
LEMMA KeptNext ==
    ASSUME LateThreads = FALSE, MaxRestart = 0,
           NEW H, NEW A, NEW E, NEW G, NEW B, NEW F, Moves(H, A, E, G, B, F)
    PROVE  KeptOK(G, B, F)'
<1>1. ASSUME NEW h \in G, h # <<>>, NEW p \in Server, Acked(B, p, h), ~Lost(B, h)'
      PROVE  Begins(h, logs'[p])
  <2>1. Grown(H, A, E, G, B, F)
    BY ToldGrows
  <2>2. h \in H
    BY <1>1, <2>1 DEF Grown
  <2> QED BY <1>1, <2>2, KeptLog
<1>2. ASSUME NEW h \in G, h # <<>>, NEW e \in elected', e[1] > LastTerm(h), ~Lost(B, h)'
      PROVE  Begins(h, F[e[1]])
  <2>1. h \in H
    BY <1>2, KeptNew
  <2> QED BY <1>2, <2>1, KeptLeader
<1> QED BY <1>1, <1>2 DEF KeptOK

-----------------------------------------------------------------------------
(* What a leader counts.                                                   *)

\* appendEntries takes one call out of the net.
LEMMA CallTaken ==
    ASSUME NetInv, NEW m \in DOMAIN net, AppendEntries(m)
    PROVE  m \notin DOMAIN net' /\ \A n \in DOMAIN net : n # m => n \in DOMAIN net'
<1>1. PICK r : Answer(m, r) /\ r.kind = "appendRsp"
  BY AnswerMade DEF EntriesAnswered
<1>2. Single(net) /\ m # r
  BY <1>1 DEF NetInv, AppendEntries
<1>3. DOMAIN BagRemove(net, m) = DOMAIN net \ {m}
  BY <1>2, RemoveOne
<1>4. DOMAIN net' = DOMAIN BagRemove(net, m) \cup {r}
  BY <1>1 DEF Answer, BagAdd
<1> QED BY <1>2, <1>3, <1>4

\* What appendEntries takes is acknowledged.
TookAck(H, A, E, B, m, a) == Taken(H, A, E, m, a.log) /\ a \in B /\ a.term = m.term /\ a.by = m.to
LEMMA TakesAck ==
    ASSUME LateThreads = FALSE, MaxRestart = 0,
           NEW H, NEW A, NEW E, NEW G, NEW B, NEW F, Moves(H, A, E, G, B, F),
           NEW m \in DOMAIN net, Takes(m)
    PROVE  \E a : TookAck(H, A, E, B, m, a)
<1>0. m \notin DOMAIN net' /\ \A n \in DOMAIN net : n # m => n \in DOMAIN net'
  <2>1. NetInv /\ AppendEntries(m)
    BY MovesFrom DEF Takes
  <2> QED BY <2>1, CallTaken
<1>1. ASSUME NEW s \in Server, NEW n, StartMove(H, A, E, G, B, F, s, n) PROVE FALSE
  BY <1>0, <1>1 DEF StartMove, Started
<1>2. ASSUME NEW s \in Server, WinMove(H, A, E, G, B, F, s) PROVE FALSE
  BY <1>0, <1>2 DEF WinMove, Won
<1>3. ASSUME NEW n \in DOMAIN net, NEW f, TakeMove(H, A, E, G, B, F, n, f)
      PROVE  \E a : TookAck(H, A, E, B, m, a)
  <2>1. Taken(H, A, E, n, f) /\ B = A \cup {[term |-> n.term, by |-> n.to, log |-> f]}
    BY <1>3 DEF TakeMove
  <2>2. n \notin DOMAIN net'
    BY <2>1 DEF Taken
  <2>3. n = m
    BY <1>0, <2>2
  <2>4. PICK a : a = [term |-> n.term, by |-> n.to, log |-> f]
    OBVIOUS
  <2>5. a.log = f /\ a.term = n.term /\ a.by = n.to /\ a \in B
    BY <2>1, <2>4
  <2>6. TookAck(H, A, E, B, m, a)
    BY <2>1, <2>3, <2>5 DEF TookAck
  <2> QED BY <2>6
<1>4. CASE StillMove(H, A, E, G, B, F)
  BY <1>4 DEF StillMove
<1> QED BY <1>1, <1>2, <1>3, <1>4, MovesBy

\* Only an answer moves the indices of a server that leads on.
MatchReply(s, m) == AppendReply(m) /\ m.from = s /\ m.success /\ ~(m.term > curTerm[s])
LEMMA MatchStays ==
    ASSUME DataInv, NetInv, NEW s \in Server, ~ElectionDecided(s), DOMAIN state = Server,
           state'[s] = "LEADER", [Next]_vars
    PROVE  matchIndex'[s] = matchIndex[s] \/ \E m \in DOMAIN net : MatchReply(s, m)
<1>0. DOMAIN matchIndex = Server /\ \A m \in DOMAIN net : m.from \in Server
  BY DEF DataInv, NetInv, MessageOK
<1>1. ASSUME NEW q \in Server,
             \/ CallRequestVote(q) \/ SendAppendEntries(q) \/ CheckLogUptodate(q) \/ GrantVote(q)
             \/ ElectionTimeout(q) \/ Heartbeat(q) \/ Start(q) \/ Kill(q)
      PROVE  UNCHANGED matchIndex
  BY <1>1 DEF CallRequestVote, SendAppendEntries, CheckLogUptodate, GrantVote, ElectionTimeout, Heartbeat,
     Start, Kill, leaderVars
<1>2. ASSUME NEW q \in Server, ElectionDecided(q) \/ Restart(q) PROVE matchIndex'[s] = matchIndex[s]
  <2>1. UNCHANGED matchIndex \/ \E row : matchIndex' = [matchIndex EXCEPT ![q] = row]
    BY <1>2 DEF ElectionDecided, Restart
  <2>2. q # s
    <3>1. Restart(q) => state' = [state EXCEPT ![q] = "FOLLOWER"]
      BY DEF Restart
    <3> QED BY <1>2, <3>1
  <2> QED BY <1>0, <2>1, <2>2
<1>3. ASSUME NEW m \in DOMAIN net, RequestVote(m) \/ VoteReply(m) \/ AppendEntries(m)
      PROVE  UNCHANGED matchIndex
  <2>1. CASE RequestVote(m)
    BY <2>1 DEF RequestVote, leaderVars
  <2>2. CASE VoteReply(m)
    BY <2>2 DEF VoteReply, leaderVars
  <2>3. CASE AppendEntries(m)
    BY <2>3 DEF AppendEntries
  <2> QED BY <1>3, <2>1, <2>2, <2>3
<1>4. ASSUME NEW m \in DOMAIN net, AppendReply(m) PROVE matchIndex'[s] = matchIndex[s] \/ MatchReply(s, m)
  <2>1. CASE m.term > curTerm[m.from] \/ ~m.success
    BY <1>4, <2>1 DEF AppendReply, leaderVars
  <2>2. CASE ~(m.term > curTerm[m.from]) /\ m.success
    <3>1. \E row : matchIndex' = [matchIndex EXCEPT ![m.from] = row]
      BY <1>4, <2>2 DEF AppendReply
    <3>2. CASE m.from = s
      BY <1>4, <2>2, <3>2 DEF MatchReply
    <3>3. CASE m.from # s
      BY <1>0, <3>1, <3>3
    <3> QED BY <3>2, <3>3
  <2> QED BY <2>1, <2>2
<1>5. ASSUME UNCHANGED vars PROVE UNCHANGED matchIndex
  BY <1>5 DEF vars, leaderVars
<1> QED BY <1>1, <1>2, <1>3, <1>4, <1>5 DEF Next, ThreadStep

\* What an answer moves them to has been acknowledged.
LEMMA ReplyCounts ==
    ASSUME FieldsInv, DataInv, NetInv, RangeInv, NEW H, NEW A, NEW E, Trail(H, A, E),
           NEW s \in Server, state[s] = "LEADER", NEW m \in DOMAIN net, MatchReply(s, m),
           NEW next \in Int, NEW match \in [Server -> Int], NEW c, Counted(m, next, match, c)
    PROVE  /\ matchIndex'[s] = match
           /\ \A p \in Server : match[p] > 0 => AckedUpTo(A, curTerm[s], p, match[p])
<1>1. /\ m.from = s /\ m.kind = "appendRsp" /\ m.success /\ m.to \in Server /\ m \in EntryCalls(s)
      /\ m.prevLogIndex \in Int /\ m.sent \in Nat
  BY DEF MatchReply, AppendReply, NetInv, MessageOK, EntryCalls, AppendKinds, DataInv, LogTypes, ReplyOK
<1>2. /\ next = nextIndex[s][m.to] + m.sent /\ match = [matchIndex[s] EXCEPT ![m.to] = next - 1]
      /\ matchIndex' = [matchIndex EXCEPT ![s] = match]
  BY <1>1 DEF Counted
<1>3. matchIndex'[s] = match /\ matchIndex[s] \in [Server -> Int]
  BY <1>2 DEF DataInv
<1>4. nextIndex[s][m.to] = m.prevLogIndex + 1
  BY <1>1 DEF RangeInv, RangeOK
<1>5. AckedUpTo(A, curTerm[s], m.to, m.prevLogIndex + m.sent)
  <2>1. AnswerOK(A, m)
    BY <1>1 DEF Trail
  <2> QED BY <1>1, <2>1 DEF AnswerOK
<1>6. ASSUME NEW p \in Server, match[p] > 0 PROVE AckedUpTo(A, curTerm[s], p, match[p])
  <2>1. CASE p = m.to
    <3>1. match[p] = m.prevLogIndex + m.sent
      <4>1. match[p] = next - 1
        BY <1>2, <1>3, <2>1
      <4> QED BY <1>1, <1>2, <1>4, <4>1
    <3> QED BY <1>5, <2>1, <3>1
  <2>2. CASE p # m.to
    <3>1. match[p] = matchIndex[s][p]
      BY <1>2, <1>3, <2>2
    <3>2. CountOK(A, s)
      BY DEF Trail
    <3> QED BY <1>6, <3>1, <3>2 DEF CountOK
  <2> QED BY <2>1, <2>2
<1> QED BY <1>3, <1>6

\* What a leader counts has been acknowledged to it.
LEMMA CountNext ==
    ASSUME LateThreads = FALSE, MaxRestart = 0,
           NEW H, NEW A, NEW E, NEW G, NEW B, NEW F, Moves(H, A, E, G, B, F), NEW s \in Server
    PROVE  CountOK(B, s)'
<1>0. FieldsInv /\ NetInv /\ DataInv /\ RangeInv /\ Trail(H, A, E) /\ [Next]_vars /\ DOMAIN state = Server
  BY MovesFrom DEF Moves, Ground, FieldsInv
<1>1. A \subseteq B
  BY ToldGrows DEF Grown
<1> SUFFICES ASSUME state'[s] = "LEADER", NEW p \in Server, matchIndex'[s][p] > 0
             PROVE  AckedUpTo(B, curTerm'[s], p, matchIndex'[s][p])
  BY DEF CountOK
<1>2. CASE MadeLeader(F, s)
  BY <1>2 DEF MadeLeader, Won
<1>3. CASE LedBefore(s)
  <2>1. state[s] = "LEADER" /\ curTerm'[s] = curTerm[s] /\ ~ElectionDecided(s)
    BY <1>3 DEF LedBefore
  <2>2. CASE matchIndex'[s] = matchIndex[s]
    <3>1. CountOK(A, s)
      BY <1>0 DEF Trail
    <3>2. AckedUpTo(A, curTerm[s], p, matchIndex[s][p])
      BY <2>1, <2>2, <3>1 DEF CountOK
    <3> QED BY <1>1, <2>1, <2>2, <3>2 DEF AckedUpTo
  <2>3. CASE \E m \in DOMAIN net : MatchReply(s, m)
    <3>1. PICK m \in DOMAIN net : MatchReply(s, m)
      BY <2>3
    <3>2. AppendReply(m) /\ ~(m.term > curTerm[m.from]) /\ m.success
      BY <3>1 DEF MatchReply
    <3>3. PICK next \in Int, match \in [Server -> Int], c \in Nat : Counted(m, next, match, c)
      BY <1>0, <3>2, AnswerCounted
    <3>4. matchIndex'[s] = match /\ \A q \in Server : match[q] > 0 => AckedUpTo(A, curTerm[s], q, match[q])
      BY <1>0, <2>1, <3>1, <3>3, ReplyCounts
    <3>5. AckedUpTo(A, curTerm[s], p, match[p])
      BY <3>4
    <3> QED BY <1>1, <2>1, <3>4, <3>5 DEF AckedUpTo
  <2>4. matchIndex'[s] = matchIndex[s] \/ \E m \in DOMAIN net : MatchReply(s, m)
    BY <1>0, <2>1, MatchStays
  <2> QED BY <2>2, <2>3, <2>4
<1> QED BY <1>2, <1>3, LeadsOn

\* What a server answers success to, it has acknowledged.
LEMMA AnswerNext ==
    ASSUME LateThreads = FALSE, MaxRestart = 0,
           NEW H, NEW A, NEW E, NEW G, NEW B, NEW F, Moves(H, A, E, G, B, F),
           NEW r \in DOMAIN net', r.kind = "appendRsp"
    PROVE  AnswerOK(B, r)'
<1>0. NetInv' /\ [Next]_vars /\ Trail(H, A, E) /\ RangeInv /\ NetInv
  BY MovesFrom DEF Moves, Ground
<1>1. A \subseteq B
  <2>1. Grown(H, A, E, G, B, F)
    BY ToldGrows
  <2> QED BY <2>1 DEF Grown
<1>2. PICK s \in Server : s = r.from
  BY <1>0 DEF NetInv, MessageOK
<1> SUFFICES ASSUME r.success, state'[s] = "LEADER"
             PROVE  AckedUpTo(B, curTerm'[s], r.to, r.prevLogIndex + r.sent)
  BY <1>2 DEF AnswerOK
<1>3. CASE MadeLeader(F, s)
  <2>1. UNCHANGED net /\ EntryCalls(s) = {}
    BY <1>3 DEF MadeLeader, Won
  <2>2. r \in EntryCalls(s)
    BY <1>2, <2>1 DEF EntryCalls, AppendKinds
  <2> QED BY <2>1, <2>2
<1>4. CASE LedBefore(s)
  <2>1. state[s] = "LEADER" /\ curTerm'[s] = curTerm[s]
    BY <1>4 DEF LedBefore
  <2>2. CASE r \in DOMAIN net
    <3>1. AnswerOK(A, r)
      BY <1>0, <2>2 DEF Trail
    <3>2. AckedUpTo(A, curTerm[s], r.to, r.prevLogIndex + r.sent)
      BY <1>2, <2>1, <3>1 DEF AnswerOK
    <3> QED BY <1>1, <2>1, <3>2 DEF AckedUpTo
  <2>3. CASE r \notin DOMAIN net
    <3>1. r.kind \notin VoteKinds /\ \A q \in Server : ~EntriesSent(q, r)
      BY DEF VoteKinds, EntriesSent
    <3>2. PICK n \in DOMAIN net : AppendEntries(n) /\ EntriesAnswered(n, r)
      BY <1>0, <2>3, <3>1, NewCalls
    <3>3. Takes(n) /\ n.from = s /\ n.to = r.to /\ r.prevLogIndex = n.prevLogIndex /\ r.sent = Len(n.sendLogs)
      BY <1>2, <3>2 DEF EntriesAnswered, Takes
    <3>4. n.term = curTerm[s]
      <4>1. n \in EntryCalls(s) /\ n.kind = "appendReq"
        BY <3>2, <3>3 DEF AppendEntries, EntryCalls, AppendKinds
      <4> QED BY <1>0, <2>1, <4>1 DEF RangeInv, RangeOK, CallFits
    <3>5. PICK a : TookAck(H, A, E, B, n, a)
      BY <3>3, TakesAck
    <3>6. a \in B /\ a.term = n.term /\ a.by = n.to /\ Len(a.log) = n.prevLogIndex + Len(n.sendLogs)
          /\ a.log \in Seq(Entries)
      BY <3>5 DEF TookAck, Taken
    <3>7. a.term = curTerm'[s] /\ a.by = r.to /\ r.prevLogIndex + r.sent <= Len(a.log)
      <4>1. Len(a.log) \in Nat /\ r.prevLogIndex + r.sent = Len(a.log)
        BY <3>3, <3>6
      <4> QED BY <2>1, <3>3, <3>4, <3>6, <4>1
    <3> QED BY <3>6, <3>7 DEF AckedUpTo
  <2> QED BY <2>2, <2>3
<1> QED BY <1>3, <1>4, LeadsOn

-----------------------------------------------------------------------------
(* What a leader sends, and what is taken of it.                           *)

\* The entries in a call stay those of a log of the leader.
LEMMA EntriesKept ==
    ASSUME LateThreads = FALSE, MaxRestart = 0,
           NEW H, NEW A, NEW E, NEW G, NEW B, NEW F, Moves(H, A, E, G, B, F),
           NEW m \in DOMAIN net, m \in DOMAIN net', m.kind = "appendReq"
    PROVE  EntriesOK(G, B, F, m)
<1>0. /\ NetInv /\ DataInv /\ RangeInv /\ LeadInv /\ VotesKept /\ ElectionSafety /\ History(H)
      /\ EntriesOK(H, A, E, m)
  <2>1. NetInv /\ LeadInv /\ VotesKept /\ ElectionSafety /\ History(H)
    BY MovesFrom
  <2> QED BY <2>1 DEF Moves, Ground, Trail
<1>1. Grown(H, A, E, G, B, F)
  BY ToldGrows
<1>2. m.term \in Nat /\ m.leaderCommit \in Nat /\ <<m.term, m.from>> \in elected
  BY <1>0 DEF NetInv, MessageOK, DataInv, LeadInv
<1>3. PICK f \in H : /\ Whole(m, f) /\ OfTerm(E, m.term, f) /\ CommitOK(H, A, m.leaderCommit, f, m.term)
                     /\ \A a \in A : a.term = m.term /\ a.by = m.to => Begins(a.log, f)
  BY <1>0 DEF EntriesOK
<1>4. f \in G /\ H \subseteq G /\ A \subseteq B /\ H \subseteq Seq(Entries)
  BY <1>0, <1>1 DEF Grown, History
<1>5. OfTerm(F, m.term, f)
  BY <1>1, <1>2, <1>3, ElectedStay
<1>6. CommitOK(G, B, m.leaderCommit, f, m.term)
  <2>1. m.leaderCommit > 0 => m.leaderCommit <= Len(f) /\ \A i \in 1..m.leaderCommit : f[i] = f[i]
    BY <1>3 DEF CommitOK
  <2>2. m.term <= m.term
    BY <1>2
  <2> QED BY <1>2, <1>3, <1>4, <2>1, <2>2, CommitStays
<1>7. ASSUME NEW a \in B, a.term = m.term, a.by = m.to PROVE Begins(a.log, f)
  <2>1. CASE a \in A
    BY <1>3, <1>7, <2>1
  <2>2. CASE a \notin A
    <3>1. PICK n \in DOMAIN net : AckBy(H, A, E, G, F, a, n)
      BY <2>2, NewAck
    <3>2. n.term = m.term /\ n.to = m.to /\ <<n.term, n.from>> \in elected /\ n \notin DOMAIN net'
      BY <1>7, <3>1 DEF AckBy, Taken
    <3>3. n.from = m.from
      <4>1. PICK e : e = <<m.term, m.from>>
        OBVIOUS
      <4>2. PICK g : g = <<m.term, n.from>>
        OBVIOUS
      <4>3. e \in elected /\ g \in elected /\ e[1] = g[1] /\ e[2] = m.from /\ g[2] = n.from
        BY <1>2, <3>2, <4>1, <4>2
      <4>4. e = g
        BY <1>0, <4>3 DEF ElectionSafety
      <4> QED BY <4>3, <4>4
    <3>4. restarts = 0
      BY <1>0 DEF RangeInv
    <3>5. n = m
      BY <1>0, <3>2, <3>3, <3>4, CallsApart
    <3> QED BY <3>2, <3>5
  <2> QED BY <2>1, <2>2
<1> QED BY <1>3, <1>4, <1>5, <1>6, <1>7 DEF EntriesOK

\* A leader sends the end of its log.
LEMMA EntriesNew ==
    ASSUME LateThreads = FALSE, MaxRestart = 0,
           NEW H, NEW A, NEW E, NEW G, NEW B, NEW F, Moves(H, A, E, G, B, F),
           NEW s \in Server, SendAppendEntries(s), NEW m, EntriesSent(s, m)
    PROVE  EntriesOK(G, B, F, m)
<1>0. /\ History(H) /\ PastOK(H, A, E) /\ E \in [Nat -> Seq(Entries)] /\ NetInv
      /\ curTerm[s] \in Nat /\ logs[s] \in H /\ logs[s] \in Seq(Entries) /\ Len(logs[s]) \in Nat
      /\ LeaderOK(s) /\ LogOK(A, E, s)
  BY MovesFrom
<1>g. Grown(H, A, E, G, B, F)
  BY ToldGrows
<1>1. /\ RangeOK(s) /\ CurPeerInv /\ CommitOK(H, A, commitIndex[s], logs[s], curTerm[s])
      /\ commitIndex[s] \in Nat
  BY DEF Moves, Ground, RangeInv, Base, Trail, DataInv
<1>2. state[s] = "LEADER"
  <2>1. newAppends[s] > 0
    BY DEF SendAppendEntries
  <2> QED BY <1>0, <2>1 DEF LeaderOK
<1>3. /\ m.to = Callee(s) /\ m.to \in Server /\ m.term = curTerm[s] /\ m.leaderCommit = commitIndex[s]
      /\ m.prevLogIndex = nextIndex[s][m.to] - 1
  BY <1>1 DEF EntriesSent, CurPeerInv, CalleeIsAPeer
<1>4. Whole(m, logs[s])
  <2>1. nextIndex[s][m.to] \in 1..(Len(logs[s]) + 1)
    BY <1>1, <1>2, <1>3 DEF RangeOK
  <2>2. PICK n, l : n = nextIndex[s][m.to] /\ l = Len(logs[s])
    OBVIOUS
  <2>3. l \in Nat /\ n \in 1..(l + 1)
    BY <1>0, <2>1, <2>2
  <2>4. n - 1 \in 0..l
    BY <2>3
  <2>5. m.prevLogIndex \in 0..Len(logs[s])
    BY <1>3, <2>2, <2>4
  <2> QED BY <1>0, <2>5, SentWhole
<1>5. OfTerm(E, curTerm[s], logs[s]) /\ <<curTerm[s], s>> \in elected
  BY <1>0, <1>2 DEF LogOK, LeaderOK
<1>6. OfTerm(F, m.term, logs[s])
  <2>1. OfTerm(F, curTerm[s], logs[s])
    BY <1>5, <1>g, ElectedStay
  <2> QED BY <1>3, <2>1
<1>7. H \subseteq G /\ A \subseteq B /\ H \subseteq Seq(Entries)
  BY <1>0, <1>g DEF Grown, History
<1>8. CommitOK(G, B, m.leaderCommit, logs[s], m.term)
  <2>1. commitIndex[s] > 0 => commitIndex[s] <= Len(logs[s]) /\ \A i \in 1..commitIndex[s] : logs[s][i] = logs[s][i]
    BY <1>1 DEF CommitOK
  <2>2. curTerm[s] <= curTerm[s]
    BY <1>0
  <2>3. CommitOK(G, B, commitIndex[s], logs[s], curTerm[s])
    BY <1>0, <1>1, <1>7, <2>1, <2>2, CommitStays
  <2> QED BY <1>3, <2>3
<1>9. B = A
  <2>1. ASSUME NEW a \in B, a \notin A PROVE FALSE
    <3>1. PICK n \in DOMAIN net : AckBy(H, A, E, G, F, a, n)
      BY <2>1, NewAck
    <3>2. n \notin DOMAIN net'
      BY <3>1 DEF AckBy, Taken
    <3>3. \E r : Send(r)
      BY DEF SendAppendEntries
    <3> QED BY <3>2, <3>3 DEF Send, BagAdd
  <2> QED BY <1>7, <2>1
<1>10. ASSUME NEW a \in B, a.term = m.term, a.by = m.to PROVE Begins(a.log, logs[s])
  <2>1. a.log \in H /\ OfTerm(E, curTerm[s], a.log)
    BY <1>0, <1>3, <1>9, <1>10 DEF PastOK
  <2>2. LastTerm(E[curTerm[s]]) <= curTerm[s] /\ E[curTerm[s]] \in Seq(Entries)
    <3>1. PICK e : e = <<curTerm[s], s>>
      OBVIOUS
    <3>2. e \in elected /\ e[1] = curTerm[s]
      BY <1>5, <3>1
    <3> QED BY <1>0, <3>2 DEF PastOK
  <2> QED BY <1>0, <1>2, <1>5, <2>1, <2>2, LeaderBegins
<1>11. logs[s] \in G
  BY <1>0, <1>7
<1> QED BY <1>4, <1>6, <1>8, <1>10, <1>11 DEF EntriesOK

\* Every step leaves calls whose entries are the end of a log of their leader.
LEMMA EntriesNext ==
    ASSUME LateThreads = FALSE, MaxRestart = 0,
           NEW H, NEW A, NEW E, NEW G, NEW B, NEW F, Moves(H, A, E, G, B, F),
           NEW m \in DOMAIN net', m.kind = "appendReq"
    PROVE  EntriesOK(G, B, F, m)
<1>1. CASE m \in DOMAIN net
  BY <1>1, EntriesKept
<1>2. CASE m \notin DOMAIN net
  <2>1. m.kind \notin VoteKinds /\ \A n : ~EntriesAnswered(n, m)
    BY DEF VoteKinds, EntriesAnswered
  <2>2. [Next]_vars
    BY MovesFrom
  <2>3. PICK s \in Server : SendAppendEntries(s) /\ EntriesSent(s, m)
    BY <1>2, <2>1, <2>2, NewCalls
  <2> QED BY <2>3, EntriesNew
<1> QED BY <1>1, <1>2

\* The server that takes entries keeps what it has committed, and commits no more than
\* the leader had.
LEMMA CommitTaken ==
    ASSUME LateThreads = FALSE, MaxRestart = 0,
           NEW H, NEW A, NEW E, NEW G, NEW B, NEW F, Moves(H, A, E, G, B, F),
           NEW m, NEW f, Taken(H, A, E, m, f), NEW p \in Server, m.to = p
    PROVE  CommitOK(G, B, commitIndex'[p], logs'[p], curTerm'[p])
<1>0. /\ History(H) /\ PastOK(H, A, E) /\ KeptOK(H, A, E) /\ ElectionSafety /\ VotesKept
      /\ E \in [Nat -> Seq(Entries)] /\ LogOK(A, E, p) /\ logs[p] \in H /\ logs[p] \in Seq(Entries)
      /\ curTerm[p] \in Nat /\ DOMAIN logs = Server /\ DOMAIN curTerm = Server
  <2>1. LogTypes /\ FieldsInv
    BY MovesFrom
  <2>2. DOMAIN logs = Server /\ DOMAIN curTerm = Server
    BY <2>1 DEF LogTypes, FieldsInv
  <2> QED BY <2>2, MovesFrom
<1>g. H \subseteq G /\ A \subseteq B
  <2>1. Grown(H, A, E, G, B, F)
    BY ToldGrows
  <2> QED BY <2>1 DEF Grown
<1>1. PICK t, c : t = m.term /\ c = commitIndex[p]
  OBVIOUS
<1>2. /\ f \in H /\ f \in Seq(Entries) /\ OfTerm(E, t, f) /\ CommitOK(H, A, m.leaderCommit, f, t)
      /\ \A a \in A : a.term = t /\ a.by = p => Begins(a.log, f)
      /\ t \in Nat /\ m.leaderCommit \in Nat /\ m.from # p /\ <<t, m.from>> \in elected /\ curTerm[p] <= t
  BY <1>1 DEF Taken
<1>3. c \in Nat /\ CommitOK(H, A, c, logs[p], curTerm[p]) /\ DOMAIN commitIndex = Server
  BY <1>1 DEF Moves, Ground, DataInv, Trail
<1>4. logs'[p] = f /\ curTerm'[p] = t /\ commitIndex'[p] = CommitAfter(c, m, f)
  BY <1>0, <1>1, <1>3 DEF Taken
<1>5. Len(f) \in Nat
  BY <1>2
<1>6. CASE c < m.leaderCommit
  <2>1. m.leaderCommit > 0
    BY <1>2, <1>3, <1>6
  <2>2. m.leaderCommit <= Len(f)
    BY <1>2, <2>1 DEF CommitOK
  <2>3. CommitAfter(c, m, f) = m.leaderCommit
    BY <1>2, <1>5, <1>6, <2>2 DEF CommitAfter, Min2
  <2>4. t <= t /\ H \subseteq Seq(Entries) /\ \A i \in 1..m.leaderCommit : f[i] = f[i]
    BY <1>0, <1>2 DEF History
  <2>5. CommitOK(G, B, m.leaderCommit, f, t)
    BY <1>2, <1>g, <2>2, <2>4, CommitStays
  <2> QED BY <1>4, <2>3, <2>5
<1>7. CASE ~(c < m.leaderCommit)
  <2>1. commitIndex'[p] = c
    BY <1>4, <1>7 DEF CommitAfter
  <2>2. ASSUME c > 0
        PROVE  c <= Len(f) /\ \A i \in 1..c : f[i] = logs[p][i]
    <3>1. PICK g : g = logs[p]
      OBVIOUS
    <3>2. PICK h \in H : /\ Committed(A, h) /\ LastTerm(h) <= curTerm[p] /\ c <= Len(h)
                         /\ \A i \in 1..c : g[i] = h[i]
      BY <1>3, <2>2, <3>1 DEF CommitOK
    <3>3. c <= Len(g) /\ g \in H /\ g \in Seq(Entries) /\ Len(g) \in Nat
      BY <1>0, <1>3, <2>2, <3>1 DEF CommitOK
    <3>4. h \in Seq(Entries) /\ Len(h) \in Nat /\ h # <<>> /\ ~Lost(A, h) /\ LastTerm(h) \in Nat
      <4>1. h \in Seq(Entries)
        BY <1>0 DEF History
      <4>2. ~Lost(A, h) /\ h # <<>>
        BY <3>2, NotLost DEF Committed
      <4> QED BY <4>1, <4>2, LastTermNat
    <3>5. E[t] \in Seq(Entries) /\ Len(E[t]) \in Nat /\ Begins(E[t], f)
      BY <1>0, <1>2 DEF OfTerm
    <3>6. LastTerm(h) <= t
      BY <1>0, <1>2, <3>2, <3>4
    <3>7. ASSUME Begins(h, f) PROVE c <= Len(f) /\ \A i \in 1..c : f[i] = g[i]
      <4>1. Len(h) <= Len(f) /\ \A i \in 1..Len(h) : f[i] = h[i]
        BY <3>7 DEF Begins
      <4>2. c <= Len(f)
        BY <1>3, <1>5, <3>2, <3>4, <4>1
      <4>3. \A i \in 1..c : i \in 1..Len(h)
        BY <1>3, <3>2, <3>4
      <4> QED BY <3>2, <4>1, <4>2, <4>3
    <3>8. CASE t > LastTerm(h)
      <4>1. PICK e : e = <<t, m.from>>
        OBVIOUS
      <4>2. e \in elected /\ e[1] = t
        BY <1>2, <4>1
      <4>3. Begins(h, E[t])
        BY <1>0, <3>4, <3>8, <4>2 DEF KeptOK
      <4>4. Begins(h, f)
        BY <1>2, <3>4, <3>5, <4>3, BeginsTrans
      <4> QED BY <3>1, <3>7, <4>4
    <3>9. CASE LastTerm(h) = t
      <4>1. OfTerm(E, t, h)
        BY <1>0, <3>4, <3>9 DEF PastOK
      <4>2. CASE c <= Len(E[t])
        <5>1. \A i \in 1..c : i \in 1..Len(E[t])
          BY <1>3, <3>5, <4>2
        <5>2. \A i \in 1..Len(E[t]) : h[i] = E[t][i] /\ f[i] = E[t][i]
          BY <3>5, <4>1 DEF OfTerm, Begins
        <5>3. Len(E[t]) <= Len(f)
          BY <3>5 DEF Begins
        <5>4. c <= Len(f)
          BY <1>3, <1>5, <3>5, <4>2, <5>3
        <5> QED BY <3>1, <3>2, <5>1, <5>2, <5>4
      <4>3. CASE ~(c <= Len(E[t]))
        <5>1. c \in (Len(E[t]) + 1)..Len(h) /\ c \in 1..c /\ c \in 1..Len(g)
          BY <1>3, <2>2, <3>2, <3>3, <3>4, <3>5, <4>3
        <5>2. g[c].term = t
          BY <3>2, <4>1, <5>1 DEF OfTerm
        <5>3. LastTerm(g) = t /\ curTerm[p] = t
          <6>1. t <= LastTerm(g)
            BY <1>0, <3>3, <5>1, <5>2 DEF PastOK
          <6>2. LastTerm(g) <= curTerm[p]
            BY <1>0, <3>1 DEF LogOK
          <6>3. LastTerm(g) \in Nat
            BY <3>3, LastTermNat
          <6>4. PICK x, y : x = LastTerm(g) /\ y = curTerm[p]
            OBVIOUS
          <6>5. x \in Nat /\ y \in Nat /\ t \in Nat
            BY <1>0, <1>2, <6>3, <6>4
          <6>6. t <= x /\ x <= y /\ y <= t
            BY <1>2, <6>1, <6>2, <6>4
          <6>7. x = t /\ y = t
            BY <6>5, <6>6
          <6> QED BY <6>4, <6>7
        <5>4. g # <<>>
          BY <5>1
        <5>5. Acked(A, p, g)
          <6>1. Acked(A, p, g) \/ <<t, p>> \in elected
            BY <1>0, <3>1, <5>3, <5>4 DEF LogOK
          <6>2. ASSUME <<t, p>> \in elected PROVE FALSE
            <7>1. PICK e : e = <<t, p>>
              OBVIOUS
            <7>2. PICK d : d = <<t, m.from>>
              OBVIOUS
            <7>3. e \in elected /\ d \in elected /\ e[1] = d[1] /\ e[2] = p /\ d[2] = m.from
              BY <1>2, <6>2, <7>1, <7>2
            <7>4. e = d
              BY <1>0, <7>3 DEF ElectionSafety
            <7> QED BY <1>2, <7>3, <7>4
          <6> QED BY <6>1, <6>2
        <5>6. PICK a \in A : a.term = t /\ a.by = p /\ Begins(g, a.log)
          BY <5>3, <5>5 DEF Acked
        <5>7. Begins(a.log, f) /\ a.log \in Seq(Entries)
          BY <1>0, <1>2, <5>6 DEF PastOK, History
        <5>8. Begins(g, f)
          BY <1>2, <3>3, <5>6, <5>7, BeginsTrans
        <5>9. Len(g) <= Len(f) /\ \A i \in 1..Len(g) : f[i] = g[i]
          BY <5>8 DEF Begins
        <5>10. c <= Len(f) /\ \A i \in 1..c : i \in 1..Len(g)
          BY <1>3, <1>5, <3>3, <5>9
        <5> QED BY <3>1, <5>9, <5>10
      <4> QED BY <4>2, <4>3
    <3>10. t > LastTerm(h) \/ LastTerm(h) = t
      BY <1>2, <3>4, <3>6
    <3> QED BY <3>8, <3>9, <3>10
  <2>3. H \subseteq Seq(Entries)
    BY <1>0 DEF History
  <2>4. CommitOK(G, B, c, f, t)
    BY <1>0, <1>2, <1>3, <1>g, <2>2, <2>3, CommitStays
  <2> QED BY <1>4, <2>1, <2>4
<1> QED BY <1>6, <1>7

-----------------------------------------------------------------------------
(* What is committed.                                                      *)

\* More than half of the servers are at the median or above.
LEMMA MedianHeld ==
    ASSUME NEW match \in [Server -> Int]
    PROVE  Median(match) \in Int /\ {p \in Server : match[p] >= Median(match)} \in Majorities
<1>1. Median(match) \in {match[p] : p \in Server} /\ Cardinality({p \in Server : match[p] < Median(match)}) <= Majority
  BY MedianFound
<1>2. PICK n : n = Median(match)
  OBVIOUS
<1>3. n \in Int
  BY <1>1, <1>2
<1>4. PICK B, Q : B = {p \in Server : match[p] < n} /\ Q = {p \in Server : match[p] >= n}
  OBVIOUS
<1>5. Q = Server \ B /\ B \subseteq Server /\ Q \subseteq Server
  BY <1>3, <1>4
<1>6. /\ IsFiniteSet(Server) /\ IsFiniteSet(B) /\ IsFiniteSet(Q)
      /\ Cardinality(B) \in Nat /\ Cardinality(Q) \in Nat
  BY <1>5, ServersFinite, FS_Subset, FS_CardinalityType
<1>7. Cardinality(Q) = Cardinality(Server) - Cardinality(Server \cap B)
  BY <1>5, <1>6, FS_Difference
<1>8. Server \cap B = B
  BY <1>5
<1>9. Cardinality(B) <= Majority
  BY <1>1, <1>2, <1>4
<1>10. Cardinality(Q) > Majority
  <2>1. PICK b, q, n1 : b = Cardinality(B) /\ q = Cardinality(Q) /\ n1 = Peers
    OBVIOUS
  <2>2. b \in Nat /\ q \in Nat /\ n1 \in Nat /\ q = n1 - b /\ b <= n1 \div 2 /\ n1 % 2 = 1
    BY <1>6, <1>7, <1>8, <1>9, <2>1, ServersFinite, PeersAssumption DEF Majority
  <2>3. q > n1 \div 2
    BY <2>2
  <2> QED BY <2>1, <2>3 DEF Majority
<1> QED BY <1>2, <1>3, <1>4, <1>5, <1>10 DEF Majorities

\* What more than half of the servers have acknowledged in the term of a leader is in its
\* log, and committed if it ends in that term.
LEMMA HeldCommitted ==
    ASSUME NEW H, NEW A, NEW E, History(H), PastOK(H, A, E), NEW s \in Server, state[s] = "LEADER",
           logs[s] \in H, curTerm[s] \in Nat, LeaderOK(s), LogOK(A, E, s),
           NEW n \in Nat, n > 0, NEW Q \in Majorities, \A q \in Q : AckedUpTo(A, curTerm[s], q, n)
    PROVE  n <= Len(logs[s]) /\ (logs[s][n].term = curTerm[s] => CommitOK(H, A, n, logs[s], curTerm[s]))
<1>1. PICK t, g : t = curTerm[s] /\ g = logs[s]
  OBVIOUS
<1>2. t \in Nat /\ g \in H /\ g \in Seq(Entries) /\ Len(g) \in Nat /\ E[t] \in Seq(Entries)
  <2>1. H \subseteq Seq(Entries)
    BY DEF History
  <2>2. E \in [Nat -> Seq(Entries)]
    BY DEF PastOK
  <2>3. t \in Nat /\ g \in H
    BY <1>1
  <2> QED BY <2>1, <2>2, <2>3
<1>h. H \subseteq Seq(Entries)
  BY DEF History
<1>3. ASSUME NEW q \in Q
      PROVE  \E a \in A : a.term = t /\ a.by = q /\ n <= Len(a.log) /\ Begins(a.log, g) /\ Len(a.log) \in Nat
                          /\ Len(a.log) <= Len(g)
  <2>1. PICK a \in A : a.term = t /\ a.by = q /\ n <= Len(a.log)
    BY <1>1, <1>3 DEF AckedUpTo
  <2>2. a.log \in H /\ OfTerm(E, t, a.log) /\ Len(a.log) \in Nat
    <3>1. a.log \in H /\ OfTerm(E, a.term, a.log)
      BY DEF PastOK
    <3> QED BY <1>h, <2>1, <3>1
  <2>3. LastTerm(E[curTerm[s]]) <= curTerm[s]
    <3>1. PICK e : e = <<curTerm[s], s>>
      OBVIOUS
    <3>2. e \in elected /\ e[1] = curTerm[s]
      BY <3>1 DEF LeaderOK
    <3> QED BY <3>2 DEF PastOK
  <2>4. OfTerm(E, curTerm[s], a.log) /\ OfTerm(E, curTerm[s], logs[s])
    BY <1>1, <2>2 DEF LogOK
  <2>5. Begins(a.log, logs[s])
    BY <1>1, <1>2, <2>2, <2>3, <2>4, LeaderBegins
  <2>6. Begins(a.log, g) /\ Len(a.log) <= Len(g)
    BY <1>1, <2>5 DEF Begins
  <2> QED BY <2>1, <2>2, <2>6
<1>4. n <= Len(g)
  <2>1. PICK q \in Q : TRUE
    BY MajoritiesMeet
  <2> QED BY <1>2, <1>3
<1>5. ASSUME g[n].term = t PROVE CommitOK(H, A, n, g, t)
  <2>1. PICK h : h = SubSeq(g, 1, n)
    OBVIOUS
  <2>2. n \in 0..Len(g) /\ n \in 1..n
    BY <1>2, <1>4
  <2>3. h \in H
    BY <1>2, <2>1, <2>2 DEF History
  <2>4. Len(h) = n /\ \A i \in 1..n : h[i] = g[i]
    BY <1>2, <2>1, <2>2, Beginning
  <2>5. h # <<>> /\ LastTerm(h) = t
    <3>1. h # <<>>
      BY <2>4
    <3>2. h[Len(h)] = g[n]
      BY <2>2, <2>4
    <3> QED BY <1>5, <3>1, <3>2 DEF LastTerm
  <2>6. ASSUME NEW q \in Q PROVE Acked(A, q, h)
    <3>1. PICK a \in A : /\ a.term = t /\ a.by = q /\ n <= Len(a.log) /\ Begins(a.log, g) /\ Len(a.log) \in Nat
      BY <1>3
    <3>2. \A i \in 1..n : i \in 1..Len(a.log)
      BY <3>1
    <3>3. \A i \in 1..n : a.log[i] = h[i]
      BY <2>4, <3>1, <3>2 DEF Begins
    <3>4. Begins(h, a.log)
      BY <2>4, <3>1, <3>3 DEF Begins
    <3> QED BY <2>5, <3>1, <3>4 DEF Acked
  <2>7. Committed(A, h)
    BY <2>5, <2>6 DEF Committed
  <2>8. LastTerm(h) <= t /\ n <= Len(h) /\ \A i \in 1..n : g[i] = h[i]
    BY <1>2, <2>4, <2>5
  <2> QED BY <1>4, <2>3, <2>7, <2>8 DEF CommitOK
<1> QED BY <1>1, <1>4, <1>5

\* An answer that counts commits nothing at a server that leads no more, and what more
\* than half of the servers have acknowledged at one that leads.
LEMMA CommitCounted ==
    ASSUME LateThreads = FALSE, MaxRestart = 0,
           NEW H, NEW A, NEW E, NEW G, NEW B, NEW F, Moves(H, A, E, G, B, F),
           NEW p \in Server, NEW m \in DOMAIN net, MatchReply(p, m)
    PROVE  CommitOK(G, B, commitIndex'[p], logs'[p], curTerm'[p])
<1>0. /\ FieldsInv /\ NetInv /\ History(H) /\ PastOK(H, A, E) /\ E \in [Nat -> Seq(Entries)] /\ logs[p] \in H
      /\ curTerm[p] \in Nat /\ LeaderOK(p) /\ LogOK(A, E, p) /\ Len(logs[p]) \in Nat
  BY MovesFrom
<1>1. DataInv /\ RangeInv /\ Trail(H, A, E) /\ AnswersTimely' /\ CommitOK(H, A, commitIndex[p], logs[p], curTerm[p])
      /\ DOMAIN commitIndex = Server /\ commitIndex[p] \in Nat
  BY DEF Moves, Ground, Trail, DataInv
<1>g. H \subseteq G /\ A \subseteq B /\ H \subseteq Seq(Entries)
  <2>1. Grown(H, A, E, G, B, F)
    BY ToldGrows
  <2> QED BY <1>0, <2>1 DEF Grown, History
<1>2. AppendReply(m) /\ m.from = p /\ m.success /\ ~(m.term > curTerm[m.from])
  BY DEF MatchReply
<1>3. UNCHANGED <<logs, curTerm>> /\ slips' = slips \cup {slip \in {"late"} :
                                          state[p] # "LEADER" /\ commitIndex'[p] # commitIndex[p]}
  BY <1>2 DEF AppendReply
<1>4. state[p] # "LEADER" => commitIndex'[p] = commitIndex[p]
  BY <1>1, <1>3 DEF AnswersTimely
<1>5. ASSUME NEW c \in Nat, CommitOK(H, A, c, logs[p], curTerm[p]), commitIndex'[p] = c
      PROVE  CommitOK(G, B, commitIndex'[p], logs'[p], curTerm'[p])
  <2>1. c > 0 => c <= Len(logs[p]) /\ \A i \in 1..c : logs[p][i] = logs[p][i]
    BY <1>5 DEF CommitOK
  <2>2. curTerm[p] <= curTerm[p]
    BY <1>0
  <2>3. CommitOK(G, B, c, logs[p], curTerm[p])
    BY <1>0, <1>g, <1>5, <2>1, <2>2, CommitStays
  <2> QED BY <1>3, <1>5, <2>3
<1>6. CASE commitIndex'[p] = commitIndex[p]
  BY <1>1, <1>5, <1>6
<1>7. CASE commitIndex'[p] # commitIndex[p]
  <2>0. state[p] = "LEADER"
    BY <1>4, <1>7
  <2>1. PICK next \in Int, match \in [Server -> Int], c \in Nat : Counted(m, next, match, c)
    BY <1>0, <1>1, <1>2, AnswerCounted
  <2>2. commitIndex'[p] = c /\ c \in CommitChoices(p, match)
    BY <1>1, <1>2, <2>1 DEF Counted
  <2>3. \A q \in Server : match[q] > 0 => AckedUpTo(A, curTerm[p], q, match[q])
    BY <1>0, <1>1, <2>0, <2>1, ReplyCounts
  <2>4. PICK n, Q : n = Median(match) /\ Q = {q \in Server : match[q] >= n}
    OBVIOUS
  <2>5. n \in Int /\ Q \in Majorities
    BY <2>4, MedianHeld
  <2>6. n \in Nat /\ n > 0 /\ ~(n <= commitIndex[p])
    <3>1. c # commitIndex[p]
      BY <1>7, <2>2
    <3>2. ~(n <= commitIndex[p])
      BY <2>2, <2>4, <3>1 DEF CommitChoices
    <3> QED BY <1>1, <2>5, <3>2
  <2>7. ASSUME NEW q \in Q PROVE AckedUpTo(A, curTerm[p], q, n)
    <3>1. q \in Server /\ match[q] \in Int /\ match[q] >= n
      BY <2>4
    <3>2. match[q] > 0
      BY <2>6, <3>1
    <3>3. PICK a \in A : a.term = curTerm[p] /\ a.by = q /\ match[q] <= Len(a.log)
      BY <2>3, <3>1, <3>2 DEF AckedUpTo
    <3>4. Len(a.log) \in Nat
      BY <1>0, <3>3 DEF PastOK, History
    <3>5. n <= Len(a.log)
      BY <2>6, <3>1, <3>3, <3>4
    <3> QED BY <3>3, <3>5 DEF AckedUpTo
  <2>8. n <= Len(logs[p]) /\ (logs[p][n].term = curTerm[p] => CommitOK(H, A, n, logs[p], curTerm[p]))
    BY <1>0, <2>0, <2>5, <2>6, <2>7, HeldCommitted
  <2>9. c = n /\ logs[p][n].term = curTerm[p]
    <3>1. ~(n > Len(logs[p]))
      BY <1>0, <2>6, <2>8
    <3> QED BY <1>7, <2>2, <2>4, <2>6, <3>1 DEF CommitChoices
  <2> QED BY <1>5, <2>2, <2>8, <2>9
<1> QED BY <1>6, <1>7


\* Only an answer that counts, or entries taken, move m_commitIndex.
LEMMA CommitMoves ==
    ASSUME DataInv, NetInv, MaxRestart = 0, restarts = 0, [Next]_vars, NEW p \in Server
    PROVE  \/ commitIndex'[p] = commitIndex[p]
           \/ \E m \in DOMAIN net : Takes(m) /\ m.to = p
           \/ \E m \in DOMAIN net : MatchReply(p, m)
<1>0. DOMAIN commitIndex = Server /\ \A m \in DOMAIN net : m.from \in Server /\ m.to \in Server
  BY DEF DataInv, NetInv, MessageOK
<1>1. ASSUME NEW q \in Server,
             \/ CallRequestVote(q) \/ SendAppendEntries(q) \/ CheckLogUptodate(q) \/ GrantVote(q)
             \/ ElectionTimeout(q) \/ ElectionDecided(q) \/ Heartbeat(q) \/ Start(q) \/ Kill(q)
      PROVE  UNCHANGED commitIndex
  BY <1>1 DEF CallRequestVote, SendAppendEntries, CheckLogUptodate, GrantVote, ElectionTimeout, ElectionDecided,
     Heartbeat, Start, Kill, leaderVars
<1>2. ASSUME NEW q \in Server, Restart(q) PROVE FALSE
  BY <1>2 DEF Restart
<1>3. ASSUME NEW m \in DOMAIN net, RequestVote(m) \/ VoteReply(m) PROVE UNCHANGED commitIndex
  BY <1>3 DEF RequestVote, VoteReply, leaderVars
<1>4. ASSUME NEW m \in DOMAIN net, AppendEntries(m)
      PROVE  commitIndex'[p] = commitIndex[p] \/ (Takes(m) /\ m.to = p)
  <2>1. CASE m.term < curTerm[m.to]
    BY <1>4, <2>1 DEF AppendEntries
  <2>2. CASE ~(m.term < curTerm[m.to]) /\ (TooShort(logs[m.to], m) \/ Mismatch(logs[m.to], m))
    BY <1>4, <2>2 DEF AppendEntries
  <2>3. CASE ~(m.term < curTerm[m.to]) /\ ~TooShort(logs[m.to], m) /\ ~Mismatch(logs[m.to], m)
    <3>1. \E c : commitIndex' = [commitIndex EXCEPT ![m.to] = c]
      BY <1>4, <2>3 DEF AppendEntries
    <3>2. Takes(m)
      BY <1>4, <2>3 DEF Takes
    <3>3. CASE m.to # p
      BY <1>0, <3>1, <3>3
    <3> QED BY <3>2, <3>3
  <2> QED BY <2>1, <2>2, <2>3
<1>5. ASSUME NEW m \in DOMAIN net, AppendReply(m) PROVE commitIndex'[p] = commitIndex[p] \/ MatchReply(p, m)
  <2>1. CASE m.term > curTerm[m.from] \/ ~m.success
    BY <1>5, <2>1 DEF AppendReply, leaderVars
  <2>2. CASE ~(m.term > curTerm[m.from]) /\ m.success
    <3>1. \E c : commitIndex' = [commitIndex EXCEPT ![m.from] = c]
      BY <1>5, <2>2 DEF AppendReply
    <3>2. CASE m.from = p
      BY <1>5, <2>2, <3>2 DEF MatchReply
    <3>3. CASE m.from # p
      BY <1>0, <3>1, <3>3
    <3> QED BY <3>2, <3>3
  <2> QED BY <2>1, <2>2
<1>6. ASSUME UNCHANGED vars PROVE UNCHANGED commitIndex
  BY <1>6 DEF vars, leaderVars
<1> QED BY <1>1, <1>2, <1>3, <1>4, <1>5, <1>6 DEF Next, ThreadStep

\* Every step keeps the commitments of every server.
LEMMA CommitNext ==
    ASSUME LateThreads = FALSE, MaxRestart = 0,
           NEW H, NEW A, NEW E, NEW G, NEW B, NEW F, Moves(H, A, E, G, B, F), NEW p \in Server
    PROVE  CommitOK(G, B, commitIndex'[p], logs'[p], curTerm'[p])
<1>0. /\ NetInv /\ History(H) /\ [Next]_vars /\ curTerm[p] \in Nat /\ curTerm'[p] \in Nat /\ curTerm'[p] >= curTerm[p]
  BY MovesFrom
<1>1. DataInv /\ restarts = 0 /\ CommitOK(H, A, commitIndex[p], logs[p], curTerm[p]) /\ commitIndex[p] \in Nat
  BY DEF Moves, Ground, RangeInv, Trail, DataInv
<1>g. H \subseteq G /\ A \subseteq B /\ H \subseteq Seq(Entries)
  <2>1. Grown(H, A, E, G, B, F)
    BY ToldGrows
  <2> QED BY <1>0, <2>1 DEF Grown, History
<1>2. ASSUME NEW m \in DOMAIN net, Takes(m), m.to = p
      PROVE  CommitOK(G, B, commitIndex'[p], logs'[p], curTerm'[p])
  <2>1. PICK a : TookAck(H, A, E, B, m, a)
    BY <1>2, TakesAck
  <2>2. PICK f : Taken(H, A, E, m, f)
    BY <2>1 DEF TookAck
  <2> QED BY <1>2, <2>2, CommitTaken
<1>3. ASSUME NEW m \in DOMAIN net, MatchReply(p, m)
      PROVE  CommitOK(G, B, commitIndex'[p], logs'[p], curTerm'[p])
  BY <1>3, CommitCounted
<1>4. CASE commitIndex'[p] = commitIndex[p]
  <2>1. ASSUME commitIndex[p] > 0 => commitIndex[p] <= Len(logs'[p]) /\ \A i \in 1..commitIndex[p] : logs'[p][i] = logs[p][i]
        PROVE  CommitOK(G, B, commitIndex'[p], logs'[p], curTerm'[p])
    <3>1. PICK c, log, new, t, u : c = commitIndex[p] /\ log = logs[p] /\ new = logs'[p] /\ t = curTerm[p] /\ u = curTerm'[p]
      OBVIOUS
    <3>2. c \in Nat /\ t \in Nat /\ u \in Nat /\ t <= u /\ CommitOK(H, A, c, log, t)
      BY <1>0, <1>1, <3>1
    <3>3. c > 0 => c <= Len(new) /\ \A i \in 1..c : new[i] = log[i]
      BY <2>1, <3>1
    <3>4. CommitOK(G, B, c, new, u)
      BY <1>g, <3>2, <3>3, CommitStays
    <3> QED BY <1>4, <3>1, <3>4
  <2>2. CASE logs'[p] = logs[p]
    <3>1. commitIndex[p] > 0 => commitIndex[p] <= Len(logs'[p]) /\ \A i \in 1..commitIndex[p] : logs'[p][i] = logs[p][i]
      BY <1>1, <2>2 DEF CommitOK
    <3> QED BY <2>1, <3>1
  <2>3. CASE Started(p, logs'[p])
    <3>1. PICK c, old, new : c = commitIndex[p] /\ old = logs[p] /\ new = logs'[p]
      OBVIOUS
    <3>2. Begins(old, new) /\ old \in Seq(Entries) /\ new \in Seq(Entries) /\ c \in Nat
      BY <1>1, <2>3, <3>1 DEF Started, DataInv, LogTypes
    <3>3. Len(old) \in Nat /\ Len(new) \in Nat /\ Len(old) <= Len(new) /\ \A i \in 1..Len(old) : new[i] = old[i]
      BY <3>2 DEF Begins
    <3>4. c > 0 => c <= Len(old)
      BY <1>1, <3>1 DEF CommitOK
    <3>5. c > 0 => c <= Len(new) /\ \A i \in 1..c : i \in 1..Len(old)
      BY <3>2, <3>3, <3>4
    <3>6. c > 0 => c <= Len(new) /\ \A i \in 1..c : new[i] = old[i]
      BY <3>3, <3>5
    <3> QED BY <2>1, <3>1, <3>6
  <2>4. CASE \E m \in DOMAIN net : TookLog(H, A, E, B, p, m)
    <3>1. PICK m, f : Taken(H, A, E, m, f) /\ m.to = p
      BY <2>4 DEF TookLog
    <3> QED BY <3>1, CommitTaken
  <2> QED BY <2>2, <2>3, <2>4, NextLog
<1> QED BY <1>0, <1>1, <1>2, <1>3, <1>4, CommitMoves

-----------------------------------------------------------------------------
(* At any time.                                                            *)

\* At a first start nothing has been acknowledged, and the only log is the empty one.
LEMMA TrailInit == Init => TrailInv
<1> SUFFICES ASSUME Init PROVE \E H, A, E : Known(H) /\ Trail(H, A, E)
  BY DEF TrailInv
<1>1. DOMAIN net = {} /\ elected = {} /\ ballots = {} /\ \A s \in Server : voting[s] = NoVote
  BY DEF Init, EmptyBag, SetToBag
<1>2. <<>> \in Seq(Entries) /\ Len(<<>>) = 0 /\ LastTerm(<<>>) = 0
  BY DEF LastTerm
<1>3. PICK H : H = {<<>>}
  OBVIOUS
<1>4. PICK E : E = [t \in Nat |-> <<>>]
  OBVIOUS
<1>5. E \in [Nat -> Seq(Entries)] /\ \A t \in Nat : E[t] = <<>>
  BY <1>2, <1>4
<1>6. Known(H)
  <2>1. ASSUME NEW i \in 0..Len(<<>>) PROVE SubSeq(<<>>, 1, i) = <<>>
    <3>1. i = 0
      BY <1>2
    <3> QED BY <3>1, SubSeqEmpty
  <2>2. History(H)
    BY <1>2, <1>3, <2>1 DEF History
  <2>3. \A s \in Server : logs[s] = <<>>
    BY DEF Init
  <2> QED BY <1>1, <1>3, <2>2, <2>3 DEF Known
<1>7. PastOK(H, {}, E) /\ KeptOK(H, {}, E)
  BY <1>1, <1>2, <1>3, <1>5 DEF PastOK, KeptOK
<1>8. VoteSafe(H, {}) /\ AsksOK
  <2>1. VoteSafe(H, {})
    BY <1>3 DEF VoteSafe
  <2>2. Asks = {}
    BY <1>1 DEF Asks, Pending, Serves, NoVote
  <2> QED BY <1>1, <2>1, <2>2 DEF AsksOK
<1>9. ASSUME NEW p \in Server
      PROVE  LogOK({}, E, p) /\ CountOK({}, p) /\ CommitOK(H, {}, commitIndex[p], logs[p], curTerm[p])
  <2>1. logs[p] = <<>> /\ curTerm[p] = 0 /\ state[p] = "FOLLOWER" /\ commitIndex[p] = 0
    BY DEF Init
  <2> QED BY <1>2, <2>1 DEF LogOK, CountOK, CommitOK
<1>10. Trail(H, {}, E)
  BY <1>1, <1>7, <1>8, <1>9 DEF Trail
<1> QED BY <1>6, <1>10

\* Before an answer in time there were only answers in time.
LEMMA TimelyBefore == FieldsInv /\ [Next]_vars => (AnswersTimely' => AnswersTimely)
BY SlipsGrow, CheckedBefore DEF AnswersTimely

\* Every step goes on from what there has been.
LEMMA TrailNext ==
    ASSUME LateThreads = FALSE, MaxRestart = 0, Ground, Ground', TrailInv, [Next]_vars
    PROVE  TrailInv'
<1> SUFFICES ASSUME AnswersTimely' PROVE \E G, B, F : Known(G)' /\ Trail(G, B, F)'
  BY DEF TrailInv
<1>1. AnswersTimely /\ LogsChecked /\ LogsChecked'
  <2>1. FieldsInv
    BY DEF Ground, Base
  <2> QED BY <2>1, TimelyBefore DEF AnswersTimely
<1>2. PICK H, A, E : Known(H) /\ Trail(H, A, E)
  BY <1>1 DEF TrailInv
<1>3. PICK G, B, F : Known(G)' /\ Told(H, A, E, G, B, F)
  BY <1>1, <1>2, HistoryTold
<1>4. Moves(H, A, E, G, B, F)
  BY <1>1, <1>2, <1>3 DEF Moves
<1>5. PastOK(G, B, F)'
  BY <1>4, PastNext
<1>6. KeptOK(G, B, F)'
  BY <1>4, KeptNext
<1>7. VoteSafe(G, B)'
  <2>1. Grown(H, A, E, G, B, F)
    BY <1>4, ToldGrows
  <2>2. VotesKept /\ VotesKept'
    BY <1>1 DEF LogsChecked
  <2> QED BY <1>2, <2>1, <2>2, VoteNext
<1>8. AsksOK'
  <2>1. VotesKept /\ VotesKept' /\ AsksOK
    BY <1>1, <1>2 DEF LogsChecked, Trail
  <2> QED BY <2>1, AsksNext
<1>9. ASSUME NEW p \in Server PROVE LogOK(B, F, p)' /\ CountOK(B, p)'
  <2>1. LogOK(B, F, p)'
    BY <1>4, LogOKNext
  <2>2. CountOK(B, p)'
    BY <1>4, CountNext
  <2> QED BY <2>1, <2>2
<1>10. ASSUME NEW p \in Server PROVE CommitOK(G, B, commitIndex'[p], logs'[p], curTerm'[p])
  BY <1>4, CommitNext
<1>11. ASSUME NEW m \in DOMAIN net', m.kind = "appendReq" PROVE EntriesOK(G, B, F, m)
  BY <1>4, <1>11, EntriesNext
<1>12. ASSUME NEW m \in DOMAIN net', m.kind = "appendRsp" PROVE AnswerOK(B, m)'
  BY <1>4, <1>12, AnswerNext
<1>13. Trail(G, B, F)'
  BY <1>5, <1>6, <1>7, <1>8, <1>9, <1>10, <1>11, <1>12 DEF Trail
<1> QED BY <1>3, <1>13

\* At any time.
LEMMA TrailAlways ==
    ASSUME Overlap = FALSE, LateThreads = FALSE, MaxRestart = 0
    PROVE  Spec => [](Ground /\ TrailInv)
<1>1. Init => TrailInv
  BY TrailInit
<1>2. Ground /\ Ground' /\ TrailInv /\ [Next]_vars => TrailInv'
  BY TrailNext
<1>3. Spec => [](CandidateInv /\ ElectedInv)
  BY ElectedAlways
<1>4. Spec => [](LeadInv /\ LogInv)
  BY LogsAlways
<1>5. Base /\ ElectInv /\ BallotInv /\ ElectedInv /\ ElectionSafety /\ LeadInv /\ DataInv /\ RangeInv <=> Ground
  BY DEF Ground
<1> QED BY <1>1, <1>2, <1>3, <1>4, <1>5, BaseAlways, ElectAlways, BallotAlways, RaftElectionSafety,
           DataAlways, RangeAlways, PTL DEF Spec

\* The indices a server keeps stay in the logs they point into, its own and those of its
\* peers: appendEntries (raft.cpp:643-697) never cuts a log below m_commitIndex, and
\* sendAppendEntries counts a peer no further than it answered (raft.cpp:573-583).
THEOREM RaftIndices ==
    ASSUME Overlap = FALSE, LateThreads = FALSE, MaxRestart = 0
    PROVE  Spec => []IndicesInLog
<1>1. Ground /\ TrailInv => CommitInLog
  <2> SUFFICES ASSUME Ground, TrailInv, AnswersTimely, NEW s \in Server PROVE commitIndex[s] <= Len(logs[s])
    BY DEF CommitInLog
  <2>1. PICK H, A, E : Trail(H, A, E)
    BY DEF TrailInv
  <2>2. CommitOK(H, A, commitIndex[s], logs[s], curTerm[s])
    BY <2>1 DEF Trail
  <2>3. commitIndex[s] \in Nat /\ Len(logs[s]) \in Nat
    BY DEF Ground, DataInv, LogTypes
  <2> QED BY <2>2, <2>3 DEF CommitOK
<1>2. TypeOK /\ NextIndexInRange /\ CommitInLog <=> IndicesInLog
  BY DEF IndicesInLog
<1> QED BY <1>1, <1>2, TrailAlways, RaftTyped, RaftNextIndex, PTL

\* Servers agree on the entries both consider committed, for any number of servers: a
\* leader commits what more than half of the servers have acknowledged in its term
\* (raft.cpp:576-583), checkLogUptodate (raft.cpp:424-437) lets nobody lead without it,
\* and the check of appendEntries (raft.cpp:662-691) spreads it as it is.  Of the answers
\* that come when a server leads no more, none has raised its m_commitIndex.
THEOREM RaftCommitted ==
    ASSUME Overlap = FALSE, LateThreads = FALSE, MaxRestart = 0
    PROVE  Spec => []StateMachineSafety
<1>1. Ground /\ TrailInv => StateMachineSafety
  <2> SUFFICES ASSUME Ground, TrailInv, AnswersTimely, NEW s \in Server, NEW p \in Server,
                      NEW i \in 1..Min2(Min2(commitIndex[s], commitIndex[p]), Min2(Len(logs[s]), Len(logs[p])))
               PROVE  logs[s][i] = logs[p][i]
    BY DEF StateMachineSafety, CommitsMatch
  <2>1. PICK H, A, E : Known(H) /\ Trail(H, A, E)
    BY DEF TrailInv
  <2>2. /\ commitIndex[s] \in Nat /\ Len(logs[s]) \in Nat /\ commitIndex[p] \in Nat /\ Len(logs[p]) \in Nat
    BY DEF Ground, DataInv, LogTypes
  <2>3. i \in 1..commitIndex[s] /\ i \in 1..commitIndex[p]
    BY <2>2 DEF Min2
  <2>4. /\ CommitOK(H, A, commitIndex[s], logs[s], curTerm[s]) /\ CommitOK(H, A, commitIndex[p], logs[p], curTerm[p])
        /\ PastOK(H, A, E) /\ KeptOK(H, A, E) /\ History(H)
    BY <2>1 DEF Trail, Known
  <2>5. ASSUME NEW q \in {s, p}
        PROVE  \E h \in H : Committed(A, h) /\ i \in 1..Len(h) /\ logs[q][i] = h[i]
    <3>1. commitIndex[q] > 0 /\ commitIndex[q] \in Nat /\ i \in 1..commitIndex[q]
      BY <2>2, <2>3
    <3>2. PICK h \in H : /\ Committed(A, h) /\ commitIndex[q] <= Len(h)
                         /\ \A j \in 1..commitIndex[q] : logs[q][j] = h[j]
      BY <2>4, <3>1 DEF CommitOK
    <3>3. Len(h) \in Nat
      BY <2>4 DEF History
    <3>4. i \in 1..Len(h)
      BY <3>1, <3>2, <3>3
    <3> QED BY <3>1, <3>2, <3>4
  <2>6. PICK g \in H : Committed(A, g) /\ i \in 1..Len(g) /\ logs[s][i] = g[i]
    BY <2>5
  <2>7. PICK h \in H : Committed(A, h) /\ i \in 1..Len(h) /\ logs[p][i] = h[i]
    BY <2>5
  <2>8. Begins(g, h) \/ Begins(h, g)
    BY <2>4, <2>6, <2>7, CommittedAgreeing
  <2> QED BY <2>6, <2>7, <2>8 DEF Begins
<1> QED BY <1>1, TrailAlways, PTL
=============================================================================
