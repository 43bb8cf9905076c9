----------------------------- MODULE RaftProofs -----------------------------
(***************************************************************************)
(* Proofs about Raft, for any odd number of servers and any bounds.        *)
(*                                                                         *)
(* The threads of a server that share cur_peerId always call another       *)
(* server.  When a server starts no round of calls before the last one is  *)
(* answered (Overlap = FALSE) the threads of a round call distinct peers,  *)
(* so its answers count servers: an election thread is never left waiting  *)
(* and, as every vote is on file when it is answered, a vote is cast once  *)
(* and a term has one leader, through every restart.                       *)
(*                                                                         *)
(* Then what the consistency check of appendEntries is worth               *)
(* (raft.cpp:643-691): two logs with an entry of the same term at the same *)
(* index agree up to it.  The argument keeps every log that a server ever  *)
(* had, with all its beginnings; of these, two that are equally long and   *)
(* end in the same term are the same, since only start() makes a new one,  *)
(* on the one leader of its term.  No server restarts here: saveRaftState  *)
(* does not truncate the file, so a restart may bring back any end of an   *)
(* older log.                                                              *)
(***************************************************************************)
EXTENDS Raft, FiniteSetTheorems, SequenceTheorems, TLAPS

\* The inductive invariant: cur_peerId is the number of a server, and it is not
\* the last server when that is the server itself.
CurPeerInv == cur_peerId \in [Server -> Server] /\ CalleeIsAPeer

\* Starting a round of calls resets the counter, and 0 is a good place to start.
LEMMA ResetOK ==
    ASSUME CurPeerInv, NEW s \in Server,
           cur_peerId' = [cur_peerId EXCEPT ![s] = 0]
    PROVE  CurPeerInv'
<1>1. Peers \in Nat /\ Peers > 2
  BY PeersAssumption
<1>2. 0 \in Server /\ 1 \in Server
  BY <1>1 DEF Server
<1>3. cur_peerId' \in [Server -> Server]
  BY <1>2 DEF CurPeerInv
<1>4. ASSUME NEW p \in Server PROVE Callee(p)' \in Server \ {p}
  <2>1. CASE p = s
    BY <1>2, <2>1 DEF Callee, CurPeerInv, Server
  <2>2. CASE p # s
    BY <2>2 DEF Callee, CurPeerInv, CalleeIsAPeer
  <2> QED BY <2>1, <2>2
<1> QED BY <1>3, <1>4 DEF CurPeerInv, CalleeIsAPeer

\* A thread that takes its peer leaves a good counter behind.
LEMMA AdvanceOK ==
    ASSUME CurPeerInv, NEW s \in Server,
           cur_peerId' = [cur_peerId EXCEPT ![s] = NextPeerId(s)]
    PROVE  CurPeerInv'
<1>1. Peers \in Nat /\ Peers > 2
  BY PeersAssumption
<1>2. Callee(s) \in Server \ {s}
  BY DEF CurPeerInv, CalleeIsAPeer
<1>3. NextPeerId(s) \in Server /\ (NextPeerId(s) = s => NextPeerId(s) + 1 \in Server)
  BY <1>1, <1>2 DEF NextPeerId, Server
<1>4. cur_peerId' \in [Server -> Server]
  BY <1>3 DEF CurPeerInv
<1>5. ASSUME NEW p \in Server PROVE Callee(p)' \in Server \ {p}
  <2>1. CASE p = s
    BY <1>3, <2>1 DEF Callee, CurPeerInv, Server
  <2>2. CASE p # s
    BY <2>2 DEF Callee, CurPeerInv, CalleeIsAPeer
  <2> QED BY <2>1, <2>2
<1> QED BY <1>4, <1>5 DEF CurPeerInv, CalleeIsAPeer

\* Steps that leave the counters alone.
LEMMA KeepOK ==
    ASSUME CurPeerInv, cur_peerId' = cur_peerId
    PROVE  CurPeerInv'
BY DEF CurPeerInv, CalleeIsAPeer, Callee

\* The counters stay good through every step.
LEMMA CurPeerAlways == Spec => []CurPeerInv
<1>1. Init => CurPeerInv
  <2> SUFFICES ASSUME Init PROVE CurPeerInv
    OBVIOUS
  <2>1. Peers \in Nat /\ Peers > 2
    BY PeersAssumption
  <2>2. 0 \in Server /\ 1 \in Server
    BY <2>1 DEF Server
  <2> QED BY <2>2 DEF Init, CurPeerInv, CalleeIsAPeer, Callee, Server
<1>2. CurPeerInv /\ [Next]_vars => CurPeerInv'
  <2> SUFFICES ASSUME CurPeerInv, [Next]_vars PROVE CurPeerInv'
    OBVIOUS
  <2>1. ASSUME NEW s \in Server, ElectionTimeout(s) \/ Restart(s) PROVE CurPeerInv'
    BY <2>1, ResetOK DEF ElectionTimeout, Restart
  <2>2. ASSUME NEW s \in Server, CallRequestVote(s) \/ SendAppendEntries(s)
        PROVE  CurPeerInv'
    BY <2>2, AdvanceOK DEF CallRequestVote, SendAppendEntries
  <2>3. ASSUME NEW s \in Server,
               \/ CheckLogUptodate(s) \/ GrantVote(s) \/ ElectionDecided(s)
               \/ Heartbeat(s) \/ Start(s) \/ Kill(s)
        PROVE  CurPeerInv'
    BY <2>3, KeepOK DEF CheckLogUptodate, GrantVote, ElectionDecided, Heartbeat,
       Start, Kill, threadVars
  <2>4. ASSUME NEW m \in DOMAIN net,
               RequestVote(m) \/ VoteReply(m) \/ AppendEntries(m) \/ AppendReply(m)
        PROVE  CurPeerInv'
    BY <2>4, KeepOK DEF RequestVote, VoteReply, AppendEntries, AppendReply
  <2>5. CASE UNCHANGED vars
    BY <2>5, KeepOK DEF vars, threadVars
  <2> QED BY <2>1, <2>2, <2>3, <2>4, <2>5 DEF Next, ThreadStep
<1> QED BY <1>1, <1>2, PTL DEF Spec

\* No thread of a server ever reads m_peers outside its bounds (raft.cpp:377,
\* 534) or calls its own server, however the vote and append threads interleave,
\* time out, are killed or restart.
THEOREM RaftCallees == Spec => []CalleeIsAPeer
<1>1. CurPeerInv => CalleeIsAPeer
  BY DEF CurPeerInv
<1> QED BY <1>1, CurPeerAlways, PTL

-----------------------------------------------------------------------------
(* The fields of the servers that an election is about.                    *)

\* Their types.
FieldsInv ==
    /\ state \in [Server -> {"LEADER", "CANDIDATE", "FOLLOWER"}]
    /\ curTerm \in [Server -> Nat]
    /\ votedFor \in [Server -> Server \cup {None}]
    /\ DOMAIN disk = Server
    /\ \A s \in Server : disk[s].term \in Nat /\ disk[s].voted \in Server \cup {None}
    /\ recvVotes \in [Server -> Nat] /\ finishedVote \in [Server -> Nat]
    /\ electing \in [Server -> BOOLEAN]
    /\ newVotes \in [Server -> Nat] /\ newAppends \in [Server -> Nat]
    /\ restarts \in Nat /\ lives \in [Server -> 0..restarts]

\* A call in progress, and the three things that identify it.
MessageOK(m) ==
    /\ m.kind \in VoteKinds \cup AppendKinds
    /\ m.from \in Server /\ m.to \in Server
    /\ m.life \in 0..restarts /\ m.term \in Nat
Key(m) == <<m.from, m.to, m.life>>

\* Server p is between the two locks of requestVote.
Serves(p) == voting[p].pc # "idle"
\* The calls in progress, those being served included.
Pending == DOMAIN net \cup {voting[p].m : p \in {q \in Server : Serves(q)}}

VoteOK(p) ==
    /\ voting[p] = [pc |-> voting[p].pc, m |-> voting[p].m, term |-> voting[p].term]
    /\ voting[p].pc \in {"idle", "check", "grant"} /\ voting[p].term \in Nat
    /\ Serves(p) => /\ MessageOK(voting[p].m) /\ voting[p].m.to = p
                    /\ voting[p].m.kind = "voteReq" /\ voting[p].m \notin DOMAIN net

\* Bags in which everything is there once.
Single(B) == IsABag(B) /\ \A m \in DOMAIN B : B[m] = 1

\* No two calls in progress have the same caller, callee and life.
NetInv ==
    /\ Single(net) /\ \A m \in DOMAIN net : MessageOK(m)
    /\ DOMAIN voting = Server /\ \A p \in Server : VoteOK(p)
    /\ \A m, n \in Pending : Key(m) = Key(n) => m = n

\* Sending, receiving and answering a call, in a bag without copies.
LEMMA AddOne ==
    ASSUME NEW B, Single(B), NEW m, m \notin DOMAIN B
    PROVE  Single(BagAdd(B, m)) /\ DOMAIN BagAdd(B, m) = DOMAIN B \cup {m}
BY DEF BagAdd, Single, IsABag

\* Taking a call out of the net leaves every other one there once.
LEMMA RemoveOne ==
    ASSUME NEW B, Single(B), NEW m \in DOMAIN B
    PROVE  Single(BagRemove(B, m)) /\ DOMAIN BagRemove(B, m) = DOMAIN B \ {m}
BY DEF BagRemove, Single, IsABag

\* saveRaftState writes a term and a vote of the right types.
LEMMA SavedOK ==
    ASSUME FieldsInv, NEW s \in Server, NEW file, NEW t \in Nat, NEW v \in Server \cup {None}, NEW log,
           disk' = [disk EXCEPT ![s] = Saved(file, t, v, log)]
    PROVE  /\ DOMAIN disk' = Server
           /\ \A p \in Server : disk'[p].term \in Nat /\ disk'[p].voted \in Server \cup {None}
<1>1. Saved(file, t, v, log).term = t /\ Saved(file, t, v, log).voted = v
  BY DEF Saved
<1>2. DOMAIN disk' = Server /\ disk'[s] = Saved(file, t, v, log)
      /\ \A p \in Server : p # s => disk'[p] = disk[p]
  BY DEF FieldsInv
<1> QED BY <1>1, <1>2 DEF FieldsInv

\* Make starts every server with fields of the right types.
LEMMA FieldsInit == Init => FieldsInv
<1> SUFFICES ASSUME Init PROVE FieldsInv
  OBVIOUS
<1>1. DOMAIN disk = Server /\ \A s \in Server : disk[s].term = 0 /\ disk[s].voted = None
  BY DEF Init, NoFile
<1> QED BY <1>1 DEF Init, FieldsInv

\* The threads of a server.
LEMMA FieldsServer ==
    ASSUME FieldsInv, NetInv, NEW s \in Server,
           \/ CallRequestVote(s) \/ SendAppendEntries(s) \/ CheckLogUptodate(s) \/ GrantVote(s)
           \/ ElectionTimeout(s) \/ ElectionDecided(s) \/ Heartbeat(s)
           \/ Start(s) \/ Kill(s) \/ Restart(s)
    PROVE  FieldsInv'
<1>0. Peers \in Nat /\ Peers - 1 \in Nat
  BY PeersAssumption
<1>1. CASE CallRequestVote(s)
  <2>1. newVotes[s] > 0 /\ newVotes' = [newVotes EXCEPT ![s] = newVotes[s] - 1]
        /\ UNCHANGED <<raftVars, recvVotes, finishedVote, electing, newAppends, historyVars>>
    BY <1>1 DEF CallRequestVote
  <2>2. newVotes' \in [Server -> Nat]
    BY <2>1 DEF FieldsInv
  <2> QED BY <2>1, <2>2 DEF FieldsInv, raftVars, historyVars
<1>2. CASE SendAppendEntries(s)
  <2>1. newAppends[s] > 0 /\ newAppends' = [newAppends EXCEPT ![s] = newAppends[s] - 1]
        /\ UNCHANGED <<raftVars, recvVotes, finishedVote, electing, newVotes, historyVars>>
    BY <1>2 DEF SendAppendEntries
  <2>2. newAppends' \in [Server -> Nat]
    BY <2>1 DEF FieldsInv
  <2> QED BY <2>1, <2>2 DEF FieldsInv, raftVars, historyVars
<1>3. CASE CheckLogUptodate(s)
  BY <1>3 DEF CheckLogUptodate, FieldsInv, raftVars, historyVars
<1>4. CASE GrantVote(s)
  <2>1. voting[s].m.from \in Server
    BY <1>4 DEF GrantVote, NetInv, VoteOK, MessageOK, Serves
  <2>2. votedFor' = [votedFor EXCEPT ![s] = voting[s].m.from] /\ UNCHANGED <<state, curTerm>>
        /\ UNCHANGED <<recvVotes, finishedVote, electing, newVotes, newAppends, restarts, lives>>
    BY <1>4 DEF GrantVote
  <2>3. disk' = [disk EXCEPT ![s] = Saved(disk[s], curTerm'[s], votedFor'[s], logs'[s])]
    BY <1>4 DEF GrantVote, SaveVote, Save
  <2>4. votedFor' \in [Server -> Server \cup {None}] /\ curTerm' \in [Server -> Nat]
    BY <2>1, <2>2 DEF FieldsInv
  <2>5. curTerm'[s] \in Nat /\ votedFor'[s] \in Server \cup {None}
    BY <2>4
  <2> QED BY <2>2, <2>3, <2>4, <2>5, SavedOK DEF FieldsInv
<1>5. CASE ElectionTimeout(s)
  <2>1. /\ state' = [state EXCEPT ![s] = "CANDIDATE"]
        /\ curTerm' = [curTerm EXCEPT ![s] = @ + 1]
        /\ votedFor' = [votedFor EXCEPT ![s] = s]
        /\ recvVotes' = [recvVotes EXCEPT ![s] = 1]
        /\ finishedVote' = [finishedVote EXCEPT ![s] = 1]
        /\ newVotes' = [newVotes EXCEPT ![s] = @ + Peers - 1]
        /\ electing' = [electing EXCEPT ![s] = TRUE]
        /\ UNCHANGED <<newAppends, restarts, lives>>
        /\ disk' = [disk EXCEPT ![s] = Saved(disk[s], curTerm'[s], votedFor'[s], logs'[s])]
    BY <1>5 DEF ElectionTimeout, Save
  <2>2. votedFor' \in [Server -> Server \cup {None}] /\ curTerm' \in [Server -> Nat]
    BY <2>1 DEF FieldsInv
  <2>3. newVotes' \in [Server -> Nat]
    BY <1>0, <2>1 DEF FieldsInv
  <2>4. curTerm'[s] \in Nat /\ votedFor'[s] \in Server \cup {None}
    BY <2>2
  <2> QED BY <2>1, <2>2, <2>3, <2>4, SavedOK DEF FieldsInv
<1>6. CASE ElectionDecided(s)
  BY <1>6 DEF ElectionDecided, FieldsInv
<1>7. CASE Heartbeat(s)
  BY <1>0, <1>7 DEF Heartbeat, FieldsInv, raftVars
<1>8. CASE Start(s)
  BY <1>8 DEF Start, FieldsInv, threadVars
<1>9. CASE Kill(s)
  BY <1>9 DEF Kill, FieldsInv, raftVars, historyVars
<1>10. CASE Restart(s)
  <2>1. curTerm' \in [Server -> Nat] /\ votedFor' \in [Server -> Server \cup {None}]
    BY <1>10 DEF Restart, FieldsInv
  <2>2. restarts' = restarts + 1 /\ lives' \in [Server -> 0..restarts']
    BY <1>10 DEF Restart, FieldsInv
  <2> QED BY <1>10, <2>1, <2>2 DEF Restart, FieldsInv
<1> QED BY <1>1, <1>2, <1>3, <1>4, <1>5, <1>6, <1>7, <1>8, <1>9, <1>10

\* The handlers of calls and of their answers.
LEMMA FieldsCall ==
    ASSUME FieldsInv, NetInv, NEW m \in DOMAIN net,
           RequestVote(m) \/ VoteReply(m) \/ AppendEntries(m) \/ AppendReply(m)
    PROVE  FieldsInv'
<1>0. MessageOK(m) /\ m.from \in Server /\ m.to \in Server /\ m.term \in Nat
  BY DEF NetInv, MessageOK
<1>1. CASE RequestVote(m)
  <2>1. UNCHANGED <<recvVotes, finishedVote, electing, newVotes, newAppends, restarts, lives>>
    BY <1>1 DEF RequestVote, historyVars
  <2>2. \/ UNCHANGED raftVars
        \/ /\ state' = [state EXCEPT ![m.to] = IF curTerm[m.to] < m.term THEN "FOLLOWER" ELSE @]
           /\ curTerm' = [curTerm EXCEPT ![m.to] = m.term]
           /\ votedFor' = [votedFor EXCEPT ![m.to] = IF curTerm[m.to] < m.term THEN None ELSE votedFor[m.to]]
           /\ UNCHANGED disk \/ Save(m.to)
    BY <1>1 DEF RequestVote
  <2>3. state' \in [Server -> {"LEADER", "CANDIDATE", "FOLLOWER"}] /\ curTerm' \in [Server -> Nat]
        /\ votedFor' \in [Server -> Server \cup {None}]
    BY <1>0, <2>2 DEF FieldsInv, raftVars
  <2>4. curTerm'[m.to] \in Nat /\ votedFor'[m.to] \in Server \cup {None}
    BY <1>0, <2>3
  <2> QED BY <1>0, <2>1, <2>2, <2>3, <2>4, SavedOK DEF FieldsInv, Save, raftVars
<1>2. CASE VoteReply(m)
  <2>1. UNCHANGED <<disk, electing, newVotes, newAppends, restarts, lives>>
        /\ finishedVote' = [finishedVote EXCEPT ![m.from] = finishedVote[m.from] + 1]
    BY <1>2 DEF VoteReply, FinishedAfter
  <2>2. CASE m.term > curTerm[m.from]
    <3>1. state' = [state EXCEPT ![m.from] = "FOLLOWER"] /\ UNCHANGED recvVotes
          /\ curTerm' = [curTerm EXCEPT ![m.from] = IF disk[m.from].exists THEN disk[m.from].term ELSE m.term]
          /\ votedFor' = [votedFor EXCEPT ![m.from] = IF disk[m.from].exists THEN disk[m.from].voted ELSE None]
      BY <1>2, <2>2 DEF VoteReply
    <3> QED BY <1>0, <2>1, <3>1 DEF FieldsInv
  <2>3. CASE ~(m.term > curTerm[m.from])
    <3>1. UNCHANGED <<state, curTerm, votedFor>>
          /\ recvVotes' = [recvVotes EXCEPT ![m.from] = IF m.granted THEN @ + 1 ELSE @]
      BY <1>2, <2>3 DEF VoteReply
    <3> QED BY <1>0, <2>1, <3>1 DEF FieldsInv
  <2> QED BY <2>2, <2>3
<1>3. CASE AppendEntries(m)
  <2>1. UNCHANGED <<recvVotes, finishedVote, electing, newVotes, newAppends, restarts, lives>>
    BY <1>3 DEF AppendEntries
  <2>2. CASE m.term < curTerm[m.to]
    BY <1>3, <2>1, <2>2 DEF AppendEntries, raftVars, FieldsInv
  <2>3. CASE ~(m.term < curTerm[m.to])
    <3>1. /\ state' = [state EXCEPT ![m.to] = "FOLLOWER"]
          /\ curTerm' = [curTerm EXCEPT ![m.to] = m.term]
          /\ votedFor' = [votedFor EXCEPT ![m.to] = IF m.term > curTerm[m.to] THEN None ELSE @]
      BY <1>3, <2>3 DEF AppendEntries
    <3>2. \/ disk' = [disk EXCEPT ![m.to] = disk[m.to]]
          \/ disk' = [disk EXCEPT ![m.to] = Saved(disk[m.to], curTerm[m.to], None, logs[m.to])]
          \/ \E file : disk' = [disk EXCEPT ![m.to] = Saved(file, m.term, votedFor'[m.to], Synced(logs[m.to], m))]
      BY <1>3, <2>3 DEF AppendEntries
    <3>3. votedFor' \in [Server -> Server \cup {None}] /\ curTerm' \in [Server -> Nat]
      BY <1>0, <3>1 DEF FieldsInv
    <3>4. votedFor'[m.to] \in Server \cup {None} /\ curTerm[m.to] \in Nat /\ None \in Server \cup {None}
      BY <1>0, <3>3 DEF FieldsInv
    <3>5. DOMAIN disk' = Server
          /\ \A p \in Server : disk'[p].term \in Nat /\ disk'[p].voted \in Server \cup {None}
      <4>1. CASE disk' = [disk EXCEPT ![m.to] = disk[m.to]]
        BY <4>1 DEF FieldsInv
      <4>2. CASE disk' = [disk EXCEPT ![m.to] = Saved(disk[m.to], curTerm[m.to], None, logs[m.to])]
        BY <1>0, <3>4, <4>2, SavedOK
      <4>3. ASSUME NEW file, disk' = [disk EXCEPT ![m.to] = Saved(file, m.term, votedFor'[m.to], Synced(logs[m.to], m))]
            PROVE  DOMAIN disk' = Server
                   /\ \A p \in Server : disk'[p].term \in Nat /\ disk'[p].voted \in Server \cup {None}
        BY <1>0, <3>4, <4>3, SavedOK
      <4> QED BY <3>2, <4>1, <4>2, <4>3
    <3> QED BY <1>0, <2>1, <3>1, <3>3, <3>5 DEF FieldsInv
  <2> QED BY <2>2, <2>3
<1>4. CASE AppendReply(m)
  <2>1. UNCHANGED <<recvVotes, finishedVote, electing, newVotes, newAppends, restarts, lives>>
        /\ disk' = [disk EXCEPT ![m.from] = Saved(disk[m.from], curTerm'[m.from], votedFor'[m.from], logs'[m.from])]
    BY <1>4 DEF AppendReply, historyVars, Save
  <2>2. \/ /\ state' = [state EXCEPT ![m.from] = "FOLLOWER"]
           /\ curTerm' = [curTerm EXCEPT ![m.from] = m.term]
           /\ votedFor' = [votedFor EXCEPT ![m.from] = None]
        \/ UNCHANGED <<state, curTerm, votedFor>>
    BY <1>4 DEF AppendReply
  <2>3. state' \in [Server -> {"LEADER", "CANDIDATE", "FOLLOWER"}] /\ curTerm' \in [Server -> Nat]
        /\ votedFor' \in [Server -> Server \cup {None}]
    BY <1>0, <2>2 DEF FieldsInv
  <2>4. curTerm'[m.from] \in Nat /\ votedFor'[m.from] \in Server \cup {None}
    BY <1>0, <2>3
  <2> QED BY <1>0, <2>1, <2>3, <2>4, SavedOK DEF FieldsInv
<1> QED BY <1>1, <1>2, <1>3, <1>4

\* Every step keeps the types.
LEMMA FieldsNext == FieldsInv /\ NetInv /\ [Next]_vars => FieldsInv'
<1> SUFFICES ASSUME FieldsInv, NetInv, [Next]_vars PROVE FieldsInv'
  OBVIOUS
<1>1. CASE UNCHANGED vars
  BY <1>1 DEF FieldsInv, vars, raftVars, threadVars, historyVars
<1> QED BY <1>1, FieldsServer, FieldsCall DEF Next, ThreadStep

-----------------------------------------------------------------------------
(* The calls in progress: how a step changes them.                         *)

\* A new call, of which none is in progress.
LEMMA AskStep ==
    ASSUME NetInv, NEW m, MessageOK(m), \A n \in Pending : Key(n) # Key(m),
           Send(m), UNCHANGED <<voting, restarts>>
    PROVE  NetInv' /\ Pending' = Pending \cup {m}
<1>1. m \notin DOMAIN net
  BY DEF Pending
<1>2. Single(net') /\ DOMAIN net' = DOMAIN net \cup {m}
  BY <1>1, AddOne DEF NetInv, Send
<1>3. Pending' = Pending \cup {m}
  BY <1>2 DEF Pending, Serves
<1>4. \A n \in DOMAIN net' : MessageOK(n)'
  BY <1>2 DEF NetInv, MessageOK
<1>5. ASSUME NEW p \in Server PROVE VoteOK(p)'
  <2>1. Serves(p) => voting[p].m \in Pending
    BY DEF Pending
  <2>2. Serves(p) => voting[p].m # m
    BY <2>1
  <2> QED BY <1>2, <2>2 DEF NetInv, VoteOK, Serves, MessageOK
<1>6. \A n, q \in Pending' : Key(n) = Key(q) => n = q
  BY <1>3 DEF NetInv
<1> QED BY <1>2, <1>3, <1>4, <1>5, <1>6 DEF NetInv, Key

\* A request in the net is answered.
LEMMA AnswerStep ==
    ASSUME NetInv, NEW m \in DOMAIN net, NEW r, MessageOK(r), Key(r) = Key(m),
           Answer(m, r), UNCHANGED <<voting, restarts>>
    PROVE  NetInv' /\ Pending' = (Pending \ {m}) \cup {r} /\ m \in Pending
<1>1. Single(net) /\ m \in Pending /\ \A n \in DOMAIN net : n \in Pending
  BY DEF NetInv, Pending
<1>2. r \notin DOMAIN net \ {m}
  BY <1>1 DEF NetInv
<1>3. Single(BagRemove(net, m)) /\ DOMAIN BagRemove(net, m) = DOMAIN net \ {m}
  BY <1>1, RemoveOne
<1>4. Single(net') /\ DOMAIN net' = (DOMAIN net \ {m}) \cup {r}
  BY <1>2, <1>3, AddOne DEF Answer
<1>5. \A p \in Server : Serves(p) => voting[p].m \in Pending /\ voting[p].m # m /\ voting[p].m # r
  BY <1>1 DEF NetInv, VoteOK, Pending
<1>6. Pending' = (Pending \ {m}) \cup {r}
  BY <1>4, <1>5 DEF Pending, Serves
<1>7. \A n \in DOMAIN net' : MessageOK(n)'
  BY <1>4 DEF NetInv, MessageOK
<1>8. \A p \in Server : VoteOK(p)'
  BY <1>4, <1>5 DEF NetInv, VoteOK, Serves, MessageOK
<1>9. \A n, q \in Pending' : Key(n) = Key(q) => n = q
  BY <1>1, <1>6 DEF NetInv
<1> QED BY <1>1, <1>4, <1>6, <1>7, <1>8, <1>9 DEF NetInv, Key

\* The service of a call goes on: it leaves the net, or the first lock is behind it.
LEMMA TakeStep ==
    ASSUME NetInv, NEW m \in DOMAIN net, m.kind = "voteReq", ~Serves(m.to), NEW t \in Nat,
           voting' = [voting EXCEPT ![m.to] = [pc |-> "check", m |-> m, term |-> t]],
           Receive(m), UNCHANGED restarts
    PROVE  NetInv' /\ Pending' = Pending
<1>1. Single(net) /\ MessageOK(m) /\ m.to \in Server
  BY DEF NetInv, MessageOK
<1>2. Single(net') /\ DOMAIN net' = DOMAIN net \ {m}
  BY <1>1, RemoveOne DEF Receive
<1>3. /\ \A p \in Server : p # m.to => voting'[p] = voting[p]
      /\ voting'[m.to] = [pc |-> "check", m |-> m, term |-> t] /\ DOMAIN voting' = Server
  BY <1>1 DEF NetInv
<1>4. voting'[m.to].pc = "check" /\ voting'[m.to].m = m /\ voting'[m.to].term = t
  BY <1>3
<1>5. Pending' = Pending
  <2>1. \A n : n \in Pending <=> n \in DOMAIN net \/ \E p \in Server : Serves(p) /\ n = voting[p].m
    BY DEF Pending
  <2>2. \A n : n \in Pending' <=> n \in DOMAIN net' \/ \E p \in Server : Serves(p)' /\ n = voting'[p].m
    BY DEF Pending
  <2>3. \A p \in Server : p # m.to => (Serves(p)' <=> Serves(p)) /\ voting'[p].m = voting[p].m
    BY <1>3 DEF Serves
  <2>4. Serves(m.to)'
    BY <1>4 DEF Serves
  <2>5. \A n : n \in Pending => n \in Pending'
    BY <1>1, <1>2, <1>4, <2>1, <2>2, <2>3, <2>4
  <2>6. \A n : n \in Pending' => n \in Pending
    BY <1>1, <1>2, <1>4, <2>1, <2>2, <2>3, <2>4
  <2> QED BY <2>5, <2>6
<1>6. \A n \in DOMAIN net' : MessageOK(n)'
  BY <1>2 DEF NetInv, MessageOK
<1>7. ASSUME NEW p \in Server PROVE VoteOK(p)'
  <2>1. CASE p = m.to
    BY <1>1, <1>2, <1>3, <1>4, <2>1 DEF VoteOK, Serves, MessageOK
  <2>2. CASE p # m.to
    BY <1>2, <1>3, <2>2 DEF NetInv, VoteOK, Serves, MessageOK
  <2> QED BY <2>1, <2>2
<1> QED BY <1>2, <1>3, <1>5, <1>6, <1>7 DEF NetInv, Key

\* The log was looked at (checkLogUptodate); the call is still being served.
LEMMA CheckStep ==
    ASSUME NetInv, NEW s \in Server, Serves(s),
           voting' = [voting EXCEPT ![s].pc = "grant"], UNCHANGED <<net, restarts>>
    PROVE  NetInv' /\ Pending' = Pending
<1>1. VoteOK(s) /\ DOMAIN voting = Server
  BY DEF NetInv
<1>2. /\ \A p \in Server : p # s => voting'[p] = voting[p]
      /\ voting'[s] = [voting[s] EXCEPT !.pc = "grant"] /\ DOMAIN voting' = Server
  BY <1>1
<1>3. /\ voting'[s] = [pc |-> "grant", m |-> voting[s].m, term |-> voting[s].term]
  BY <1>1, <1>2 DEF VoteOK
<1>4. voting'[s].pc = "grant" /\ voting'[s].m = voting[s].m /\ voting'[s].term = voting[s].term
  BY <1>3
<1>5. Pending' = Pending
  <2>1. \A p \in Server : (Serves(p)' <=> Serves(p)) /\ (Serves(p) => voting'[p].m = voting[p].m)
    BY <1>2, <1>4 DEF Serves
  <2> QED BY <2>1 DEF Pending
<1>6. ASSUME NEW p \in Server PROVE VoteOK(p)'
  <2>1. CASE p = s
    BY <1>1, <1>3, <1>4, <2>1 DEF VoteOK, Serves, MessageOK
  <2>2. CASE p # s
    BY <1>2, <2>2 DEF NetInv, VoteOK, Serves, MessageOK
  <2> QED BY <2>1, <2>2
<1> QED BY <1>2, <1>5, <1>6 DEF NetInv, Key, MessageOK

\* The vote that s was serving is answered.
LEMMA ReplyStep ==
    ASSUME NetInv, NEW s \in Server, Serves(s), NEW r, MessageOK(r), Key(r) = Key(voting[s].m),
           voting' = [voting EXCEPT ![s] = NoVote], Send(r), UNCHANGED restarts
    PROVE  NetInv' /\ Pending' = (Pending \ {voting[s].m}) \cup {r} /\ voting[s].m \in Pending
<1>1. Single(net) /\ voting[s].m \in Pending /\ \A n \in DOMAIN net : n \in Pending
  BY DEF NetInv, Pending
<1>2. r \notin DOMAIN net
  BY <1>1 DEF NetInv, VoteOK
<1>3. Single(net') /\ DOMAIN net' = DOMAIN net \cup {r}
  BY <1>1, <1>2, AddOne DEF Send
<1>4. /\ \A p \in Server : p # s => voting'[p] = voting[p]
      /\ voting'[s] = NoVote /\ DOMAIN voting' = Server
  BY DEF NetInv
<1>5. ~Serves(s)' /\ VoteOK(s)'
  BY <1>4 DEF Serves, NoVote, VoteOK
<1>6. \A p \in Server : p # s => (Serves(p)' <=> Serves(p)) /\ voting'[p].m = voting[p].m
  BY <1>4 DEF Serves
<1>7. \A p \in Server : p # s /\ Serves(p) => voting[p].m # voting[s].m /\ voting[p].m # r
  <2> SUFFICES ASSUME NEW p \in Server, p # s, Serves(p) PROVE voting[p].m # voting[s].m /\ voting[p].m # r
    OBVIOUS
  <2>1. voting[p].m.to = p /\ voting[s].m.to = s
    BY DEF NetInv, VoteOK
  <2>2. r.to = s
    BY <2>1 DEF Key
  <2> QED BY <2>1, <2>2
<1>8. Pending' = (Pending \ {voting[s].m}) \cup {r}
  <2>1. \A n : n \in Pending <=> n \in DOMAIN net \/ \E p \in Server : Serves(p) /\ n = voting[p].m
    BY DEF Pending
  <2>2. \A n : n \in Pending' <=> n \in DOMAIN net' \/ \E p \in Server : Serves(p)' /\ n = voting'[p].m
    BY DEF Pending
  <2>3. voting[s].m \notin DOMAIN net
    BY DEF NetInv, VoteOK
  <2>4. \A n : n \in Pending /\ n # voting[s].m => n \in Pending'
    BY <1>3, <1>6, <2>1, <2>2
  <2>5. \A n \in Pending' : n = r \/ (n \in Pending /\ n # voting[s].m)
    BY <1>3, <1>5, <1>6, <1>7, <2>1, <2>2, <2>3
  <2>6. r \in Pending'
    BY <1>3, <2>2
  <2> QED BY <2>4, <2>5, <2>6
<1>9. \A n \in DOMAIN net' : MessageOK(n)'
  BY <1>3 DEF NetInv, MessageOK
<1>10. ASSUME NEW p \in Server, p # s PROVE VoteOK(p)'
  BY <1>3, <1>4, <1>7, <1>10 DEF NetInv, VoteOK, Serves, MessageOK
<1>11. \A n, q \in Pending' : Key(n) = Key(q) => n = q
  BY <1>1, <1>8 DEF NetInv
<1> QED BY <1>1, <1>3, <1>4, <1>5, <1>8, <1>9, <1>10, <1>11 DEF NetInv, Key

\* The caller takes an answer.
LEMMA EndStep ==
    ASSUME NetInv, NEW m \in DOMAIN net, Receive(m), UNCHANGED <<voting, restarts>>
    PROVE  NetInv' /\ Pending' = Pending \ {m} /\ m \in Pending
<1>1. Single(net') /\ DOMAIN net' = DOMAIN net \ {m}
  BY RemoveOne DEF NetInv, Receive
<1>2. \A p \in Server : Serves(p) => voting[p].m # m
  BY DEF NetInv, VoteOK
<1>3. Pending' = Pending \ {m} /\ m \in Pending
  BY <1>1, <1>2 DEF Pending, Serves
<1>4. \A n \in DOMAIN net' : MessageOK(n)'
  BY <1>1 DEF NetInv, MessageOK
<1>5. \A p \in Server : VoteOK(p)'
  BY <1>1 DEF NetInv, VoteOK, Serves, MessageOK
<1>6. \A n, q \in Pending' : Key(n) = Key(q) => n = q
  BY <1>3 DEF NetInv
<1> QED BY <1>1, <1>3, <1>4, <1>5, <1>6 DEF NetInv, Key

\* A restart of s forgets the vote s was serving.
LEMMA RestartStep ==
    ASSUME NetInv, NEW s \in Server, restarts \in Nat, restarts' = restarts + 1,
           voting' = [voting EXCEPT ![s] = NoVote], UNCHANGED net
    PROVE  NetInv' /\ Pending' \subseteq Pending
<1>1. /\ \A p \in Server : p # s => voting'[p] = voting[p]
      /\ voting'[s] = NoVote /\ DOMAIN voting' = Server
  BY DEF NetInv
<1>2. ~Serves(s)' /\ VoteOK(s)'
  BY <1>1 DEF Serves, NoVote, VoteOK
<1>3. \A p \in Server : p # s => (Serves(p)' <=> Serves(p)) /\ voting'[p].m = voting[p].m
  BY <1>1 DEF Serves
<1>4. Pending' \subseteq Pending
  BY <1>2, <1>3 DEF Pending
<1>5. \A n : MessageOK(n) => MessageOK(n)'
  BY DEF MessageOK
<1>6. ASSUME NEW p \in Server, p # s PROVE VoteOK(p)'
  BY <1>1, <1>5, <1>6 DEF NetInv, VoteOK, Serves
<1>7. \A n, q \in Pending' : Key(n) = Key(q) => n = q
  BY <1>4 DEF NetInv
<1> QED BY <1>1, <1>2, <1>4, <1>5, <1>6, <1>7 DEF NetInv, Key

-----------------------------------------------------------------------------
(* The rounds of calls.                                                    *)

\* The calls of s in its present life, and whom it waits for.
OwnCalls(s) == {m \in Pending : m.from = s /\ m.life = lives[s]}
Waits(s) == {m.to : m \in OwnCalls(s)}

\* A round of calls: the threads not yet scheduled, and the peers left for them.
RoundSize(s) == newVotes[s] + newAppends[s]
Remaining(s) == {p \in Server \ {s} : RoundSize(s) > 0 /\ p >= Callee(s)}

\* A round is of votes or of appends.  The threads not yet scheduled are as many as
\* the peers from the callee on, and the calls in progress are to peers before it.
\* The last thread leaves the counter where the next round begins.
RoundInv ==
    \A s \in Server :
        /\ newVotes[s] = 0 \/ newAppends[s] = 0
        /\ RoundSize(s) = 0 => cur_peerId[s] = 0
        /\ RoundSize(s) > 0 =>
              /\ RoundSize(s) = Peers - Callee(s) - (IF s > Callee(s) THEN 1 ELSE 0)
              /\ \A p \in Waits(s) : p < Callee(s)

Base == FieldsInv /\ CurPeerInv /\ NetInv /\ RoundInv

\* A call is replaced by one with the same caller, callee and life.
Replaced(m, r) == m \in Pending /\ Key(r) = Key(m) /\ Pending' = (Pending \ {m}) \cup {r}

\* How the peers a server waits for change with the calls in progress.
LEMMA WaitsSame ==
    ASSUME UNCHANGED lives, Pending' = Pending \/ \E m, r : Replaced(m, r)
    PROVE  \A s : Waits(s)' = Waits(s)
<1>1. CASE Pending' = Pending
  BY <1>1 DEF Waits, OwnCalls
<1>2. ASSUME NEW m, NEW r, Replaced(m, r), NEW s PROVE Waits(s)' = Waits(s)
  <2>1. m.from = r.from /\ m.to = r.to /\ m.life = r.life /\ m \in Pending /\ r \in Pending'
    BY <1>2 DEF Replaced, Key
  <2>2. \A p : p \in Waits(s) => p \in Waits(s)'
    BY <1>2, <2>1 DEF Waits, OwnCalls, Replaced
  <2>3. \A p : p \in Waits(s)' => p \in Waits(s)
    BY <1>2, <2>1 DEF Waits, OwnCalls, Replaced
  <2> QED BY <2>2, <2>3
<1> QED BY <1>1, <1>2

\* A caller waits for the peer it has just called.
LEMMA WaitsMore ==
    ASSUME UNCHANGED lives, NEW m, m.life = lives[m.from], Pending' = Pending \cup {m}
    PROVE  \A s : Waits(s)' = IF s = m.from THEN Waits(s) \cup {m.to} ELSE Waits(s)
BY DEF Waits, OwnCalls

\* A caller that has its answer does not wait for that peer any more, as it had
\* only one call to it.
LEMMA WaitsLess ==
    ASSUME NetInv, UNCHANGED lives, NEW m, m \in Pending, m.life = lives[m.from], Pending' = Pending \ {m}
    PROVE  \A s : Waits(s)' = IF s = m.from THEN Waits(s) \ {m.to} ELSE Waits(s)
<1>1. \A n \in Pending : n.from = m.from /\ n.life = m.life /\ n.to = m.to => n = m
  BY DEF NetInv, Key
<1> QED BY <1>1 DEF Waits, OwnCalls

\* The calls in progress are well formed, and so are those a server waits for.
LEMMA PendingOK ==
    ASSUME NetInv
    PROVE  /\ \A m \in Pending : MessageOK(m)
           /\ \A s : Waits(s) \subseteq Server
           /\ \A m \in Pending : m.life = lives[m.from] => m \in OwnCalls(m.from) /\ m.to \in Waits(m.from)
<1>1. \A m \in Pending : MessageOK(m)
  BY DEF NetInv, Pending, VoteOK
<1> QED BY <1>1 DEF Waits, OwnCalls, MessageOK

\* A server that may start a round waits for nobody.
LEMMA QuietMeans ==
    ASSUME NetInv, Overlap = FALSE, NEW s \in Server, Quiet(s)
    PROVE  newVotes[s] = 0 /\ newAppends[s] = 0 /\ ~Serves(s) /\ OwnCalls(s) = {} /\ Waits(s) = {}
<1>1. newVotes[s] = 0 /\ newAppends[s] = 0 /\ ~Serves(s)
      /\ Calls(s, VoteKinds \cup AppendKinds) = {} /\ ~Serving(s)
  BY DEF Quiet, Serves
<1>2. ASSUME NEW m \in OwnCalls(s) PROVE FALSE
  <2>1. m \in Pending /\ m.from = s /\ m.life = lives[s] /\ MessageOK(m)
    BY <1>2, PendingOK DEF OwnCalls
  <2>2. CASE m \in DOMAIN net
    BY <1>1, <2>1, <2>2 DEF Calls, Own, MessageOK
  <2>3. CASE \E p \in Server : Serves(p) /\ m = voting[p].m
    BY <1>1, <2>1, <2>3 DEF Serving, Serves, Own
  <2> QED BY <2>1, <2>2, <2>3 DEF Pending
<1>3. OwnCalls(s) = {}
  BY <1>2
<1> QED BY <1>1, <1>3 DEF Waits

\* A step that starts no thread.
LEMMA RoundKeep ==
    ASSUME RoundInv, UNCHANGED <<newVotes, newAppends, cur_peerId>>,
           \A s \in Server : Waits(s)' \subseteq Waits(s)
    PROVE  RoundInv'
BY DEF RoundInv, RoundSize, Callee

\* A new round: everybody is left to be called.
LEMMA RoundStart ==
    ASSUME FieldsInv, RoundInv, CurPeerInv, NEW s \in Server,
           Waits(s) = {}, newVotes[s] = 0, newAppends[s] = 0,
           UNCHANGED <<lives, net, voting>>,
           cur_peerId' = [cur_peerId EXCEPT ![s] = 0],
           \/ newVotes' = [newVotes EXCEPT ![s] = @ + Peers - 1] /\ UNCHANGED newAppends
           \/ newAppends' = [newAppends EXCEPT ![s] = @ + Peers - 1] /\ UNCHANGED newVotes
    PROVE  /\ RoundInv' /\ Pending' = Pending /\ \A p : Waits(p)' = Waits(p)
           /\ Remaining(s)' = Server \ {s}
<1>1. Peers \in Nat /\ Peers > 2 /\ 0 \in Server /\ s \in Nat /\ s < Peers
  BY PeersAssumption DEF Server
<1>2. Pending' = Pending
  BY DEF Pending, Serves
<1>3. \A p : Waits(p)' = Waits(p)
  BY <1>2, WaitsSame
<1>4. RoundSize(s)' = Peers - 1
  BY <1>1 DEF RoundSize, FieldsInv
<1>5. Callee(s)' = IF s = 0 THEN 1 ELSE 0
  BY DEF Callee, CurPeerInv
<1>6. Remaining(s)' = Server \ {s}
  BY <1>1, <1>4, <1>5 DEF Remaining, Server
<1>7. newVotes'[s] = 0 \/ newAppends'[s] = 0
  BY DEF FieldsInv
<1>8. RoundSize(s)' = Peers - Callee(s)' - (IF s > Callee(s)' THEN 1 ELSE 0)
  BY <1>1, <1>4, <1>5
<1>9. \A p \in Server : p # s => RoundSize(p)' = RoundSize(p) /\ Callee(p)' = Callee(p)
                                /\ newVotes'[p] = newVotes[p] /\ newAppends'[p] = newAppends[p]
                                /\ cur_peerId'[p] = cur_peerId[p]
  BY DEF RoundSize, FieldsInv, Callee, CurPeerInv
<1>10. ASSUME NEW p \in Server
       PROVE  /\ newVotes'[p] = 0 \/ newAppends'[p] = 0
              /\ RoundSize(p)' = 0 => cur_peerId'[p] = 0
              /\ RoundSize(p)' > 0 =>
                    /\ RoundSize(p)' = Peers - Callee(p)' - (IF p > Callee(p)' THEN 1 ELSE 0)
                    /\ \A q \in Waits(p)' : q < Callee(p)'
  <2>1. CASE p = s
    BY <1>1, <1>3, <1>4, <1>7, <1>8, <2>1
  <2>2. CASE p # s
    BY <1>3, <1>9, <2>2 DEF RoundInv
  <2> QED BY <2>1, <2>2
<1>11. RoundInv'
  BY <1>10 DEF RoundInv
<1> QED BY <1>2, <1>3, <1>6, <1>11

\* A thread of a round calls the next peer.
LEMMA RoundAsk ==
    ASSUME FieldsInv, NetInv, RoundInv, CurPeerInv, NEW s \in Server, RoundSize(s) > 0,
           UNCHANGED lives, NEW m, m.from = s, m.to = Callee(s), m.life = lives[s],
           Pending' = Pending \cup {m},
           cur_peerId' = [cur_peerId EXCEPT ![s] = NextPeerId(s)],
           \/ newVotes[s] > 0 /\ newVotes' = [newVotes EXCEPT ![s] = @ - 1] /\ UNCHANGED newAppends
           \/ newAppends[s] > 0 /\ newAppends' = [newAppends EXCEPT ![s] = @ - 1] /\ UNCHANGED newVotes
    PROVE  /\ RoundInv'
           /\ \A p : Waits(p)' = IF p = s THEN Waits(s) \cup {Callee(s)} ELSE Waits(p)
           /\ Callee(s) \in Remaining(s) /\ Remaining(s)' = Remaining(s) \ {Callee(s)}
<1>1. Peers \in Nat /\ Peers > 2 /\ s \in Nat /\ s < Peers
      /\ Callee(s) \in Nat /\ Callee(s) < Peers /\ Callee(s) # s /\ Callee(s) \in Server
  <2>1. Peers \in Nat /\ Peers > 2
    BY PeersAssumption
  <2>2. Callee(s) \in Server /\ Callee(s) # s
    BY DEF CurPeerInv, CalleeIsAPeer
  <2> QED BY <2>1, <2>2 DEF Server
<1>2. PICK c \in Nat : c = Callee(s)
  BY <1>1
<1>3. RoundSize(s) = Peers - c - (IF s > c THEN 1 ELSE 0) /\ \A p \in Waits(s) : p < c
  BY <1>2 DEF RoundInv
<1>4. RoundSize(s)' = RoundSize(s) - 1 /\ RoundSize(s) \in Nat
      /\ (newVotes'[s] = 0 \/ newAppends'[s] = 0)
  BY DEF RoundSize, FieldsInv, RoundInv
<1>5. \A p : Waits(p)' = IF p = s THEN Waits(s) \cup {c} ELSE Waits(p)
  BY <1>2, WaitsMore
<1>6. cur_peerId'[s] = (IF c + 1 = Peers \/ (c + 1 = Peers - 1 /\ s = c + 1) THEN 0 ELSE c + 1)
  BY <1>2 DEF NextPeerId, CurPeerInv
<1>7. Callee(s)' = IF cur_peerId'[s] = s THEN cur_peerId'[s] + 1 ELSE cur_peerId'[s]
  BY DEF Callee
<1>8. RoundSize(s)' = 0 <=> c + 1 = Peers \/ (c + 1 = Peers - 1 /\ s = c + 1)
  BY <1>1, <1>2, <1>3, <1>4
<1>9. RoundSize(s)' > 0 =>
          /\ RoundSize(s)' = Peers - Callee(s)' - (IF s > Callee(s)' THEN 1 ELSE 0)
          /\ \A p \in Waits(s)' : p < Callee(s)'
          /\ Callee(s)' = IF s = c + 1 THEN c + 2 ELSE c + 1
  <2> SUFFICES ASSUME RoundSize(s)' > 0
               PROVE  /\ RoundSize(s)' = Peers - Callee(s)' - (IF s > Callee(s)' THEN 1 ELSE 0)
                      /\ \A p \in Waits(s)' : p < Callee(s)'
                      /\ Callee(s)' = IF s = c + 1 THEN c + 2 ELSE c + 1
    OBVIOUS
  <2>1. cur_peerId'[s] = c + 1 /\ Callee(s)' = IF s = c + 1 THEN c + 2 ELSE c + 1
    BY <1>1, <1>2, <1>4, <1>6, <1>7, <1>8
  <2>2. RoundSize(s)' = Peers - Callee(s)' - (IF s > Callee(s)' THEN 1 ELSE 0)
    BY <1>1, <1>2, <1>3, <1>4, <2>1
  <2>4. \A p \in Waits(s)' : p < Callee(s)'
    <3>1. ASSUME NEW p \in Waits(s)' PROVE p < Callee(s)'
      <4>1. CASE p = c
        BY <4>1, <1>1, <1>2, <2>1
      <4>2. CASE p \in Waits(s)
        <5>1. p < c
          BY <4>2, <1>3
        <5>2. p \in Nat
          BY <4>2, <1>1, PendingOK DEF Server
        <5> QED BY <5>1, <5>2, <2>1
      <4> QED BY <4>1, <4>2, <3>1, <1>5
    <3> QED BY <3>1
  <2> QED BY <2>1, <2>2, <2>4
<1>10. Callee(s) \in Remaining(s)
  BY <1>1 DEF Remaining
<1>11. Remaining(s)' = Remaining(s) \ {c}
  <2>1. Remaining(s) = {p \in Server \ {s} : p >= c}
    BY <1>2 DEF Remaining
  <2>2. \A p \in Server : p \in Nat /\ p < Peers
    BY <1>1 DEF Server
  <2>3. CASE RoundSize(s)' = 0
    <3>1. \A p \in Server \ {s} : p >= c => p = c
      BY <1>1, <1>2, <1>8, <2>2, <2>3
    <3>2. c \in Remaining(s) /\ \A p \in Remaining(s) : p = c
      BY <1>2, <1>10, <2>1, <3>1
    <3>3. Remaining(s)' = {}
      BY <2>3 DEF Remaining
    <3> QED BY <3>2, <3>3
  <2>4. CASE RoundSize(s)' > 0
    <3>1. \A p \in Server \ {s} : p >= Callee(s)' <=> p >= c /\ p # c
      BY <1>1, <1>2, <1>9, <2>2, <2>4
    <3> QED BY <2>1, <2>4, <3>1 DEF Remaining
  <2> QED BY <2>3, <2>4, <1>4
<1>12. \A p \in Server : p # s => RoundSize(p)' = RoundSize(p) /\ Callee(p)' = Callee(p)
                                /\ newVotes'[p] = newVotes[p] /\ newAppends'[p] = newAppends[p]
                                /\ cur_peerId'[p] = cur_peerId[p]
  BY DEF RoundSize, FieldsInv, Callee, CurPeerInv
<1>13. ASSUME NEW p \in Server
       PROVE  /\ newVotes'[p] = 0 \/ newAppends'[p] = 0
              /\ RoundSize(p)' = 0 => cur_peerId'[p] = 0
              /\ RoundSize(p)' > 0 =>
                    /\ RoundSize(p)' = Peers - Callee(p)' - (IF p > Callee(p)' THEN 1 ELSE 0)
                    /\ \A q \in Waits(p)' : q < Callee(p)'
  <2>1. CASE p = s
    BY <1>4, <1>6, <1>8, <1>9, <2>1
  <2>2. CASE p # s
    BY <1>5, <1>12, <2>2 DEF RoundInv
  <2> QED BY <2>1, <2>2
<1>14. RoundInv'
  BY <1>13 DEF RoundInv
<1> QED BY <1>2, <1>5, <1>10, <1>11, <1>14

-----------------------------------------------------------------------------
(* What each step does to the calls in progress.                           *)

\* A vote request is refused at once, or refused after the look at the log.
Refused(m) == \E r : Replaced(m, r) /\ m.kind = "voteReq" /\ r.kind = "voteRsp" /\ r.granted = FALSE

\* callRequestVote or sendAppendEntries calls a peer it is not waiting for.
LEMMA AskNet ==
    ASSUME Base, NEW s \in Server, RoundSize(s) > 0, NEW m, MessageOK(m),
           m.from = s, m.to = Callee(s), m.life = lives[s],
           Send(m), UNCHANGED <<voting, restarts, lives>>,
           cur_peerId' = [cur_peerId EXCEPT ![s] = NextPeerId(s)],
           \/ newVotes[s] > 0 /\ newVotes' = [newVotes EXCEPT ![s] = @ - 1] /\ UNCHANGED newAppends
           \/ newAppends[s] > 0 /\ newAppends' = [newAppends EXCEPT ![s] = @ - 1] /\ UNCHANGED newVotes
    PROVE  /\ NetInv' /\ RoundInv' /\ Pending' = Pending \cup {m}
           /\ \A p : Waits(p)' = IF p = s THEN Waits(s) \cup {Callee(s)} ELSE Waits(p)
           /\ Callee(s) \in Remaining(s) /\ Remaining(s)' = Remaining(s) \ {Callee(s)}
<1>1. FieldsInv /\ CurPeerInv /\ NetInv /\ RoundInv
  BY DEF Base
<1>2. Callee(s) \in Nat
  BY <1>1, PeersAssumption DEF CurPeerInv, CalleeIsAPeer, Server
<1>3. \A p \in Waits(s) : p # Callee(s)
  <2>1. \A p \in Waits(s) : p < Callee(s)
    BY <1>1 DEF RoundInv
  <2> QED BY <1>2, <2>1
<1>4. \A n \in Pending : Key(n) # Key(m)
  <2>1. \A n \in Pending : n.from = s /\ n.life = lives[s] => n.to # Callee(s)
    BY <1>1, <1>3, PendingOK
  <2> QED BY <2>1 DEF Key
<1>5. NetInv' /\ Pending' = Pending \cup {m}
  BY <1>1, <1>4, AskStep
<1> QED BY <1>1, <1>5, RoundAsk

\* callRequestVote asks for a vote in the term the server has when the thread runs.
LEMMA CallRequestVoteNet ==
    ASSUME Base, NEW s \in Server, CallRequestVote(s)
    PROVE  /\ NetInv' /\ RoundInv'
           /\ \E m : /\ m.kind = "voteReq" /\ m.term = curTerm[s] /\ m.from = s /\ m.life = lives[s]
                     /\ Pending' = Pending \cup {m}
           /\ \A p : Waits(p)' = IF p = s THEN Waits(s) \cup {Callee(s)} ELSE Waits(p)
           /\ Callee(s) \in Remaining(s) /\ Remaining(s)' = Remaining(s) \ {Callee(s)}
<1>1. FieldsInv /\ CurPeerInv /\ NetInv /\ RoundInv
  BY DEF Base
<1>2. PICK m : m = [kind |-> "voteReq", from |-> s, to |-> Callee(s), term |-> curTerm[s],
                    life |-> lives[s], lastLogIndex |-> Len(logs[s]), lastLogTerm |-> LastTerm(logs[s])]
  OBVIOUS
<1>3. /\ m.kind = "voteReq" /\ m.from = s /\ m.to = Callee(s) /\ m.term = curTerm[s] /\ m.life = lives[s]
  BY <1>2
<1>4. MessageOK(m)
  BY <1>1, <1>3 DEF MessageOK, VoteKinds, FieldsInv, CurPeerInv, CalleeIsAPeer
<1>5. /\ newVotes[s] > 0 /\ newVotes' = [newVotes EXCEPT ![s] = @ - 1] /\ UNCHANGED newAppends
      /\ Send(m) /\ UNCHANGED <<voting, restarts, lives>>
      /\ cur_peerId' = [cur_peerId EXCEPT ![s] = NextPeerId(s)]
  BY <1>2 DEF CallRequestVote, historyVars
<1>6. RoundSize(s) > 0
  BY <1>1, <1>5 DEF RoundSize, FieldsInv
<1> QED BY <1>3, <1>4, <1>5, <1>6, AskNet

\* sendAppendEntries sends to the next peer, whatever it sends.
LEMMA SendAppendEntriesNet ==
    ASSUME Base, NEW s \in Server, SendAppendEntries(s)
    PROVE  /\ NetInv' /\ RoundInv'
           /\ \E m : /\ m.kind = "appendReq" /\ m.from = s /\ m.life = lives[s]
                     /\ Pending' = Pending \cup {m}
           /\ \A p : Waits(p)' = IF p = s THEN Waits(s) \cup {Callee(s)} ELSE Waits(p)
           /\ Callee(s) \in Remaining(s) /\ Remaining(s)' = Remaining(s) \ {Callee(s)}
<1>1. FieldsInv /\ CurPeerInv /\ NetInv /\ RoundInv
  BY DEF Base
<1>2. PICK prevTerm, m :
         /\ m = [kind |-> "appendReq", from |-> s, to |-> Callee(s),
                term |-> curTerm[s], life |-> lives[s], leads |-> state[s] = "LEADER",
                prevLogIndex |-> nextIndex[s][Callee(s)] - 1, prevLogTerm |-> prevTerm,
                leaderCommit |-> commitIndex[s],
                sendLogs |-> IF nextIndex[s][Callee(s)] - 1 < 0 THEN <<>>
                             ELSE SubSeq(logs[s], nextIndex[s][Callee(s)] - 1 + 1, Len(logs[s]))]
         /\ Send(m)
  BY DEF SendAppendEntries
<1>3. /\ m.kind = "appendReq" /\ m.from = s /\ m.to = Callee(s) /\ m.term = curTerm[s] /\ m.life = lives[s]
  BY <1>2
<1>4. MessageOK(m)
  BY <1>1, <1>3 DEF MessageOK, AppendKinds, FieldsInv, CurPeerInv, CalleeIsAPeer
<1>5. /\ newAppends[s] > 0 /\ newAppends' = [newAppends EXCEPT ![s] = @ - 1] /\ UNCHANGED newVotes
      /\ UNCHANGED <<voting, restarts, lives>>
      /\ cur_peerId' = [cur_peerId EXCEPT ![s] = NextPeerId(s)]
  BY DEF SendAppendEntries, historyVars
<1>6. RoundSize(s) > 0
  BY <1>1, <1>5 DEF RoundSize, FieldsInv
<1> QED BY <1>2, <1>3, <1>4, <1>5, <1>6, AskNet

\* requestVote takes the call, or refuses it at once.
LEMMA RequestVoteNet ==
    ASSUME Base, NEW m \in DOMAIN net, RequestVote(m)
    PROVE  NetInv' /\ (Pending' = Pending \/ Refused(m))
<1>1. FieldsInv /\ NetInv /\ MessageOK(m) /\ m.kind = "voteReq" /\ m.to \in Server /\ UNCHANGED restarts
  BY DEF Base, NetInv, MessageOK, RequestVote, historyVars
<1>2. ~Serves(m.to) /\ curTerm[m.to] \in Nat
  BY <1>1 DEF RequestVote, Serves, FieldsInv
<1>3. ASSUME NEW r, r = VoteRsp(m, curTerm[m.to], FALSE), Answer(m, r), UNCHANGED voting
      PROVE  NetInv' /\ Refused(m)
  <2>1. r.kind = "voteRsp" /\ r.granted = FALSE /\ r.from = m.from /\ r.to = m.to
        /\ r.life = m.life /\ r.term = curTerm[m.to]
    BY <1>3 DEF VoteRsp
  <2>2. MessageOK(r) /\ Key(r) = Key(m)
    BY <1>1, <1>2, <2>1 DEF MessageOK, Key, VoteKinds
  <2>3. NetInv' /\ Replaced(m, r)
    BY <1>1, <1>3, <2>2, AnswerStep DEF Replaced
  <2> QED BY <1>1, <2>1, <2>3 DEF Refused
<1>4. \/ Answer(m, VoteRsp(m, curTerm[m.to], FALSE)) /\ UNCHANGED voting
      \/ /\ voting' = [voting EXCEPT ![m.to] = [pc |-> "check", m |-> m, term |-> curTerm[m.to]]]
         /\ Receive(m)
  BY <1>2 DEF RequestVote
<1> QED BY <1>1, <1>2, <1>3, <1>4, TakeStep

\* checkLogUptodate lets the service of the call go on, or refuses it.
LEMMA CheckLogNet ==
    ASSUME Base, NEW s \in Server, CheckLogUptodate(s)
    PROVE  NetInv' /\ (Pending' = Pending \/ \E m : Refused(m))
<1>1. FieldsInv /\ NetInv /\ Serves(s) /\ VoteOK(s) /\ UNCHANGED restarts
  BY DEF Base, NetInv, CheckLogUptodate, historyVars, Serves
<1>2. CASE voting' = [voting EXCEPT ![s].pc = "grant"] /\ UNCHANGED net
  BY <1>1, <1>2, CheckStep
<1>3. ASSUME NEW r, r = VoteRsp(voting[s].m, voting[s].term, FALSE), Send(r),
             voting' = [voting EXCEPT ![s] = NoVote]
      PROVE  NetInv' /\ \E m : Refused(m)
  <2>1. r.kind = "voteRsp" /\ r.granted = FALSE /\ r.from = voting[s].m.from /\ r.to = voting[s].m.to
        /\ r.life = voting[s].m.life /\ r.term = voting[s].term
    BY <1>3 DEF VoteRsp
  <2>2. MessageOK(r) /\ Key(r) = Key(voting[s].m) /\ voting[s].m.kind = "voteReq"
    BY <1>1, <2>1 DEF MessageOK, Key, VoteKinds, VoteOK
  <2>3. NetInv' /\ Replaced(voting[s].m, r)
    BY <1>1, <1>3, <2>2, ReplyStep DEF Replaced
  <2>4. Refused(voting[s].m)
    BY <2>1, <2>2, <2>3 DEF Refused
  <2> QED BY <2>3, <2>4
<1> QED BY <1>2, <1>3 DEF CheckLogUptodate

\* A vote is granted: the only way to an answer that says so.
LEMMA GrantVoteNet ==
    ASSUME Base, NEW s \in Server, GrantVote(s)
    PROVE  /\ NetInv' /\ voting[s].m.kind = "voteReq" /\ MessageOK(voting[s].m) /\ voting[s].m.to = s
           /\ voting[s].m \in Pending
           /\ \E r : Replaced(voting[s].m, r) /\ r.kind = "voteRsp"
<1>1. FieldsInv /\ NetInv /\ Serves(s) /\ VoteOK(s) /\ UNCHANGED restarts
  BY DEF Base, NetInv, GrantVote, Serves
<1>2. PICK r : r = VoteRsp(voting[s].m, voting[s].term, TRUE) /\ Send(r)
  BY DEF GrantVote
<1>3. r.kind = "voteRsp" /\ r.from = voting[s].m.from /\ r.to = voting[s].m.to
      /\ r.life = voting[s].m.life /\ r.term = voting[s].term
  BY <1>2 DEF VoteRsp
<1>4. MessageOK(r) /\ Key(r) = Key(voting[s].m) /\ voting[s].m.kind = "voteReq" /\ voting[s].m.to = s
      /\ MessageOK(voting[s].m)
  BY <1>1, <1>3 DEF MessageOK, Key, VoteKinds, VoteOK
<1>5. voting' = [voting EXCEPT ![s] = NoVote]
  BY DEF GrantVote
<1>6. NetInv' /\ Replaced(voting[s].m, r) /\ voting[s].m \in Pending
  BY <1>1, <1>2, <1>4, <1>5, ReplyStep DEF Replaced
<1> QED BY <1>3, <1>4, <1>6

\* appendEntries answers at once, whatever it makes of the call.
LEMMA AppendEntriesNet ==
    ASSUME Base, NEW m \in DOMAIN net, AppendEntries(m)
    PROVE  NetInv' /\ m.kind = "appendReq" /\ \E r : Replaced(m, r) /\ r.kind = "appendRsp"
<1>1. FieldsInv /\ NetInv /\ MessageOK(m) /\ m.kind = "appendReq" /\ UNCHANGED <<restarts, voting>>
      /\ curTerm[m.to] \in Nat
  BY DEF Base, NetInv, MessageOK, AppendEntries, FieldsInv
<1>2. \E ok, ct, ci : Answer(m, AppendRsp(m, curTerm[m.to], ok, ct, ci))
  <2>1. CASE m.term < curTerm[m.to]
    BY <2>1 DEF AppendEntries
  <2>2. CASE ~(m.term < curTerm[m.to]) /\ (TooShort(logs[m.to], m) \/ Mismatch(logs[m.to], m))
    BY <2>2 DEF AppendEntries
  <2>3. CASE ~(m.term < curTerm[m.to]) /\ ~(TooShort(logs[m.to], m) \/ Mismatch(logs[m.to], m))
    BY <2>3 DEF AppendEntries
  <2> QED BY <2>1, <2>2, <2>3
<1>3. PICK ok, ct, ci, r : r = AppendRsp(m, curTerm[m.to], ok, ct, ci) /\ Answer(m, r)
  BY <1>2
<1>4. r.kind = "appendRsp" /\ r.from = m.from /\ r.to = m.to /\ r.life = m.life /\ r.term = curTerm[m.to]
  BY <1>3 DEF AppendRsp
<1>5. MessageOK(r) /\ Key(r) = Key(m)
  BY <1>1, <1>4 DEF MessageOK, Key, AppendKinds
<1> QED BY <1>1, <1>3, <1>4, <1>5, AnswerStep DEF Replaced

\* An answer reaches the thread that waits for it.
LEMMA TakenNet ==
    ASSUME Base, NEW m \in DOMAIN net, VoteReply(m) \/ AppendReply(m)
    PROVE  /\ NetInv' /\ m \in Pending /\ Pending' = Pending \ {m} /\ MessageOK(m)
           /\ m.life = lives[m.from] /\ m \in OwnCalls(m.from) /\ UNCHANGED lives
           /\ \A p : Waits(p)' = IF p = m.from THEN Waits(p) \ {m.to} ELSE Waits(p)
<1>1. NetInv /\ MessageOK(m) /\ m.life = lives[m.from] /\ Receive(m) /\ UNCHANGED <<restarts, voting, lives>>
  BY DEF Base, NetInv, VoteReply, AppendReply, Own, historyVars
<1>2. NetInv' /\ m \in Pending /\ Pending' = Pending \ {m}
  BY <1>1, EndStep
<1>3. m \in OwnCalls(m.from)
  BY <1>1, <1>2 DEF OwnCalls
<1> QED BY <1>1, <1>2, <1>3, WaitsLess

\* Nobody waits for the calls that s made before a restart.
LEMMA RestartNet ==
    ASSUME Base, NEW s \in Server, Restart(s)
    PROVE  NetInv' /\ Pending' \subseteq Pending /\ OwnCalls(s)' = {} /\ \A p : Waits(p)' \subseteq Waits(p)
<1>1. NetInv /\ FieldsInv /\ restarts \in Nat /\ restarts' = restarts + 1 /\ UNCHANGED net
      /\ voting' = [voting EXCEPT ![s] = NoVote] /\ lives' = [lives EXCEPT ![s] = restarts + 1]
  BY DEF Base, Restart, FieldsInv
<1>2. NetInv' /\ Pending' \subseteq Pending
  BY <1>1, RestartStep
<1>3. lives'[s] = restarts + 1 /\ \A p : p # s => lives'[p] = lives[p]
  BY <1>1 DEF FieldsInv
<1>4. \A m \in Pending : m.life # restarts + 1
  BY <1>1, PendingOK DEF MessageOK
<1>5. OwnCalls(s)' = {}
  BY <1>2, <1>3, <1>4 DEF OwnCalls
<1>6. Waits(s)' = {}
  BY <1>5 DEF Waits
<1>7. \A p : p # s => Waits(p)' \subseteq Waits(p)
  BY <1>2, <1>3 DEF Waits, OwnCalls
<1> QED BY <1>2, <1>5, <1>6, <1>7

\* The other steps leave the calls alone.
LEMMA StillNet ==
    ASSUME Base, UNCHANGED <<net, voting, restarts, lives>>
    PROVE  NetInv' /\ Pending' = Pending /\ \A p : Waits(p)' = Waits(p)
<1>1. Pending' = Pending /\ NetInv
  BY DEF Base, Pending, Serves
<1>2. NetInv'
  BY <1>1 DEF NetInv, VoteOK, Serves, MessageOK, Key
<1> QED BY <1>1, <1>2, WaitsSame

-----------------------------------------------------------------------------
(* Rounds do not overlap, so the calls of a round are to distinct peers.   *)

\* No call is in progress and no thread created when the servers start.
LEMMA BaseInit == Init => Base
<1> SUFFICES ASSUME Init PROVE Base
  OBVIOUS
<1>1. FieldsInv
  BY FieldsInit
<1>2. CurPeerInv
  <2>1. Peers \in Nat /\ Peers > 2
    BY PeersAssumption
  <2>2. 0 \in Server /\ 1 \in Server
    BY <2>1 DEF Server
  <2> QED BY <2>2 DEF Init, CurPeerInv, CalleeIsAPeer, Callee, Server
<1>3. Single(net) /\ DOMAIN net = {}
  BY DEF Init, EmptyBag, SetToBag, Single, IsABag
<1>4. \A p \in Server : voting[p] = NoVote /\ ~Serves(p)
  BY DEF Init, Serves, NoVote
<1>5. DOMAIN voting = Server /\ \A p \in Server : VoteOK(p)
  BY <1>4 DEF Init, VoteOK, NoVote
<1>6. Pending = {}
  BY <1>3, <1>4 DEF Pending
<1>7. NetInv
  BY <1>3, <1>5, <1>6 DEF NetInv
<1>8. RoundInv
  BY DEF Init, RoundInv, RoundSize
<1> QED BY <1>1, <1>2, <1>7, <1>8 DEF Base

\* The counters of a round are those of its server alone; what the other servers
\* do leaves it, or shrinks it.
LEMMA RoundNext ==
    ASSUME Overlap = FALSE, Base, [Next]_vars
    PROVE  NetInv' /\ RoundInv'
<1>1. FieldsInv /\ CurPeerInv /\ NetInv /\ RoundInv
  BY DEF Base
<1>2. ASSUME NEW s \in Server, CallRequestVote(s) \/ SendAppendEntries(s)
      PROVE  NetInv' /\ RoundInv'
  BY <1>2, CallRequestVoteNet, SendAppendEntriesNet
<1>3. ASSUME NEW s \in Server, CheckLogUptodate(s) PROVE NetInv' /\ RoundInv'
  <2>1. UNCHANGED <<lives, newVotes, newAppends, cur_peerId>>
    BY <1>3 DEF CheckLogUptodate, historyVars
  <2>2. NetInv' /\ (Pending' = Pending \/ \E m, r : Replaced(m, r))
    BY <1>3, CheckLogNet DEF Refused
  <2> QED BY <1>1, <2>1, <2>2, WaitsSame, RoundKeep
<1>4. ASSUME NEW s \in Server, GrantVote(s) PROVE NetInv' /\ RoundInv'
  <2>1. UNCHANGED <<lives, newVotes, newAppends, cur_peerId>>
    BY <1>4 DEF GrantVote
  <2>2. NetInv' /\ \E m, r : Replaced(m, r)
    BY <1>4, GrantVoteNet
  <2> QED BY <1>1, <2>1, <2>2, WaitsSame, RoundKeep
<1>5. ASSUME NEW m \in DOMAIN net, RequestVote(m) PROVE NetInv' /\ RoundInv'
  <2>1. UNCHANGED <<lives, newVotes, newAppends, cur_peerId>>
    BY <1>5 DEF RequestVote, historyVars
  <2>2. NetInv' /\ (Pending' = Pending \/ \E n, r : Replaced(n, r))
    BY <1>5, RequestVoteNet DEF Refused
  <2> QED BY <1>1, <2>1, <2>2, WaitsSame, RoundKeep
<1>6. ASSUME NEW m \in DOMAIN net, AppendEntries(m) PROVE NetInv' /\ RoundInv'
  <2>1. UNCHANGED <<lives, newVotes, newAppends, cur_peerId>>
    BY <1>6 DEF AppendEntries
  <2>2. NetInv' /\ \E n, r : Replaced(n, r)
    BY <1>6, AppendEntriesNet
  <2> QED BY <1>1, <2>1, <2>2, WaitsSame, RoundKeep
<1>7. ASSUME NEW m \in DOMAIN net, VoteReply(m) \/ AppendReply(m) PROVE NetInv' /\ RoundInv'
  <2>1. UNCHANGED <<newVotes, newAppends, cur_peerId>>
    BY <1>7 DEF VoteReply, AppendReply
  <2>2. NetInv' /\ \A s \in Server : Waits(s)' \subseteq Waits(s)
    BY <1>7, TakenNet
  <2> QED BY <1>1, <2>1, <2>2, RoundKeep
<1>8. ASSUME NEW s \in Server, ElectionTimeout(s) PROVE NetInv' /\ RoundInv'
  <2>1. /\ newVotes[s] = 0 /\ newAppends[s] = 0 /\ Waits(s) = {}
    BY <1>1, <1>8, QuietMeans DEF ElectionTimeout
  <2>2. /\ UNCHANGED <<newAppends, net, voting, restarts, lives>>
        /\ cur_peerId' = [cur_peerId EXCEPT ![s] = 0]
        /\ newVotes' = [newVotes EXCEPT ![s] = @ + Peers - 1]
    BY <1>8 DEF ElectionTimeout
  <2> QED BY <1>1, <2>1, <2>2, RoundStart, StillNet
<1>9. ASSUME NEW s \in Server, Heartbeat(s) PROVE NetInv' /\ RoundInv'
  <2>1. /\ newVotes[s] = 0 /\ newAppends[s] = 0 /\ Waits(s) = {}
    BY <1>1, <1>9, QuietMeans DEF Heartbeat
  <2>2. /\ UNCHANGED <<newVotes, net, voting, restarts, lives, cur_peerId>>
        /\ newAppends' = [newAppends EXCEPT ![s] = @ + Peers - 1]
    BY <1>9 DEF Heartbeat
  <2>3. cur_peerId[s] = 0
    BY <1>1, <2>1 DEF RoundInv, RoundSize
  <2>4. cur_peerId' = [cur_peerId EXCEPT ![s] = 0]
    BY <1>1, <2>2, <2>3 DEF CurPeerInv
  <2> QED BY <1>1, <2>1, <2>2, <2>4, RoundStart, StillNet
<1>10. ASSUME NEW s \in Server, Restart(s) PROVE NetInv' /\ RoundInv'
  <2>1. NetInv' /\ \A p \in Server : Waits(p)' \subseteq Waits(p)
    BY <1>10, RestartNet
  <2>2. /\ cur_peerId' = [cur_peerId EXCEPT ![s] = 0]
        /\ newVotes' = [newVotes EXCEPT ![s] = 0] /\ newAppends' = [newAppends EXCEPT ![s] = 0]
    BY <1>10 DEF Restart
  <2>3. newVotes'[s] = 0 /\ newAppends'[s] = 0 /\ cur_peerId'[s] = 0 /\ RoundSize(s)' = 0
    BY <1>1, <2>2 DEF RoundSize, FieldsInv, CurPeerInv
  <2>4. \A p \in Server : p # s => RoundSize(p)' = RoundSize(p) /\ Callee(p)' = Callee(p)
                                  /\ newVotes'[p] = newVotes[p] /\ newAppends'[p] = newAppends[p]
                                  /\ cur_peerId'[p] = cur_peerId[p]
    BY <1>1, <2>2 DEF RoundSize, FieldsInv, Callee, CurPeerInv
  <2>5. RoundInv'
    BY <1>1, <2>1, <2>3, <2>4 DEF RoundInv
  <2> QED BY <2>1, <2>5
<1>11. ASSUME UNCHANGED vars \/ \E s \in Server : ElectionDecided(s) \/ Start(s) \/ Kill(s)
       PROVE  NetInv' /\ RoundInv'
  <2>1. UNCHANGED <<net, voting, restarts, lives, newVotes, newAppends, cur_peerId>>
    BY <1>11 DEF vars, threadVars, historyVars, ElectionDecided, Start, Kill
  <2> QED BY <1>1, <2>1, StillNet, RoundKeep
<1> QED BY <1>2, <1>3, <1>4, <1>5, <1>6, <1>7, <1>8, <1>9, <1>10, <1>11 DEF Next, ThreadStep

\* The calls in progress are distinct and rounds do not overlap, at any time.
LEMMA BaseAlways ==
    ASSUME Overlap = FALSE
    PROVE  Spec => []Base
<1>1. Init => Base
  BY BaseInit
<1>2. FieldsInv /\ NetInv /\ RoundInv /\ CurPeerInv /\ [Next]_vars
          => FieldsInv' /\ NetInv' /\ RoundInv'
  BY FieldsNext, RoundNext DEF Base
<1>3. Base <=> FieldsInv /\ CurPeerInv /\ NetInv /\ RoundInv
  BY DEF Base
<1> QED BY <1>1, <1>2, <1>3, CurPeerAlways, PTL DEF Spec

\* When no timer of a server fires with its calls unanswered, the threads of a
\* round call distinct peers, though each takes its peer from a counter that the
\* others advance and a new round resets (raft.cpp:377-380, 534-537).
THEOREM RaftCalleesDistinct ==
    ASSUME Overlap = FALSE
    PROVE  Spec => []CalleesDistinct
<1>1. Base => CalleesDistinct
  <2> SUFFICES ASSUME Base PROVE CalleesDistinct
    OBVIOUS
  <2>1. NetInv /\ \A m \in DOMAIN net : net[m] = 1 /\ m \in Pending
    BY DEF Base, NetInv, Single, Pending
  <2>2. ASSUME NEW s \in Server, NEW m \in Calls(s, VoteKinds \cup AppendKinds),
               NEW n \in Calls(s, VoteKinds \cup AppendKinds), m.to = n.to
        PROVE  m = n
    BY <2>1, <2>2 DEF Calls, Own, NetInv, Key
  <2> QED BY <2>1, <2>2 DEF CalleesDistinct, Calls
<1> QED BY <1>1, BaseAlways, PTL

-----------------------------------------------------------------------------
(* An election thread counts the answers of its round.                     *)

\* While electionLoop waits, finishedVote is the number of servers that no thread
\* of the round will call or waits for: the server itself and those that answered.
ElectOK(s) ==
    electing[s] /\ restarts = 0 =>
        /\ state[s] # "LEADER" /\ newAppends[s] = 0
        /\ \A m \in OwnCalls(s) : m.kind \in VoteKinds
        /\ Cardinality(Server \ (Waits(s) \cup Remaining(s))) = finishedVote[s]
ElectInv == \A s \in Server : ElectOK(s)

\* The servers are finitely many: the size of m_peers.
LEMMA ServersFinite == IsFiniteSet(Server) /\ Cardinality(Server) = Peers /\ Peers \in Nat /\ Peers > 2
<1>1. Peers \in Nat /\ Peers > 2
  BY PeersAssumption
<1> QED BY <1>1, FS_Interval DEF Server

\* A call that is answered is of the same kind, a vote or an append, as before.
SameKinds(s) ==
    \A r \in OwnCalls(s)' : \E m \in OwnCalls(s) : r.kind \in VoteKinds <=> m.kind \in VoteKinds

\* Replacing a call by its answer changes nothing to whom a server waits for.
LEMMA ReplacedKinds ==
    ASSUME UNCHANGED lives,
           \/ Pending' = Pending
           \/ \E m, r : Replaced(m, r) /\ (r.kind \in VoteKinds <=> m.kind \in VoteKinds)
    PROVE  \A s : SameKinds(s) /\ Waits(s)' = Waits(s)
<1>1. CASE Pending' = Pending
  <2>1. \A s : OwnCalls(s)' = OwnCalls(s)
    BY <1>1 DEF OwnCalls
  <2> QED BY <1>1, <2>1, WaitsSame DEF SameKinds
<1>2. ASSUME NEW m, NEW r, Replaced(m, r), r.kind \in VoteKinds <=> m.kind \in VoteKinds, NEW s
      PROVE  SameKinds(s)
  <2>1. m.from = r.from /\ m.life = r.life /\ m \in Pending
    BY <1>2 DEF Replaced, Key
  <2>2. ASSUME NEW q \in OwnCalls(s)'
        PROVE  \E n \in OwnCalls(s) : q.kind \in VoteKinds <=> n.kind \in VoteKinds
    <3>1. CASE q = r
      BY <1>2, <2>1, <2>2, <3>1 DEF OwnCalls
    <3>2. CASE q # r
      <4>1. q \in OwnCalls(s)
        BY <1>2, <2>2, <3>2 DEF OwnCalls, Replaced
      <4> QED BY <4>1
    <3> QED BY <3>1, <3>2
  <2> QED BY <2>2 DEF SameKinds
<1> QED BY <1>1, <1>2, WaitsSame

\* The steps that start no thread and take no answer of s.
LEMMA ElectKeep ==
    ASSUME NEW s \in Server, ElectOK(s),
           electing'[s] => electing[s], restarts' = 0 => restarts = 0,
           state'[s] = "LEADER" => state[s] = "LEADER",
           newVotes'[s] = newVotes[s], newAppends'[s] = newAppends[s], cur_peerId'[s] = cur_peerId[s],
           finishedVote'[s] = finishedVote[s], Waits(s)' = Waits(s), SameKinds(s)
    PROVE  ElectOK(s)'
<1>1. Remaining(s)' = Remaining(s)
  BY DEF Remaining, RoundSize, Callee
<1> SUFFICES ASSUME electing'[s], restarts' = 0
             PROVE  /\ state'[s] # "LEADER" /\ newAppends'[s] = 0
                    /\ \A m \in OwnCalls(s)' : m.kind \in VoteKinds
                    /\ Cardinality(Server \ (Waits(s)' \cup Remaining(s)')) = finishedVote'[s]
  BY DEF ElectOK
<1>2. /\ state[s] # "LEADER" /\ newAppends[s] = 0
      /\ \A m \in OwnCalls(s) : m.kind \in VoteKinds
      /\ Cardinality(Server \ (Waits(s) \cup Remaining(s))) = finishedVote[s]
  BY DEF ElectOK
<1> QED BY <1>1, <1>2 DEF SameKinds

\* A peer that s waits for is not one that a thread of the round will call.
LEMMA WaitedNotRemaining ==
    ASSUME FieldsInv, CurPeerInv, NetInv, RoundInv, NEW s \in Server, NEW p \in Waits(s)
    PROVE  p \notin Remaining(s)
<1>1. p \in Nat /\ Callee(s) \in Nat
  BY PendingOK, PeersAssumption DEF Server, CurPeerInv, CalleeIsAPeer
<1> QED BY <1>1 DEF RoundInv, Remaining

\* No election thread waits at the start.
LEMMA ElectInit == Init => ElectInv
BY DEF Init, ElectInv, ElectOK

\* What the threads of a server do to the count of an election, its own or another's.
LEMMA ElectServer ==
    ASSUME Overlap = FALSE, Base, ElectInv, NEW p \in Server, NEW s \in Server,
           \/ CallRequestVote(p) \/ SendAppendEntries(p) \/ CheckLogUptodate(p) \/ GrantVote(p)
           \/ ElectionTimeout(p) \/ ElectionDecided(p) \/ Heartbeat(p)
           \/ Start(p) \/ Kill(p) \/ Restart(p)
    PROVE  ElectOK(s)'
<1>0. FieldsInv /\ CurPeerInv /\ NetInv /\ RoundInv /\ ElectOK(s)
  BY DEF Base, ElectInv
<1>1. CASE CallRequestVote(p)
  <2>1. UNCHANGED <<electing, restarts, state, newAppends, finishedVote, lives>>
        /\ newVotes' = [newVotes EXCEPT ![p] = @ - 1]
        /\ cur_peerId' = [cur_peerId EXCEPT ![p] = NextPeerId(p)]
    BY <1>1 DEF CallRequestVote, raftVars, historyVars
  <2>2. PICK m : /\ m.kind = "voteReq" /\ m.from = p /\ m.life = lives[p]
                 /\ Pending' = Pending \cup {m}
    BY <1>1, CallRequestVoteNet
  <2>3. /\ \A q : Waits(q)' = IF q = p THEN Waits(p) \cup {Callee(p)} ELSE Waits(q)
        /\ Callee(p) \in Remaining(p) /\ Remaining(p)' = Remaining(p) \ {Callee(p)}
    BY <1>1, CallRequestVoteNet
  <2>4. CASE s = p
    <3>1. Waits(s)' \cup Remaining(s)' = Waits(s) \cup Remaining(s)
      BY <2>3, <2>4
    <3>2. \A n \in OwnCalls(s)' : n \in OwnCalls(s) \/ n.kind \in VoteKinds
      BY <2>1, <2>2 DEF OwnCalls, VoteKinds
    <3> QED BY <1>0, <2>1, <3>1, <3>2 DEF ElectOK
  <2>5. CASE s # p
    <3>1. OwnCalls(s)' = OwnCalls(s) /\ Waits(s)' = Waits(s)
      BY <2>1, <2>2, <2>3, <2>5 DEF OwnCalls
    <3>2. newVotes'[s] = newVotes[s] /\ cur_peerId'[s] = cur_peerId[s]
      BY <1>0, <2>1, <2>5 DEF FieldsInv, CurPeerInv
    <3>3. SameKinds(s)
      BY <3>1 DEF SameKinds
    <3> QED BY <1>0, <2>1, <3>1, <3>2, <3>3, ElectKeep
  <2> QED BY <2>4, <2>5
<1>2. CASE SendAppendEntries(p)
  <2>1. UNCHANGED <<electing, restarts, state, newVotes, finishedVote, lives>>
        /\ newAppends[p] > 0
        /\ newAppends' = [newAppends EXCEPT ![p] = @ - 1]
        /\ cur_peerId' = [cur_peerId EXCEPT ![p] = NextPeerId(p)]
    BY <1>2 DEF SendAppendEntries, raftVars, historyVars
  <2>2. PICK m : /\ m.kind = "appendReq" /\ m.from = p /\ m.life = lives[p]
                 /\ Pending' = Pending \cup {m}
    BY <1>2, SendAppendEntriesNet
  <2>3. /\ \A q : Waits(q)' = IF q = p THEN Waits(p) \cup {Callee(p)} ELSE Waits(q)
    BY <1>2, SendAppendEntriesNet
  <2>4. CASE s = p
    BY <1>0, <2>1, <2>4 DEF ElectOK
  <2>5. CASE s # p
    <3>1. OwnCalls(s)' = OwnCalls(s) /\ Waits(s)' = Waits(s)
      BY <2>1, <2>2, <2>3, <2>5 DEF OwnCalls
    <3>2. newAppends'[s] = newAppends[s] /\ cur_peerId'[s] = cur_peerId[s]
      BY <1>0, <2>1, <2>5 DEF FieldsInv, CurPeerInv
    <3>3. SameKinds(s)
      BY <3>1 DEF SameKinds
    <3> QED BY <1>0, <2>1, <3>1, <3>2, <3>3, ElectKeep
  <2> QED BY <2>4, <2>5
<1>3. CASE CheckLogUptodate(p)
  <2>1. UNCHANGED <<electing, restarts, state, newVotes, newAppends, finishedVote, lives, cur_peerId>>
    BY <1>3 DEF CheckLogUptodate, raftVars, historyVars
  <2>2. Pending' = Pending \/ \E m, r : Replaced(m, r) /\ (r.kind \in VoteKinds <=> m.kind \in VoteKinds)
    BY <1>3, CheckLogNet DEF Refused, VoteKinds
  <2> QED BY <1>0, <2>1, <2>2, ReplacedKinds, ElectKeep
<1>4. CASE GrantVote(p)
  <2>1. UNCHANGED <<electing, restarts, state, newVotes, newAppends, finishedVote, lives, cur_peerId>>
    BY <1>4 DEF GrantVote
  <2>2. \E m, r : Replaced(m, r) /\ (r.kind \in VoteKinds <=> m.kind \in VoteKinds)
    BY <1>4, GrantVoteNet DEF VoteKinds
  <2> QED BY <1>0, <2>1, <2>2, ReplacedKinds, ElectKeep
<1>5. CASE ElectionTimeout(p)
  <2>1. newVotes[p] = 0 /\ newAppends[p] = 0 /\ OwnCalls(p) = {} /\ Waits(p) = {}
    BY <1>0, <1>5, QuietMeans DEF ElectionTimeout
  <2>2. /\ UNCHANGED <<newAppends, net, voting, restarts, lives>>
        /\ cur_peerId' = [cur_peerId EXCEPT ![p] = 0]
        /\ newVotes' = [newVotes EXCEPT ![p] = @ + Peers - 1]
        /\ state' = [state EXCEPT ![p] = "CANDIDATE"]
        /\ finishedVote' = [finishedVote EXCEPT ![p] = 1]
        /\ electing' = [electing EXCEPT ![p] = TRUE]
    BY <1>5 DEF ElectionTimeout
  <2>3. Pending' = Pending /\ (\A q : Waits(q)' = Waits(q)) /\ Remaining(p)' = Server \ {p}
    BY <1>0, <2>1, <2>2, RoundStart
  <2>4. \A q : OwnCalls(q)' = OwnCalls(q)
    BY <2>2, <2>3 DEF OwnCalls
  <2>5. CASE s = p
    <3>1. Server \ (Waits(s)' \cup Remaining(s)') = {s}
      BY <2>1, <2>3, <2>5
    <3>2. Cardinality({s}) = 1
      BY FS_Singleton
    <3>3. state'[s] = "CANDIDATE" /\ newAppends'[s] = 0 /\ finishedVote'[s] = 1
      BY <1>0, <2>1, <2>2, <2>5 DEF FieldsInv
    <3> QED BY <2>1, <2>4, <2>5, <3>1, <3>2, <3>3 DEF ElectOK
  <2>6. CASE s # p
    <3>1. newVotes'[s] = newVotes[s] /\ cur_peerId'[s] = cur_peerId[s] /\ state'[s] = state[s]
          /\ finishedVote'[s] = finishedVote[s] /\ electing'[s] = electing[s]
      BY <1>0, <2>2, <2>6 DEF FieldsInv, CurPeerInv
    <3>2. SameKinds(s)
      BY <2>4 DEF SameKinds
    <3> QED BY <1>0, <2>2, <2>3, <3>1, <3>2, ElectKeep
  <2> QED BY <2>5, <2>6
<1>6. CASE ElectionDecided(p)
  <2>1. UNCHANGED <<net, voting, restarts, newVotes, newAppends, finishedVote, lives, cur_peerId>>
        /\ electing' = [electing EXCEPT ![p] = FALSE]
        /\ (UNCHANGED state \/ state' = [state EXCEPT ![p] = "LEADER"])
    BY <1>6 DEF ElectionDecided
  <2>2. (\A q : Waits(q)' = Waits(q)) /\ Pending' = Pending
    BY <2>1, StillNet
  <2>3. SameKinds(s)
    BY <2>1, <2>2 DEF SameKinds, OwnCalls
  <2>4. CASE s = p
    BY <1>0, <2>1, <2>4 DEF ElectOK, FieldsInv
  <2>5. CASE s # p
    <3>1. state'[s] = state[s] /\ electing'[s] = electing[s]
      BY <1>0, <2>1, <2>5 DEF FieldsInv
    <3> QED BY <1>0, <2>1, <2>2, <2>3, <3>1, ElectKeep
  <2> QED BY <2>4, <2>5
<1>7. CASE Heartbeat(p)
  <2>1. /\ UNCHANGED <<newVotes, net, voting, restarts, lives, cur_peerId, state, finishedVote, electing>>
        /\ newAppends' = [newAppends EXCEPT ![p] = @ + Peers - 1] /\ state[p] = "LEADER"
    BY <1>7 DEF Heartbeat, raftVars
  <2>2. (\A q : Waits(q)' = Waits(q)) /\ Pending' = Pending
    BY <2>1, StillNet
  <2>3. SameKinds(s)
    BY <2>1, <2>2 DEF SameKinds, OwnCalls
  <2>4. CASE s = p
    BY <1>0, <2>1, <2>4 DEF ElectOK
  <2>5. CASE s # p
    <3>1. newAppends'[s] = newAppends[s]
      BY <1>0, <2>1, <2>5 DEF FieldsInv
    <3> QED BY <1>0, <2>1, <2>2, <2>3, <3>1, ElectKeep
  <2> QED BY <2>4, <2>5
<1>8. CASE Start(p) \/ Kill(p)
  <2>1. UNCHANGED <<net, voting, restarts, newVotes, newAppends, finishedVote, lives, cur_peerId,
                    state, electing>>
    BY <1>8 DEF Start, Kill, threadVars, raftVars, historyVars
  <2>2. (\A q : Waits(q)' = Waits(q)) /\ Pending' = Pending
    BY <2>1, StillNet
  <2>3. SameKinds(s)
    BY <2>1, <2>2 DEF SameKinds, OwnCalls
  <2> QED BY <1>0, <2>1, <2>2, <2>3, ElectKeep
<1>9. CASE Restart(p)
  BY <1>0, <1>9 DEF Restart, ElectOK, FieldsInv
<1> QED BY <1>1, <1>2, <1>3, <1>4, <1>5, <1>6, <1>7, <1>8, <1>9

\* What the handlers of calls and answers do to the count of an election.
LEMMA ElectCall ==
    ASSUME Base, ElectInv, NEW m \in DOMAIN net, NEW s \in Server,
           RequestVote(m) \/ VoteReply(m) \/ AppendEntries(m) \/ AppendReply(m)
    PROVE  ElectOK(s)'
<1>0. FieldsInv /\ CurPeerInv /\ NetInv /\ RoundInv /\ ElectOK(s) /\ MessageOK(m)
  BY DEF Base, ElectInv, NetInv
<1>1. UNCHANGED <<electing, restarts, newVotes, newAppends, lives, cur_peerId>>
  BY DEF RequestVote, VoteReply, AppendEntries, AppendReply, historyVars
<1>2. state'[s] = "LEADER" => state[s] = "LEADER"
  <2>1. \E p \in Server : UNCHANGED state \/ state' = [state EXCEPT ![p] = "FOLLOWER"]
                        \/ state' = [state EXCEPT ![p] = state[p]]
    <3>1. m.to \in Server /\ m.from \in Server
      BY <1>0 DEF MessageOK
    <3>2. CASE RequestVote(m)
      BY <3>1, <3>2 DEF RequestVote, raftVars
    <3>3. CASE VoteReply(m)
      BY <3>1, <3>3 DEF VoteReply
    <3>4. CASE AppendEntries(m)
      BY <3>1, <3>4 DEF AppendEntries, raftVars
    <3>5. CASE AppendReply(m)
      BY <3>1, <3>5 DEF AppendReply
    <3> QED BY <3>2, <3>3, <3>4, <3>5
  <2> QED BY <1>0, <2>1 DEF FieldsInv
<1>3. CASE RequestVote(m)
  <2>1. UNCHANGED finishedVote
    BY <1>3 DEF RequestVote
  <2>2. Pending' = Pending \/ \E n, r : Replaced(n, r) /\ (r.kind \in VoteKinds <=> n.kind \in VoteKinds)
    BY <1>3, RequestVoteNet DEF Refused, VoteKinds
  <2> QED BY <1>0, <1>1, <1>2, <2>1, <2>2, ReplacedKinds, ElectKeep
<1>4. CASE AppendEntries(m)
  <2>1. UNCHANGED finishedVote
    BY <1>4 DEF AppendEntries
  <2>2. \E n, r : Replaced(n, r) /\ (r.kind \in VoteKinds <=> n.kind \in VoteKinds)
    BY <1>4, AppendEntriesNet DEF VoteKinds
  <2> QED BY <1>0, <1>1, <1>2, <2>1, <2>2, ReplacedKinds, ElectKeep
<1>5. ASSUME VoteReply(m) \/ AppendReply(m), s # m.from PROVE ElectOK(s)'
  <2>1. Pending' = Pending \ {m} /\ Waits(s)' = Waits(s)
    BY <1>5, TakenNet
  <2>2. SameKinds(s)
    BY <1>1, <1>5, <2>1 DEF SameKinds, OwnCalls
  <2>3. finishedVote'[s] = finishedVote[s]
    BY <1>0, <1>5 DEF FieldsInv, VoteReply, AppendReply
  <2> QED BY <1>0, <1>1, <1>2, <2>1, <2>2, <2>3, ElectKeep
<1>6. CASE AppendReply(m) /\ s = m.from
  <2>1. m \in OwnCalls(s) /\ Pending' = Pending \ {m}
    BY <1>6, TakenNet
  <2>2. m.kind \notin VoteKinds
    BY <1>6 DEF AppendReply, VoteKinds
  <2> QED BY <1>0, <1>1, <2>1, <2>2 DEF ElectOK
<1>7. CASE VoteReply(m) /\ s = m.from
  <2>1. m \in OwnCalls(s) /\ Pending' = Pending \ {m} /\ Waits(s)' = Waits(s) \ {m.to} /\ m.to \in Waits(s)
        /\ m.to \in Server
    BY <1>0, <1>7, TakenNet DEF Waits, MessageOK
  <2>2. Remaining(s)' = Remaining(s)
    BY <1>1 DEF Remaining, RoundSize, Callee
  <2>3. m.to \notin Remaining(s)
    BY <1>0, <2>1, WaitedNotRemaining
  <2>4. finishedVote'[s] = finishedVote[s] + 1
    BY <1>0, <1>7 DEF VoteReply, FinishedAfter, FieldsInv
  <2>5. Server \ (Waits(s)' \cup Remaining(s)') = (Server \ (Waits(s) \cup Remaining(s))) \cup {m.to}
    BY <2>1, <2>2, <2>3
  <2>6. IsFiniteSet(Server \ (Waits(s) \cup Remaining(s))) /\ m.to \notin Server \ (Waits(s) \cup Remaining(s))
    BY <2>1, ServersFinite, FS_Subset
  <2>7. Cardinality(Server \ (Waits(s)' \cup Remaining(s)')) = Cardinality(Server \ (Waits(s) \cup Remaining(s))) + 1
    BY <2>5, <2>6, FS_AddElement
  <2>8. \A n \in OwnCalls(s)' : n \in OwnCalls(s)
    BY <1>1, <2>1 DEF OwnCalls
  <2> QED BY <1>0, <1>1, <1>2, <2>4, <2>7, <2>8 DEF ElectOK
<1> QED BY <1>3, <1>4, <1>5, <1>6, <1>7

\* The count is right at any time.
LEMMA ElectAlways ==
    ASSUME Overlap = FALSE
    PROVE  Spec => []ElectInv
<1>1. Init => ElectInv
  BY ElectInit
<1>2. Base /\ ElectInv /\ [Next]_vars => ElectInv'
  <2> SUFFICES ASSUME Base, ElectInv, [Next]_vars, NEW s \in Server PROVE ElectOK(s)'
    BY DEF ElectInv
  <2>1. CASE UNCHANGED vars
    <3>1. UNCHANGED <<net, voting, restarts, lives, electing, state, newVotes, newAppends, cur_peerId, finishedVote>>
      BY <2>1 DEF vars, threadVars, historyVars, raftVars
    <3>2. OwnCalls(s)' = OwnCalls(s) /\ Waits(s)' = Waits(s) /\ Remaining(s)' = Remaining(s)
      BY <3>1 DEF OwnCalls, Waits, Pending, Serves, Remaining, RoundSize, Callee
    <3> QED BY <3>1, <3>2 DEF ElectInv, ElectOK
  <2> QED BY <2>1, ElectServer, ElectCall DEF Next, ThreadStep
<1> QED BY <1>1, <1>2, BaseAlways, PTL DEF Spec

\* electionLoop is never left waiting on m_cond with nobody to signal it
\* (raft.cpp:330, 398, 408): when its threads have ended, the answers they counted
\* are those of all the servers, or a majority came first.
THEOREM RaftElectionEnds ==
    ASSUME Overlap = FALSE
    PROVE  Spec => []ElectionCanEnd
<1>1. Base /\ ElectInv => ElectionCanEnd
  <2> SUFFICES ASSUME Base, ElectInv, NEW s \in Server, electing[s], restarts = 0,
                      newVotes[s] = 0, Calls(s, VoteKinds) = {}, ~Serving(s)
               PROVE  finishedVote[s] = Peers
    BY DEF ElectionCanEnd
  <2>1. /\ newAppends[s] = 0
        /\ \A m \in OwnCalls(s) : m.kind \in VoteKinds
        /\ Cardinality(Server \ (Waits(s) \cup Remaining(s))) = finishedVote[s]
    BY DEF ElectInv, ElectOK
  <2>2. Remaining(s) = {}
    BY <2>1 DEF Remaining, RoundSize
  <2>3. ASSUME NEW m \in OwnCalls(s) PROVE FALSE
    <3>1. m \in Pending /\ m.from = s /\ m.life = lives[s] /\ m.kind \in VoteKinds
      BY <2>1, <2>3 DEF OwnCalls
    <3>2. CASE m \in DOMAIN net
      BY <3>1, <3>2 DEF Calls, Own
    <3>3. CASE \E p \in Server : Serves(p) /\ m = voting[p].m
      BY <3>1, <3>3 DEF Serving, Serves, Own
    <3> QED BY <3>1, <3>2, <3>3 DEF Pending
  <2>4. Waits(s) = {}
    BY <2>3 DEF Waits
  <2>5. Server \ (Waits(s) \cup Remaining(s)) = Server
    BY <2>2, <2>4
  <2> QED BY <2>1, <2>5, ServersFinite
<1> QED BY <1>1, BaseAlways, ElectAlways, PTL

-----------------------------------------------------------------------------
(* A vote is cast once.                                                    *)

\* What has undone a vote stays undone.
LEMMA VotesKeptBefore == FieldsInv /\ [Next]_vars => (VotesKept' => VotesKept)
<1> SUFFICES ASSUME FieldsInv, [Next]_vars, VotesKept' PROVE VotesKept
  OBVIOUS
<1>1. restarts \in Nat
  BY DEF FieldsInv
<1>2. ASSUME NEW s \in Server,
             \/ CallRequestVote(s) \/ SendAppendEntries(s) \/ CheckLogUptodate(s) \/ GrantVote(s)
             \/ ElectionTimeout(s) \/ ElectionDecided(s) \/ Heartbeat(s) \/ Start(s) \/ Kill(s)
      PROVE  VotesKept
  BY <1>2 DEF VotesKept, CallRequestVote, SendAppendEntries, CheckLogUptodate, GrantVote, ElectionTimeout,
     ElectionDecided, Heartbeat, Start, Kill, historyVars
<1>3. ASSUME NEW s \in Server, Restart(s) PROVE VotesKept
  <2>1. restarts' # 0 /\ UNCHANGED slips
    BY <1>1, <1>3 DEF Restart
  <2> QED BY <2>1 DEF VotesKept
<1>4. ASSUME NEW m \in DOMAIN net, RequestVote(m) \/ VoteReply(m) \/ AppendEntries(m) \/ AppendReply(m)
      PROVE  VotesKept
  <2>1. UNCHANGED restarts /\ slips \subseteq slips'
    <3>1. CASE RequestVote(m) \/ AppendReply(m)
      BY <3>1 DEF RequestVote, AppendReply, historyVars
    <3>2. CASE VoteReply(m)
      BY <3>2 DEF VoteReply
    <3>3. CASE AppendEntries(m)
      BY <3>3 DEF AppendEntries
    <3> QED BY <1>4, <3>1, <3>2, <3>3
  <2> QED BY <2>1 DEF VotesKept
<1>5. CASE UNCHANGED vars
  BY <1>5 DEF vars, historyVars, VotesKept
<1> QED BY <1>2, <1>3, <1>4, <1>5 DEF Next, ThreadStep

\* The votes that p has cast: never in a term beyond its own, and the vote in its own
\* term is the one in m_votedFor.  While p is between the two locks of requestVote it
\* has voted for nobody else in the term of the call, and not at all in a later one,
\* whatever its own term has become.
VotesOK(p) ==
    /\ Serves(p) => voting[p].m.term <= curTerm[p]
    /\ \A t \in Nat, c \in Server : <<t, p, c>> \in ballots =>
        /\ t <= curTerm[p]
        /\ t = curTerm[p] => votedFor[p] = c
        /\ Serves(p) => t <= voting[p].m.term
        /\ Serves(p) /\ t = voting[p].m.term => c = voting[p].m.from
        /\ \A d \in Server : <<t, p, d>> \in ballots => c = d
BallotInv ==
    /\ ballots \subseteq Nat \X Server \X Server
    /\ VotesKept => \A p \in Server : VotesOK(p)

\* The file of p, from which it restarts, knows the votes it has cast as well, unless
\* appendEntries has taken one off it.
OnFile(p) ==
    \A t \in Nat, c \in Server : <<t, p, c>> \in ballots =>
        /\ t <= disk[p].term
        /\ t = disk[p].term => disk[p].voted = c
Filed == slips \cap {"reread", "forgotten"} = {}
FileInv == Filed => \A p \in Server : OnFile(p)

\* A server that casts no vote may learn of a later term, and forget what it served.
LEMMA VotesKeep ==
    ASSUME FieldsInv, FieldsInv', NEW p \in Server, VotesOK(p),
           \A t \in Nat, c \in Server : <<t, p, c>> \in ballots' => <<t, p, c>> \in ballots,
           curTerm'[p] >= curTerm[p], curTerm'[p] = curTerm[p] => votedFor'[p] = votedFor[p],
           Serves(p)' => Serves(p) /\ voting'[p].m = voting[p].m /\ voting[p].m.term \in Nat
    PROVE  VotesOK(p)'
<1>1. curTerm[p] \in Nat /\ curTerm'[p] \in Nat
  BY DEF FieldsInv
<1>2. Serves(p)' => voting'[p].m.term <= curTerm'[p]
  BY <1>1 DEF VotesOK
<1>3. ASSUME NEW t \in Nat, NEW c \in Server, <<t, p, c>> \in ballots'
      PROVE  /\ t <= curTerm'[p]
             /\ t = curTerm'[p] => votedFor'[p] = c
             /\ Serves(p)' => t <= voting'[p].m.term
             /\ Serves(p)' /\ t = voting'[p].m.term => c = voting'[p].m.from
             /\ \A d \in Server : <<t, p, d>> \in ballots' => c = d
  BY <1>1, <1>3 DEF VotesOK
<1> QED BY <1>2, <1>3 DEF VotesOK

\* No vote is cast at the start.
LEMMA BallotInit == Init => BallotInv /\ FileInv
BY DEF Init, BallotInv, FileInv, OnFile, VotesOK, Serves, NoVote

\* What a server knows of the call it serves.
LEMMA ServedTyped ==
    ASSUME NetInv, NEW p \in Server, Serves(p)
    PROVE  voting[p].m.term \in Nat /\ voting[p].m.from \in Server
BY DEF NetInv, VoteOK, MessageOK

\* electionLoop votes for its own server, in a term nobody has voted in there.
LEMMA BallotTimeout ==
    ASSUME Overlap = FALSE, Base, FieldsInv', BallotInv, NEW s \in Server, ElectionTimeout(s), VotesKept', VotesKept
    PROVE  BallotInv'
<1>1. FieldsInv /\ NetInv /\ ~Serves(s) /\ curTerm[s] \in Nat /\ \A p \in Server : VotesOK(p)
  BY QuietMeans DEF Base, ElectionTimeout, BallotInv, FieldsInv
<1>2. /\ curTerm' = [curTerm EXCEPT ![s] = @ + 1] /\ votedFor' = [votedFor EXCEPT ![s] = s]
      /\ ballots' = ballots \cup {<<curTerm[s] + 1, s, s>>} /\ UNCHANGED voting
  BY DEF ElectionTimeout
<1>3. ballots' \subseteq Nat \X Server \X Server
  BY <1>1, <1>2 DEF BallotInv
<1>4. curTerm'[s] = curTerm[s] + 1 /\ votedFor'[s] = s /\ ~Serves(s)'
  BY <1>1, <1>2 DEF FieldsInv, Serves
<1>5. VotesOK(s)'
  <2>1. ASSUME NEW t \in Nat, NEW c \in Server, <<t, s, c>> \in ballots'
        PROVE  (t <= curTerm[s] /\ <<t, s, c>> \in ballots) \/ (t = curTerm[s] + 1 /\ c = s)
    BY <1>1, <1>2, <2>1 DEF VotesOK
  <2>2. ASSUME NEW t \in Nat, NEW c \in Server, <<t, s, c>> \in ballots'
        PROVE  /\ t <= curTerm'[s]
               /\ t = curTerm'[s] => votedFor'[s] = c
               /\ \A d \in Server : <<t, s, d>> \in ballots' => c = d
    BY <1>1, <1>4, <2>1, <2>2 DEF VotesOK
  <2> QED BY <1>4, <2>2 DEF VotesOK
<1>6. ASSUME NEW p \in Server, p # s PROVE VotesOK(p)'
  <2>1. curTerm'[p] = curTerm[p] /\ votedFor'[p] = votedFor[p] /\ voting'[p] = voting[p] /\ curTerm[p] \in Nat
    BY <1>1, <1>2, <1>6 DEF FieldsInv
  <2>2. \A t \in Nat, c \in Server : <<t, p, c>> \in ballots' => <<t, p, c>> \in ballots
    BY <1>2, <1>6
  <2> QED BY <1>1, <2>1, <2>2, VotesKeep, ServedTyped DEF Serves
<1> QED BY <1>3, <1>5, <1>6 DEF BallotInv

\* requestVote casts its vote under the second lock, maybe in a later term than
\* the one it was asked for.
LEMMA BallotGrant ==
    ASSUME Base, FieldsInv', BallotInv, NEW s \in Server, GrantVote(s), VotesKept', VotesKept
    PROVE  BallotInv'
<1>1. FieldsInv /\ NetInv /\ Serves(s) /\ curTerm[s] \in Nat /\ \A p \in Server : VotesOK(p)
  BY DEF Base, GrantVote, BallotInv, FieldsInv, Serves
<1>2. PICK m : m = voting[s].m
  OBVIOUS
<1>3. m.term \in Nat /\ m.from \in Server /\ m.term <= curTerm[s]
  BY <1>1, <1>2, ServedTyped DEF VotesOK
<1>4. /\ UNCHANGED curTerm /\ votedFor' = [votedFor EXCEPT ![s] = m.from]
      /\ ballots' = ballots \cup {<<m.term, s, m.from>>} /\ voting' = [voting EXCEPT ![s] = NoVote]
  BY <1>2 DEF GrantVote
<1>5. ballots' \subseteq Nat \X Server \X Server
  BY <1>3, <1>4 DEF BallotInv
<1>6. votedFor'[s] = m.from /\ voting'[s] = NoVote /\ ~Serves(s)'
  BY <1>1, <1>4 DEF FieldsInv, NetInv, Serves, NoVote
<1>7. VotesOK(s)'
  <2>1. ASSUME NEW t \in Nat, NEW c \in Server, <<t, s, c>> \in ballots'
        PROVE  t <= m.term /\ (t = m.term => c = m.from)
               /\ (<<t, s, c>> \in ballots \/ (t = m.term /\ c = m.from))
    BY <1>1, <1>2, <1>3, <1>4, <2>1 DEF VotesOK
  <2>2. ASSUME NEW t \in Nat, NEW c \in Server, <<t, s, c>> \in ballots'
        PROVE  /\ t <= curTerm'[s]
               /\ t = curTerm'[s] => votedFor'[s] = c
               /\ \A d \in Server : <<t, s, d>> \in ballots' => c = d
    <3>1. t <= curTerm[s] /\ (t = curTerm[s] => c = m.from)
      BY <1>1, <1>3, <2>1, <2>2
    <3>2. ASSUME NEW d \in Server, <<t, s, d>> \in ballots' PROVE c = d
      BY <1>1, <2>1, <2>2, <3>2 DEF VotesOK
    <3> QED BY <1>4, <1>6, <3>1, <3>2
  <2> QED BY <1>6, <2>2 DEF VotesOK
<1>8. ASSUME NEW p \in Server, p # s PROVE VotesOK(p)'
  <2>1. curTerm'[p] = curTerm[p] /\ votedFor'[p] = votedFor[p] /\ voting'[p] = voting[p] /\ curTerm[p] \in Nat
    BY <1>1, <1>4, <1>8 DEF FieldsInv, NetInv
  <2>2. \A t \in Nat, c \in Server : <<t, p, c>> \in ballots' => <<t, p, c>> \in ballots
    BY <1>4, <1>8
  <2> QED BY <1>1, <2>1, <2>2, VotesKeep, ServedTyped DEF Serves
<1> QED BY <1>5, <1>7, <1>8 DEF BallotInv

\* The other servers, when s serves a call.
LEMMA BallotRequestOthers ==
    ASSUME Base, FieldsInv', BallotInv, VotesKept, NEW s \in Server, UNCHANGED ballots,
           NEW t, curTerm' = [curTerm EXCEPT ![s] = t], NEW v, votedFor' = [votedFor EXCEPT ![s] = v],
           UNCHANGED voting \/ \E x : voting' = [voting EXCEPT ![s] = x]
    PROVE  \A p \in Server \ {s} : VotesOK(p)'
<1>1. FieldsInv /\ NetInv /\ \A p \in Server : VotesOK(p)
  BY DEF Base, BallotInv
<1>2. ASSUME NEW p \in Server, p # s PROVE VotesOK(p)'
  <2>1. curTerm'[p] = curTerm[p] /\ votedFor'[p] = votedFor[p] /\ voting'[p] = voting[p] /\ curTerm[p] \in Nat
    BY <1>1, <1>2 DEF FieldsInv, NetInv
  <2> QED BY <1>1, <2>1, VotesKeep, ServedTyped DEF Serves
<1> QED BY <1>2

\* requestVote looks at its vote under the first lock.
LEMMA BallotRequest ==
    ASSUME Base, FieldsInv', BallotInv, NEW m \in DOMAIN net, RequestVote(m), VotesKept', VotesKept
    PROVE  BallotInv'
<1>1. FieldsInv /\ NetInv /\ MessageOK(m) /\ \A p \in Server : VotesOK(p)
  BY DEF Base, BallotInv, NetInv
<1>2. PICK s \in Server : s = m.to
  BY <1>1 DEF MessageOK
<1>3. m.term \in Nat /\ m.from \in Server /\ curTerm[s] \in Nat /\ ~Serves(s) /\ UNCHANGED ballots
  BY <1>1, <1>2 DEF MessageOK, FieldsInv, RequestVote, Serves, historyVars
<1>4. CASE curTerm[s] > m.term
  <2>1. UNCHANGED <<curTerm, votedFor, voting>>
    BY <1>2, <1>4 DEF RequestVote, raftVars
  <2>2. ASSUME NEW p \in Server PROVE VotesOK(p)'
    <3>1. curTerm[p] \in Nat
      BY <1>1 DEF FieldsInv
    <3> QED BY <1>1, <1>3, <2>1, <3>1, VotesKeep, ServedTyped DEF Serves
  <2> QED BY <1>3, <2>2 DEF BallotInv
<1>5. CASE ~(curTerm[s] > m.term)
  <2>1. PICK v \in Server \cup {None} : v = IF curTerm[s] < m.term THEN None ELSE votedFor[s]
    BY <1>1 DEF FieldsInv
  <2>2. /\ curTerm' = [curTerm EXCEPT ![s] = m.term] /\ votedFor' = [votedFor EXCEPT ![s] = v]
        /\ \/ MayVote(v, m.from) /\ voting' = [voting EXCEPT ![s] = [pc |-> "check", m |-> m, term |-> curTerm[s]]]
           \/ UNCHANGED voting
    BY <1>2, <1>5, <2>1 DEF RequestVote
  <2>3. curTerm'[s] = m.term /\ votedFor'[s] = v
    BY <1>1, <2>2 DEF FieldsInv
  <2>4. ASSUME NEW t \in Nat, NEW c \in Server, <<t, s, c>> \in ballots
        PROVE  t <= m.term /\ (t = m.term => c = v)
    BY <1>1, <1>3, <1>5, <2>1, <2>4 DEF VotesOK
  <2>5. None \notin Server
    BY DEF None, Server
  <2>6. CASE UNCHANGED voting
    <3>1. ~Serves(s)'
      BY <1>3, <2>6 DEF Serves
    <3>2. VotesOK(s)'
      <4>1. ASSUME NEW t \in Nat, NEW c \in Server, <<t, s, c>> \in ballots'
            PROVE  /\ t <= curTerm'[s]
                   /\ t = curTerm'[s] => votedFor'[s] = c
                   /\ \A d \in Server : <<t, s, d>> \in ballots' => c = d
        BY <1>1, <1>3, <2>3, <2>4, <4>1 DEF VotesOK
      <4> QED BY <3>1, <4>1 DEF VotesOK
    <3> QED BY <1>3, <2>2, <2>6, <3>2, BallotRequestOthers DEF BallotInv
  <2>7. CASE /\ MayVote(v, m.from)
             /\ voting' = [voting EXCEPT ![s] = [pc |-> "check", m |-> m, term |-> curTerm[s]]]
    <3>1. voting'[s] = [pc |-> "check", m |-> m, term |-> curTerm[s]]
      BY <1>1, <2>7 DEF NetInv
    <3>2. voting'[s].m = m
      BY <3>1
    <3>3. ASSUME NEW t \in Nat, NEW c \in Server, <<t, s, c>> \in ballots, t = m.term
          PROVE  c = m.from
      BY <2>4, <2>5, <2>7, <3>3 DEF MayVote
    <3>4. VotesOK(s)'
      <4>1. Serves(s)' => voting'[s].m.term <= curTerm'[s]
        BY <1>3, <2>3, <3>2
      <4>2. ASSUME NEW t \in Nat, NEW c \in Server, <<t, s, c>> \in ballots'
            PROVE  /\ t <= curTerm'[s]
                   /\ t = curTerm'[s] => votedFor'[s] = c
                   /\ Serves(s)' => t <= voting'[s].m.term
                   /\ Serves(s)' /\ t = voting'[s].m.term => c = voting'[s].m.from
                   /\ \A d \in Server : <<t, s, d>> \in ballots' => c = d
        BY <1>1, <1>3, <2>3, <2>4, <3>2, <3>3, <4>2 DEF VotesOK
      <4> QED BY <4>1, <4>2 DEF VotesOK
    <3> QED BY <1>3, <2>2, <2>7, <3>4, BallotRequestOthers DEF BallotInv
  <2> QED BY <2>2, <2>6, <2>7
<1> QED BY <1>4, <1>5

\* A vote that p received, or an entry, or an answer: it makes no vote of p.
LEMMA BallotLater ==
    ASSUME Base, FieldsInv', BallotInv, UNCHANGED ballots, VotesKept', VotesKept,
           \A p \in Server : /\ curTerm'[p] >= curTerm[p]
                             /\ curTerm'[p] = curTerm[p] => votedFor'[p] = votedFor[p]
                             /\ Serves(p)' => Serves(p) /\ voting'[p].m = voting[p].m
    PROVE  BallotInv'
<1>1. FieldsInv /\ NetInv /\ \A p \in Server : VotesOK(p)
  BY DEF Base, BallotInv
<1>2. ASSUME NEW p \in Server PROVE VotesOK(p)'
  BY <1>1, VotesKeep, ServedTyped
<1> QED BY <1>2 DEF BallotInv

\* When a server takes an answer or entries, its term does not go back, and
\* its vote changes with its term only; readRaftState is no exception as long as it
\* finds on the file what the server has in memory.
LEMMA BallotCall ==
    ASSUME Base, FieldsInv', BallotInv, NEW m \in DOMAIN net,
           VoteReply(m) \/ AppendEntries(m) \/ AppendReply(m), VotesKept', VotesKept
    PROVE  BallotInv'
<1>1. FieldsInv /\ NetInv /\ MessageOK(m) /\ m.term \in Nat /\ m.to \in Server /\ m.from \in Server
      /\ UNCHANGED <<ballots, voting>>
  BY DEF Base, NetInv, MessageOK, VoteReply, AppendEntries, AppendReply, historyVars
<1>2. \E s \in Server :
          \/ UNCHANGED <<curTerm, votedFor>>
          \/ \E t \in Nat, v \in Server \cup {None} :
                /\ curTerm' = [curTerm EXCEPT ![s] = t] /\ votedFor' = [votedFor EXCEPT ![s] = v]
                /\ t > curTerm[s] \/ (t = curTerm[s] /\ v = votedFor[s])
  <2>1. CASE VoteReply(m)
    <3>1. PICK s \in Server : s = m.from
      BY <1>1
    <3>2. CASE m.term > curTerm[s]
      <4>1. PICK t, v : t = (IF disk[s].exists THEN disk[s].term ELSE m.term)
                        /\ v = (IF disk[s].exists THEN disk[s].voted ELSE None)
        OBVIOUS
      <4>2. curTerm' = [curTerm EXCEPT ![s] = t] /\ votedFor' = [votedFor EXCEPT ![s] = v]
        BY <2>1, <3>1, <3>2, <4>1 DEF VoteReply
      <4>3. ~Forgets(s)
        BY <2>1, <3>1, <3>2 DEF VoteReply, VotesKept
      <4>4. t \in Nat /\ v \in Server \cup {None}
        BY <1>1, <4>1 DEF FieldsInv
      <4>5. t > curTerm[s] \/ (t = curTerm[s] /\ v = votedFor[s])
        BY <3>2, <4>1, <4>3 DEF Forgets
      <4> QED BY <4>2, <4>4, <4>5
    <3>3. CASE ~(m.term > curTerm[s])
      BY <2>1, <3>1, <3>3 DEF VoteReply
    <3> QED BY <3>2, <3>3
  <2>2. CASE AppendEntries(m)
    <3>1. PICK s \in Server : s = m.to
      BY <1>1
    <3>2. curTerm[s] \in Nat /\ votedFor[s] \in Server \cup {None}
      BY <1>1 DEF FieldsInv
    <3>3. CASE m.term < curTerm[s]
      BY <2>2, <3>1, <3>3 DEF AppendEntries, raftVars
    <3>4. CASE ~(m.term < curTerm[s])
      <4>1. PICK v : v = IF m.term > curTerm[s] THEN None ELSE votedFor[s]
        OBVIOUS
      <4>2. curTerm' = [curTerm EXCEPT ![s] = m.term] /\ votedFor' = [votedFor EXCEPT ![s] = v]
        BY <2>2, <3>1, <3>4, <4>1 DEF AppendEntries
      <4>3. v \in Server \cup {None} /\ (m.term > curTerm[s] \/ (m.term = curTerm[s] /\ v = votedFor[s]))
        BY <1>1, <3>2, <3>4, <4>1
      <4> QED BY <1>1, <4>2, <4>3
    <3> QED BY <3>3, <3>4
  <2>3. CASE AppendReply(m)
    <3>1. CASE m.term > curTerm[m.from]
      <4>1. curTerm' = [curTerm EXCEPT ![m.from] = m.term] /\ votedFor' = [votedFor EXCEPT ![m.from] = None]
        BY <2>3, <3>1 DEF AppendReply
      <4> QED BY <1>1, <3>1, <4>1
    <3>2. CASE ~(m.term > curTerm[m.from])
      BY <1>1, <2>3, <3>2 DEF AppendReply
    <3> QED BY <3>1, <3>2
  <2> QED BY <2>1, <2>2, <2>3
<1>3. ASSUME NEW p \in Server
      PROVE  /\ curTerm'[p] >= curTerm[p]
             /\ curTerm'[p] = curTerm[p] => votedFor'[p] = votedFor[p]
             /\ Serves(p)' => Serves(p) /\ voting'[p].m = voting[p].m
  <2>1. curTerm[p] \in Nat /\ (Serves(p)' <=> Serves(p)) /\ voting'[p] = voting[p]
    BY <1>1 DEF FieldsInv, Serves
  <2> QED BY <1>1, <1>2, <2>1 DEF FieldsInv
<1> QED BY <1>1, <1>3, BallotLater

\* A server restarts from the votes on its file.
LEMMA BallotRestart ==
    ASSUME Base, FieldsInv', BallotInv, FileInv, NEW s \in Server, Restart(s), VotesKept', VotesKept
    PROVE  BallotInv'
<1>1. FieldsInv /\ NetInv /\ \A p \in Server : VotesOK(p)
  BY DEF Base, BallotInv
<1>2. UNCHANGED <<ballots, slips>> /\ restarts' = restarts + 1 /\ restarts \in Nat
  BY <1>1 DEF Restart, FieldsInv
<1>3. Filed /\ OnFile(s)
  BY <1>2 DEF VotesKept, Filed, FileInv
<1>4. /\ curTerm' = [curTerm EXCEPT ![s] = disk[s].term] /\ votedFor' = [votedFor EXCEPT ![s] = disk[s].voted]
      /\ voting' = [voting EXCEPT ![s] = NoVote]
  BY DEF Restart
<1>5. curTerm'[s] = disk[s].term /\ votedFor'[s] = disk[s].voted /\ ~Serves(s)'
  BY <1>1, <1>4 DEF FieldsInv, NetInv, Serves, NoVote
<1>6. VotesOK(s)'
  <2>1. ASSUME NEW t \in Nat, NEW c \in Server, <<t, s, c>> \in ballots'
        PROVE  /\ t <= curTerm'[s]
               /\ t = curTerm'[s] => votedFor'[s] = c
               /\ \A d \in Server : <<t, s, d>> \in ballots' => c = d
    BY <1>1, <1>2, <1>3, <1>5, <2>1 DEF VotesOK, OnFile
  <2> QED BY <1>5, <2>1 DEF VotesOK
<1> QED BY <1>2, <1>4, <1>6, BallotRequestOthers DEF BallotInv

\* Every step keeps the votes of every server consistent.
LEMMA BallotNext ==
    ASSUME Overlap = FALSE, Base, FieldsInv', BallotInv, FileInv, [Next]_vars
    PROVE  BallotInv'
<1>1. VotesKept' => VotesKept
  BY VotesKeptBefore DEF Base
<1>2. ASSUME ~VotesKept' PROVE BallotInv'
  <2>1. ballots' \subseteq Nat \X Server \X Server
    <3>1. FieldsInv /\ NetInv
      BY DEF Base
    <3>2. ASSUME NEW s \in Server, ElectionTimeout(s) PROVE ballots' = ballots \cup {<<curTerm[s] + 1, s, s>>}
                                                            /\ curTerm[s] + 1 \in Nat
      BY <3>1, <3>2 DEF ElectionTimeout, FieldsInv
    <3>3. ASSUME NEW s \in Server, GrantVote(s)
          PROVE  ballots' = ballots \cup {<<voting[s].m.term, s, voting[s].m.from>>}
                 /\ voting[s].m.term \in Nat /\ voting[s].m.from \in Server
      BY <3>1, <3>3, ServedTyped DEF GrantVote, Serves
    <3>4. \/ UNCHANGED ballots
          \/ \E s \in Server : ElectionTimeout(s) \/ GrantVote(s)
      BY DEF Next, ThreadStep, CallRequestVote, SendAppendEntries, CheckLogUptodate, ElectionDecided, Heartbeat,
         Start, Kill, Restart, RequestVote, VoteReply, AppendEntries, AppendReply, vars, historyVars
    <3> QED BY <3>2, <3>3, <3>4 DEF BallotInv
  <2> QED BY <1>2, <2>1 DEF BallotInv
<1>3. ASSUME VotesKept', VotesKept PROVE BallotInv'
  <2>0. FieldsInv /\ NetInv
    BY DEF Base
  <2>1. ASSUME UNCHANGED <<curTerm, votedFor, voting, ballots>> PROVE BallotInv'
    <3>1. \A p \in Server : curTerm[p] \in Nat /\ (Serves(p)' <=> Serves(p))
      BY <2>0, <2>1 DEF FieldsInv, Serves
    <3> QED BY <1>3, <2>1, <3>1, BallotLater
  <2>2. ASSUME NEW s \in Server, CallRequestVote(s) \/ SendAppendEntries(s) \/ ElectionDecided(s) \/ Heartbeat(s)
               \/ Start(s) \/ Kill(s)
        PROVE  BallotInv'
    BY <2>1, <2>2 DEF CallRequestVote, SendAppendEntries, ElectionDecided, Heartbeat, Start, Kill,
       raftVars, threadVars, historyVars
  <2>3. ASSUME NEW s \in Server, CheckLogUptodate(s) PROVE BallotInv'
    <3>1. UNCHANGED <<curTerm, votedFor, ballots>> /\ DOMAIN voting = Server /\ VoteOK(s) /\ Serves(s)
      BY <2>0, <2>3 DEF CheckLogUptodate, raftVars, historyVars, NetInv, Serves
    <3>2. \/ voting' = [voting EXCEPT ![s].pc = "grant"] \/ voting' = [voting EXCEPT ![s] = NoVote]
      BY <2>3 DEF CheckLogUptodate
    <3>3. \A p \in Server : p # s => voting'[p] = voting[p]
      BY <3>1, <3>2
    <3>4. voting'[s].m = voting[s].m \/ ~Serves(s)'
      <4>1. CASE voting' = [voting EXCEPT ![s].pc = "grant"]
        <5>1. voting'[s] = [voting[s] EXCEPT !.pc = "grant"]
          BY <3>1, <4>1
        <5> QED BY <3>1, <5>1 DEF VoteOK
      <4>2. CASE voting' = [voting EXCEPT ![s] = NoVote]
        BY <3>1, <4>2 DEF Serves, NoVote
      <4> QED BY <3>2, <4>1, <4>2
    <3>5. \A p \in Server : curTerm[p] \in Nat /\ (Serves(p)' => Serves(p) /\ voting'[p].m = voting[p].m)
      BY <2>0, <3>1, <3>3, <3>4 DEF FieldsInv, Serves
    <3> QED BY <1>3, <3>1, <3>5, BallotLater
  <2>4. ASSUME NEW s \in Server, Restart(s) PROVE BallotInv'
    BY <1>3, <2>4, BallotRestart
  <2>5. CASE UNCHANGED vars
    BY <2>1, <2>5 DEF vars, raftVars, threadVars, historyVars
  <2> QED BY <1>3, <2>2, <2>3, <2>4, <2>5, BallotTimeout, BallotGrant, BallotRequest, BallotCall DEF Next, ThreadStep
<1> QED BY <1>1, <1>2, <1>3

\* What is on the file is what the server has in memory: its term and vote are
\* saved with every vote it casts.
LEMMA FileSaved ==
    ASSUME FieldsInv, NEW s \in Server, VotesOK(s)', NEW file, NEW log,
           disk' = [disk EXCEPT ![s] = Saved(file, curTerm'[s], votedFor'[s], log)]
    PROVE  OnFile(s)'
<1>1. disk'[s] = Saved(file, curTerm'[s], votedFor'[s], log)
  BY DEF FieldsInv
<1>2. disk'[s].term = curTerm'[s] /\ disk'[s].voted = votedFor'[s]
  BY <1>1 DEF Saved
<1> QED BY <1>2 DEF VotesOK, OnFile

\* The file of a server that casts no vote and saves nothing.
LEMMA FileKeep ==
    ASSUME NEW p \in Server, OnFile(p), disk'[p] = disk[p],
           \A t \in Nat, c \in Server : <<t, p, c>> \in ballots' => <<t, p, c>> \in ballots
    PROVE  OnFile(p)'
BY DEF OnFile

\* A server saves its votes; appendEntries may leave the old term with no vote.
LEMMA FileNext ==
    ASSUME Base, BallotInv, BallotInv', FileInv, [Next]_vars
    PROVE  FileInv'
<1>0. FieldsInv /\ NetInv
  BY DEF Base
<1>1. Filed' => Filed /\ VotesKept' /\ VotesKept
  <2>1. slips \subseteq slips'
    BY DEF Next, ThreadStep, CallRequestVote, SendAppendEntries, CheckLogUptodate, GrantVote, ElectionTimeout,
       ElectionDecided, Heartbeat, Start, Kill, Restart, RequestVote, VoteReply, AppendEntries, AppendReply,
       vars, historyVars
  <2> QED BY <2>1 DEF Filed, VotesKept
<1> SUFFICES ASSUME Filed', Filed, VotesKept', VotesKept PROVE \A p \in Server : OnFile(p)'
  BY <1>1 DEF FileInv
<1>2. \A p \in Server : VotesOK(p) /\ VotesOK(p)' /\ OnFile(p)
  BY DEF BallotInv, FileInv
<1>3. CASE UNCHANGED <<disk, ballots>>
  BY <1>2, <1>3, FileKeep
<1>4. ASSUME NEW s \in Server, NEW file, NEW log, NEW c, NEW t,
             disk' = [disk EXCEPT ![s] = Saved(file, curTerm'[s], votedFor'[s], log)],
             ballots' \subseteq ballots \cup {<<t, s, c>>}
      PROVE  \A p \in Server : OnFile(p)'
  <2>1. OnFile(s)'
    BY <1>0, <1>2, <1>4, FileSaved
  <2>2. ASSUME NEW p \in Server, p # s PROVE OnFile(p)'
    <3>1. disk'[p] = disk[p]
      BY <1>0, <1>4, <2>2 DEF FieldsInv
    <3>2. \A u \in Nat, d \in Server : <<u, p, d>> \in ballots' => <<u, p, d>> \in ballots
      BY <1>4, <2>2
    <3> QED BY <1>2, <3>1, <3>2, FileKeep
  <2> QED BY <2>1, <2>2
<1>5. ASSUME NEW s \in Server, ElectionTimeout(s) PROVE \A p \in Server : OnFile(p)'
  <2>1. /\ disk' = [disk EXCEPT ![s] = Saved(disk[s], curTerm'[s], votedFor'[s], logs'[s])]
        /\ ballots' \subseteq ballots \cup {<<curTerm[s] + 1, s, s>>}
    BY <1>5 DEF ElectionTimeout, Save
  <2> QED BY <1>4, <2>1
<1>6. ASSUME NEW s \in Server, GrantVote(s) PROVE \A p \in Server : OnFile(p)'
  <2>1. /\ disk' = [disk EXCEPT ![s] = Saved(disk[s], curTerm'[s], votedFor'[s], logs'[s])]
        /\ ballots' \subseteq ballots \cup {<<voting[s].m.term, s, voting[s].m.from>>}
    BY <1>6 DEF GrantVote, SaveVote, Save
  <2> QED BY <1>4, <2>1
<1>7. ASSUME NEW m \in DOMAIN net, RequestVote(m) \/ AppendReply(m) PROVE \A p \in Server : OnFile(p)'
  <2>1. m.to \in Server /\ m.from \in Server /\ UNCHANGED ballots
    BY <1>0, <1>7 DEF NetInv, MessageOK, RequestVote, AppendReply, historyVars
  <2>2. \/ UNCHANGED disk
        \/ \E s \in Server : disk' = [disk EXCEPT ![s] = Saved(disk[s], curTerm'[s], votedFor'[s], logs'[s])]
    BY <1>7, <2>1 DEF RequestVote, AppendReply, Save, raftVars
  <2> QED BY <1>3, <1>4, <2>1, <2>2
<1>8. ASSUME NEW m \in DOMAIN net, AppendEntries(m) PROVE \A p \in Server : OnFile(p)'
  <2>1. PICK s \in Server : s = m.to
    BY <1>0 DEF NetInv, MessageOK
  <2>2. UNCHANGED ballots /\ AppendSlips(s, m) \subseteq slips' /\ curTerm[s] \in Nat /\ m.term \in Nat
    BY <1>0, <1>8, <2>1 DEF AppendEntries, NetInv, MessageOK, FieldsInv
  <2>3. CASE m.term < curTerm[s]
    <3>1. UNCHANGED disk
      BY <1>8, <2>1, <2>3 DEF AppendEntries, raftVars
    <3> QED BY <1>3, <2>2, <3>1
  <2>4. CASE ~(m.term < curTerm[s]) /\ ~(TooShort(logs[s], m) \/ Mismatch(logs[s], m))
    <3>1. curTerm' = [curTerm EXCEPT ![s] = m.term]
          /\ \E file : disk' = [disk EXCEPT ![s] = Saved(file, m.term, votedFor'[s], Synced(logs[s], m))]
      BY <1>8, <2>1, <2>4 DEF AppendEntries
    <3>2. curTerm'[s] = m.term
      BY <1>0, <3>1 DEF FieldsInv
    <3> QED BY <1>4, <2>2, <3>1, <3>2
  <2>5. CASE ~(m.term < curTerm[s]) /\ (TooShort(logs[s], m) \/ Mismatch(logs[s], m))
    <3>1. disk' = [disk EXCEPT ![s] = IF m.term > curTerm[s] THEN Saved(disk[s], curTerm[s], None, logs[s])
                                      ELSE disk[s]]
      BY <1>8, <2>1, <2>5 DEF AppendEntries
    <3>2. CASE ~(m.term > curTerm[s])
      <4>1. \A p \in Server : disk'[p] = disk[p]
        BY <1>0, <3>1, <3>2 DEF FieldsInv
      <4> QED BY <1>2, <2>2, <4>1, FileKeep
    <3>3. CASE m.term > curTerm[s]
      <4>1. votedFor[s] = None
        BY <2>2, <2>5, <3>3 DEF AppendSlips, Filed
      <4>2. disk'[s] = Saved(disk[s], curTerm[s], None, logs[s]) /\ \A p \in Server : p # s => disk'[p] = disk[p]
        BY <1>0, <3>1, <3>3 DEF FieldsInv
      <4>3. disk'[s].term = curTerm[s] /\ None \notin Server
        BY <4>2 DEF Saved, None, Server
      <4>4. OnFile(s)'
        BY <1>2, <2>2, <4>1, <4>3 DEF OnFile, VotesOK
      <4> QED BY <1>2, <2>2, <4>2, <4>4, FileKeep
    <3> QED BY <3>2, <3>3
  <2> QED BY <2>3, <2>4, <2>5
<1>9. \/ UNCHANGED <<disk, ballots>>
      \/ \E s \in Server : ElectionTimeout(s) \/ GrantVote(s)
      \/ \E m \in DOMAIN net : RequestVote(m) \/ AppendReply(m) \/ AppendEntries(m)
  BY DEF Next, ThreadStep, CallRequestVote, SendAppendEntries, CheckLogUptodate, ElectionDecided, Heartbeat,
     Start, Kill, Restart, VoteReply, vars, historyVars, raftVars
<1> QED BY <1>3, <1>5, <1>6, <1>7, <1>8, <1>9

\* The votes are consistent at any time, in memory and on file.
LEMMA BallotAlways ==
    ASSUME Overlap = FALSE
    PROVE  Spec => []BallotInv
<1>1. Init => BallotInv /\ FileInv
  BY BallotInit
<1>2. Base /\ Base' /\ BallotInv /\ FileInv /\ [Next]_vars => BallotInv' /\ FileInv'
  BY BallotNext, FileNext DEF Base
<1> QED BY <1>1, <1>2, BaseAlways, PTL DEF Spec

\* No server votes for two candidates in a term, though the vote is looked at under
\* one lock and cast under another (raft.cpp:421, 453-462), appendEntries or an answer
\* may change the term in between, and a server may die and restart at any point.
THEOREM RaftOneVotePerTerm ==
    ASSUME Overlap = FALSE
    PROVE  Spec => []OneVotePerTerm
<1>1. BallotInv => OneVotePerTerm
  <2> SUFFICES ASSUME BallotInv, VotesKept, NEW b \in ballots, NEW c \in ballots, b[1] = c[1], b[2] = c[2]
               PROVE  b = c
    BY DEF OneVotePerTerm
  <2>1. b = <<b[1], b[2], b[3]>> /\ b[1] \in Nat /\ b[2] \in Server /\ b[3] \in Server
        /\ c = <<c[1], c[2], c[3]>> /\ c[3] \in Server
    BY DEF BallotInv
  <2>2. b[3] = c[3]
    BY <2>1 DEF BallotInv, VotesOK
  <2> QED BY <2>1, <2>2
<1> QED BY <1>1, BallotAlways, PTL

-----------------------------------------------------------------------------
(* A term has one leader.                                                  *)

\* A candidate's calls ask for votes in its present term, an answer that grants one
\* comes from a server that has voted for it, and recvVotes counts such servers, none
\* of which has yet to answer.
Voters(s) == {p \in Server : <<curTerm[s], p, s>> \in ballots}
GrantsOK(s) ==
    \A m \in OwnCalls(s) :
        /\ m.kind = "voteReq" => m.term = curTerm[s]
        /\ m.kind = "voteRsp" /\ m.granted => m.to \in Voters(s)
CandidateOK(s) ==
    state[s] = "CANDIDATE" /\ VotesKept =>
        /\ GrantsOK(s)
        /\ \E W \in SUBSET Voters(s) : /\ Cardinality(W) = recvVotes[s]
                                       /\ W \cap (Waits(s) \cup Remaining(s)) = {}

\* A leader has the votes of a majority.
ElectedInv ==
    /\ elected \subseteq Nat \X Server
    /\ VotesKept => \A t \in Nat, s \in Server : <<t, s>> \in elected =>
           \E Q \in SUBSET Server : /\ Cardinality(Q) > Majority
                                    /\ \A p \in Q : <<t, p, s>> \in ballots
CandidateInv == \A s \in Server : CandidateOK(s)

\* While a server stays a candidate it stays in its term, and its votes stay cast.
LEMMA CandidateKeep ==
    ASSUME NEW s \in Server, CandidateOK(s), VotesKept' => VotesKept, ballots \subseteq ballots',
           state'[s] = "CANDIDATE" => state[s] = "CANDIDATE" /\ curTerm'[s] = curTerm[s]
                                      /\ recvVotes'[s] = recvVotes[s],
           Waits(s)' \cup Remaining(s)' \subseteq Waits(s) \cup Remaining(s),
           state'[s] = "CANDIDATE" /\ VotesKept' => GrantsOK(s)'
    PROVE  CandidateOK(s)'
<1> SUFFICES ASSUME state'[s] = "CANDIDATE", VotesKept'
             PROVE  /\ GrantsOK(s)'
                    /\ \E W \in SUBSET Voters(s)' : /\ Cardinality(W) = recvVotes'[s]
                                                    /\ W \cap (Waits(s)' \cup Remaining(s)') = {}
  BY DEF CandidateOK
<1>1. PICK W \in SUBSET Voters(s) : /\ Cardinality(W) = recvVotes[s]
                                    /\ W \cap (Waits(s) \cup Remaining(s)) = {}
  BY DEF CandidateOK
<1>2. Voters(s) \subseteq Voters(s)'
  BY DEF Voters
<1> QED BY <1>1, <1>2

\* The calls of s are those it had, but for some that ask in its present term, for
\* answers that refuse, and for appends.
Fewer(s) ==
    \A m \in OwnCalls(s)' : m \in OwnCalls(s) \/ m.kind \in AppendKinds \/ (m.kind = "voteRsp" /\ ~m.granted)
                            \/ (m.kind = "voteReq" /\ m.term = curTerm[s])

\* A candidate that stays in its term and gets no granting answer.
LEMMA GrantsKeep ==
    ASSUME NEW s \in Server, GrantsOK(s), Fewer(s), curTerm'[s] = curTerm[s], ballots \subseteq ballots'
    PROVE  GrantsOK(s)'
<1>1. Voters(s) \subseteq Voters(s)'
  BY DEF Voters
<1> QED BY <1>1 DEF GrantsOK, Fewer, AppendKinds

\* The steps that bring a candidate no vote.
LEMMA CandidateFewer ==
    ASSUME NEW s \in Server, CandidateOK(s), VotesKept' => VotesKept, ballots \subseteq ballots',
           state'[s] = "CANDIDATE" => state[s] = "CANDIDATE" /\ curTerm'[s] = curTerm[s]
                                      /\ recvVotes'[s] = recvVotes[s],
           Waits(s)' \cup Remaining(s)' \subseteq Waits(s) \cup Remaining(s), Fewer(s)
    PROVE  CandidateOK(s)'
<1>1. state'[s] = "CANDIDATE" /\ VotesKept' => GrantsOK(s)'
  BY GrantsKeep DEF CandidateOK
<1> QED BY <1>1, CandidateKeep

\* A refusal, and an answer to an append, add no granting answer.
LEMMA ReplacedFewer ==
    ASSUME UNCHANGED lives,
           \/ Pending' \subseteq Pending
           \/ \E m, r : Replaced(m, r) /\ r.kind \in AppendKinds
           \/ \E m : Refused(m)
    PROVE  \A s \in Server : Fewer(s)
<1>1. CASE Pending' \subseteq Pending
  BY <1>1 DEF Fewer, OwnCalls
<1>2. ASSUME NEW m, NEW r, Replaced(m, r), r.kind \in AppendKinds \/ (r.kind = "voteRsp" /\ ~r.granted)
      PROVE  \A s \in Server : Fewer(s)
  BY <1>2 DEF Fewer, OwnCalls, Replaced
<1> QED BY <1>1, <1>2 DEF Refused

\* The threads left, and the callee, of a server whose counters do not change.
LEMMA RemainingSame ==
    ASSUME NEW s, newVotes'[s] = newVotes[s], newAppends'[s] = newAppends[s], cur_peerId'[s] = cur_peerId[s]
    PROVE  Remaining(s)' = Remaining(s)
BY DEF Remaining, RoundSize, Callee

\* There is no candidate and no leader at the start.
LEMMA CandidateInit == Init => CandidateInv /\ ElectedInv
BY DEF Init, CandidateInv, CandidateOK, ElectedInv

\* What the threads of a server do to a candidate, itself or another.
LEMMA CandidateServer ==
    ASSUME Overlap = FALSE, Base, BallotInv, CandidateInv, VotesKept' => VotesKept,
           NEW p \in Server, NEW s \in Server,
           \/ CallRequestVote(p) \/ SendAppendEntries(p) \/ CheckLogUptodate(p)
           \/ ElectionTimeout(p) \/ ElectionDecided(p) \/ Heartbeat(p)
           \/ Start(p) \/ Kill(p) \/ Restart(p)
    PROVE  CandidateOK(s)'
<1>0. FieldsInv /\ CurPeerInv /\ NetInv /\ RoundInv /\ CandidateOK(s)
  BY DEF Base, CandidateInv
<1>1. CASE CallRequestVote(p)
  <2>1. UNCHANGED <<state, curTerm, recvVotes, ballots, newAppends, lives>>
        /\ newVotes' = [newVotes EXCEPT ![p] = @ - 1]
        /\ cur_peerId' = [cur_peerId EXCEPT ![p] = NextPeerId(p)]
    BY <1>1 DEF CallRequestVote, raftVars, historyVars
  <2>2. PICK m : /\ m.kind = "voteReq" /\ m.term = curTerm[p] /\ m.from = p /\ m.life = lives[p]
                 /\ Pending' = Pending \cup {m}
    BY <1>1, CallRequestVoteNet
  <2>3. /\ \A q : Waits(q)' = IF q = p THEN Waits(p) \cup {Callee(p)} ELSE Waits(q)
        /\ Callee(p) \in Remaining(p) /\ Remaining(p)' = Remaining(p) \ {Callee(p)}
    BY <1>1, CallRequestVoteNet
  <2>4. Fewer(s)
    BY <2>1, <2>2 DEF Fewer, OwnCalls
  <2>5. Waits(s)' \cup Remaining(s)' = Waits(s) \cup Remaining(s)
    <3>1. CASE s = p
      BY <2>3, <3>1
    <3>2. CASE s # p
      <4>1. newVotes'[s] = newVotes[s] /\ cur_peerId'[s] = cur_peerId[s]
        BY <1>0, <2>1, <3>2 DEF FieldsInv, CurPeerInv
      <4> QED BY <2>1, <2>3, <3>2, <4>1, RemainingSame
    <3> QED BY <3>1, <3>2
  <2> QED BY <1>0, <2>1, <2>4, <2>5, CandidateFewer
<1>2. CASE SendAppendEntries(p)
  <2>1. UNCHANGED <<state, curTerm, recvVotes, ballots, newVotes, lives>>
        /\ newAppends' = [newAppends EXCEPT ![p] = @ - 1]
        /\ cur_peerId' = [cur_peerId EXCEPT ![p] = NextPeerId(p)]
    BY <1>2 DEF SendAppendEntries, raftVars, historyVars
  <2>2. PICK m : /\ m.kind = "appendReq" /\ m.from = p /\ m.life = lives[p]
                 /\ Pending' = Pending \cup {m}
    BY <1>2, SendAppendEntriesNet
  <2>3. /\ \A q : Waits(q)' = IF q = p THEN Waits(p) \cup {Callee(p)} ELSE Waits(q)
        /\ Callee(p) \in Remaining(p) /\ Remaining(p)' = Remaining(p) \ {Callee(p)}
    BY <1>2, SendAppendEntriesNet
  <2>4. Fewer(s)
    BY <2>1, <2>2 DEF Fewer, OwnCalls, AppendKinds
  <2>5. Waits(s)' \cup Remaining(s)' = Waits(s) \cup Remaining(s)
    <3>1. CASE s = p
      BY <2>3, <3>1
    <3>2. CASE s # p
      <4>1. newAppends'[s] = newAppends[s] /\ cur_peerId'[s] = cur_peerId[s]
        BY <1>0, <2>1, <3>2 DEF FieldsInv, CurPeerInv
      <4> QED BY <2>1, <2>3, <3>2, <4>1, RemainingSame
    <3> QED BY <3>1, <3>2
  <2> QED BY <1>0, <2>1, <2>4, <2>5, CandidateFewer
<1>3. CASE CheckLogUptodate(p)
  <2>1. UNCHANGED <<state, curTerm, recvVotes, ballots, newVotes, newAppends, lives, cur_peerId>>
    BY <1>3 DEF CheckLogUptodate, raftVars, historyVars
  <2>2. (Pending' = Pending \/ \E m : Refused(m))
    BY <1>3, CheckLogNet
  <2>3. Waits(s)' = Waits(s) /\ Fewer(s)
    BY <2>1, <2>2, WaitsSame, ReplacedFewer DEF Refused
  <2> QED BY <1>0, <2>1, <2>3, RemainingSame, CandidateFewer
<1>4. CASE ElectionTimeout(p)
  <2>1. newVotes[p] = 0 /\ newAppends[p] = 0 /\ OwnCalls(p) = {} /\ Waits(p) = {}
    BY <1>0, <1>4, QuietMeans DEF ElectionTimeout
  <2>2. /\ UNCHANGED <<newAppends, net, voting, restarts, lives>>
        /\ cur_peerId' = [cur_peerId EXCEPT ![p] = 0]
        /\ newVotes' = [newVotes EXCEPT ![p] = @ + Peers - 1]
        /\ state' = [state EXCEPT ![p] = "CANDIDATE"]
        /\ curTerm' = [curTerm EXCEPT ![p] = @ + 1]
        /\ recvVotes' = [recvVotes EXCEPT ![p] = 1]
        /\ ballots' = ballots \cup {<<curTerm[p] + 1, p, p>>}
    BY <1>4 DEF ElectionTimeout
  <2>3. Pending' = Pending /\ (\A q : Waits(q)' = Waits(q)) /\ Remaining(p)' = Server \ {p}
    BY <1>0, <2>1, <2>2, RoundStart
  <2>4. OwnCalls(s)' = OwnCalls(s)
    BY <2>2, <2>3 DEF OwnCalls
  <2>5. CASE s = p
    <3>1. curTerm'[p] = curTerm[p] + 1 /\ recvVotes'[p] = 1
      BY <1>0, <2>2 DEF FieldsInv
    <3>2. p \in Voters(p)'
      BY <2>2, <3>1 DEF Voters
    <3>3. {p} \in SUBSET Voters(p)' /\ Cardinality({p}) = recvVotes'[p]
          /\ {p} \cap (Waits(p)' \cup Remaining(p)') = {}
      BY <2>1, <2>3, <3>1, <3>2, FS_Singleton
    <3>4. GrantsOK(p)'
      BY <2>1, <2>4, <2>5 DEF GrantsOK
    <3> QED BY <2>5, <3>3, <3>4 DEF CandidateOK
  <2>6. CASE s # p
    <3>1. newVotes'[s] = newVotes[s] /\ cur_peerId'[s] = cur_peerId[s] /\ state'[s] = state[s]
          /\ curTerm'[s] = curTerm[s] /\ recvVotes'[s] = recvVotes[s]
      BY <1>0, <2>2, <2>6 DEF FieldsInv, CurPeerInv
    <3>2. Fewer(s)
      BY <2>4 DEF Fewer
    <3>3. ballots \subseteq ballots'
      BY <2>2
    <3> QED BY <1>0, <2>2, <2>3, <3>1, <3>2, <3>3, RemainingSame, CandidateFewer
  <2> QED BY <2>5, <2>6
<1>5. CASE ElectionDecided(p)
  <2>1. UNCHANGED <<net, voting, restarts, newVotes, newAppends, lives, cur_peerId, curTerm, recvVotes, ballots>>
        /\ (UNCHANGED state \/ state' = [state EXCEPT ![p] = "LEADER"])
    BY <1>5 DEF ElectionDecided
  <2>2. Waits(s)' = Waits(s) /\ Pending' = Pending
    BY <2>1, StillNet
  <2>3. state'[s] = "CANDIDATE" => state[s] = "CANDIDATE"
    BY <1>0, <2>1 DEF FieldsInv
  <2> QED BY <1>0, <2>1, <2>2, <2>3, ReplacedFewer, RemainingSame, CandidateFewer
<1>6. CASE Heartbeat(p)
  <2>1. /\ UNCHANGED <<newVotes, net, voting, restarts, lives, cur_peerId, state, curTerm, recvVotes, ballots>>
        /\ newAppends' = [newAppends EXCEPT ![p] = @ + Peers - 1] /\ state[p] = "LEADER"
    BY <1>6 DEF Heartbeat, raftVars
  <2>2. Waits(s)' = Waits(s) /\ Pending' = Pending
    BY <2>1, StillNet
  <2>3. CASE s = p
    BY <2>1, <2>3 DEF CandidateOK
  <2>4. CASE s # p
    <3>1. newAppends'[s] = newAppends[s]
      BY <1>0, <2>1, <2>4 DEF FieldsInv
    <3> QED BY <1>0, <2>1, <2>2, <3>1, ReplacedFewer, RemainingSame, CandidateFewer
  <2> QED BY <2>3, <2>4
<1>7. CASE Start(p) \/ Kill(p)
  <2>1. UNCHANGED <<net, voting, restarts, newVotes, newAppends, lives, cur_peerId, state, curTerm, recvVotes, ballots>>
    BY <1>7 DEF Start, Kill, threadVars, raftVars, historyVars
  <2>2. Waits(s)' = Waits(s) /\ Pending' = Pending
    BY <2>1, StillNet
  <2> QED BY <1>0, <2>1, <2>2, ReplacedFewer, RemainingSame, CandidateFewer
<1>8. CASE Restart(p)
  <2>1. /\ state' = [state EXCEPT ![p] = "FOLLOWER"] /\ curTerm' = [curTerm EXCEPT ![p] = disk[p].term]
        /\ recvVotes' = [recvVotes EXCEPT ![p] = 0] /\ cur_peerId' = [cur_peerId EXCEPT ![p] = 0]
        /\ newVotes' = [newVotes EXCEPT ![p] = 0] /\ newAppends' = [newAppends EXCEPT ![p] = 0]
        /\ lives' = [lives EXCEPT ![p] = restarts + 1] /\ UNCHANGED ballots
    BY <1>8 DEF Restart
  <2>2. CASE s = p
    BY <1>0, <2>1, <2>2 DEF CandidateOK, FieldsInv
  <2>3. CASE s # p
    <3>1. state'[s] = state[s] /\ curTerm'[s] = curTerm[s] /\ recvVotes'[s] = recvVotes[s]
          /\ cur_peerId'[s] = cur_peerId[s] /\ newVotes'[s] = newVotes[s] /\ newAppends'[s] = newAppends[s]
          /\ lives'[s] = lives[s]
      BY <1>0, <2>1, <2>3 DEF FieldsInv, CurPeerInv
    <3>2. Pending' \subseteq Pending /\ Waits(s)' \subseteq Waits(s)
      BY <1>8, RestartNet
    <3>3. Fewer(s)
      BY <3>1, <3>2 DEF Fewer, OwnCalls
    <3> QED BY <1>0, <2>1, <3>1, <3>2, <3>3, RemainingSame, CandidateFewer
  <2> QED BY <2>2, <2>3
<1> QED BY <1>1, <1>2, <1>3, <1>4, <1>5, <1>6, <1>7, <1>8

\* The vote that p grants to s is on record when the answer says so.
LEMMA CandidateGrant ==
    ASSUME Base, CandidateInv, VotesKept' => VotesKept, NEW p \in Server, GrantVote(p), NEW s \in Server
    PROVE  CandidateOK(s)'
<1>0. FieldsInv /\ NetInv /\ CandidateOK(s)
  BY DEF Base, CandidateInv
<1>1. PICK m : m = voting[p].m
  OBVIOUS
<1>2. PICK r : Replaced(m, r) /\ r.kind = "voteRsp"
  BY <1>1, GrantVoteNet
<1>3. m.kind = "voteReq" /\ MessageOK(m) /\ m.to = p /\ m \in Pending
  BY <1>1, GrantVoteNet
<1>4. UNCHANGED <<state, curTerm, recvVotes, newVotes, newAppends, lives, cur_peerId>>
      /\ ballots' = ballots \cup {<<m.term, p, m.from>>}
  BY <1>1 DEF GrantVote
<1>5. Waits(s)' = Waits(s)
  BY <1>2, <1>4, WaitsSame
<1>6. ASSUME state'[s] = "CANDIDATE", VotesKept' PROVE GrantsOK(s)'
  <2>1. GrantsOK(s)
    BY <1>0, <1>4, <1>6 DEF CandidateOK
  <2>2. Voters(s) \subseteq Voters(s)'
    BY <1>4 DEF Voters
  <2>3. ASSUME NEW q \in OwnCalls(s)'
        PROVE  /\ q.kind = "voteReq" => q.term = curTerm'[s]
               /\ q.kind = "voteRsp" /\ q.granted => q.to \in Voters(s)'
    <3>1. CASE q = r
      <4>1. r.from = m.from /\ r.to = m.to /\ r.life = m.life
        BY <1>2 DEF Replaced, Key
      <4>2. m \in OwnCalls(s) /\ m.from = s
        BY <1>3, <1>4, <2>3, <3>1, <4>1 DEF OwnCalls
      <4>3. m.term = curTerm[s]
        BY <1>3, <2>1, <4>2 DEF GrantsOK
      <4>4. p \in Voters(s)'
        BY <1>4, <4>2, <4>3 DEF Voters
      <4> QED BY <1>2, <1>3, <3>1, <4>1, <4>4
    <3>2. CASE q # r
      <4>1. q \in OwnCalls(s)
        BY <1>2, <1>4, <2>3, <3>2 DEF OwnCalls, Replaced
      <4> QED BY <1>4, <2>1, <2>2, <4>1 DEF GrantsOK
    <3> QED BY <3>1, <3>2
  <2> QED BY <2>3 DEF GrantsOK
<1>7. ballots \subseteq ballots'
  BY <1>4
<1> QED BY <1>0, <1>4, <1>5, <1>6, <1>7, RemainingSame, CandidateKeep

\* Handlers that count no vote: at most they depose the candidate.
LEMMA CandidateCall ==
    ASSUME Base, CandidateInv, VotesKept' => VotesKept, NEW m \in DOMAIN net, NEW s \in Server,
           RequestVote(m) \/ AppendEntries(m) \/ AppendReply(m)
    PROVE  CandidateOK(s)'
<1>0. FieldsInv /\ NetInv /\ CandidateOK(s) /\ MessageOK(m) /\ m.to \in Server /\ m.from \in Server
  BY DEF Base, CandidateInv, NetInv, MessageOK
<1>1. UNCHANGED <<newVotes, newAppends, cur_peerId, lives, ballots, recvVotes>>
  BY DEF RequestVote, AppendEntries, AppendReply, historyVars
<1>2. state'[s] = "CANDIDATE" => state[s] = "CANDIDATE" /\ curTerm'[s] = curTerm[s]
  <2>1. CASE RequestVote(m)
    <3>1. \/ UNCHANGED <<state, curTerm>>
          \/ /\ ~(curTerm[m.to] > m.term)
             /\ state' = [state EXCEPT ![m.to] = IF curTerm[m.to] < m.term THEN "FOLLOWER" ELSE @]
             /\ curTerm' = [curTerm EXCEPT ![m.to] = m.term]
      BY <2>1 DEF RequestVote, raftVars
    <3>2. curTerm[m.to] \in Nat /\ m.term \in Nat
      BY <1>0 DEF FieldsInv, MessageOK
    <3>3. CASE s = m.to
      BY <1>0, <3>1, <3>2, <3>3 DEF FieldsInv
    <3>4. CASE s # m.to
      BY <1>0, <3>1, <3>4 DEF FieldsInv
    <3> QED BY <3>3, <3>4
  <2>2. CASE AppendEntries(m)
    <3>1. \/ UNCHANGED <<state, curTerm>>
          \/ /\ state' = [state EXCEPT ![m.to] = "FOLLOWER"]
             /\ curTerm' = [curTerm EXCEPT ![m.to] = m.term]
      BY <2>2 DEF AppendEntries, raftVars
    <3> QED BY <1>0, <3>1 DEF FieldsInv
  <2>3. CASE AppendReply(m)
    <3>1. \/ UNCHANGED <<state, curTerm>>
          \/ /\ state' = [state EXCEPT ![m.from] = "FOLLOWER"]
             /\ curTerm' = [curTerm EXCEPT ![m.from] = m.term]
      BY <2>3 DEF AppendReply
    <3> QED BY <1>0, <3>1 DEF FieldsInv
  <2> QED BY <2>1, <2>2, <2>3
<1>3. Waits(s)' \subseteq Waits(s) /\ Fewer(s)
  <2>1. CASE RequestVote(m)
    <3>1. Pending' = Pending \/ Refused(m)
      BY <2>1, RequestVoteNet
    <3> QED BY <1>1, <3>1, WaitsSame, ReplacedFewer DEF Refused
  <2>2. CASE AppendEntries(m)
    <3>1. \E r : Replaced(m, r) /\ r.kind \in AppendKinds
      BY <2>2, AppendEntriesNet DEF AppendKinds
    <3> QED BY <1>1, <3>1, WaitsSame, ReplacedFewer
  <2>3. CASE AppendReply(m)
    <3>1. Pending' \subseteq Pending /\ Waits(s)' \subseteq Waits(s)
      BY <2>3, TakenNet
    <3> QED BY <1>1, <3>1, ReplacedFewer
  <2> QED BY <2>1, <2>2, <2>3
<1> QED BY <1>0, <1>1, <1>2, <1>3, RemainingSame, CandidateFewer

\* callRequestVote counts the answer of a server that it waited for.
LEMMA CandidateReply ==
    ASSUME Base, CandidateInv, VotesKept' => VotesKept, NEW m \in DOMAIN net, NEW s \in Server, VoteReply(m)
    PROVE  CandidateOK(s)'
<1>0. FieldsInv /\ NetInv /\ RoundInv /\ CurPeerInv /\ CandidateOK(s) /\ MessageOK(m) /\ m.to \in Server
  BY DEF Base, CandidateInv, NetInv, MessageOK
<1>1. UNCHANGED <<newVotes, newAppends, cur_peerId, lives, ballots>> /\ m.kind = "voteRsp"
  BY DEF VoteReply
<1>2. /\ m \in OwnCalls(m.from) /\ Pending' \subseteq Pending
      /\ Waits(s)' = IF s = m.from THEN Waits(s) \ {m.to} ELSE Waits(s)
  BY TakenNet
<1>3. Fewer(s)
  BY <1>1, <1>2, ReplacedFewer
<1>4. Remaining(s)' = Remaining(s)
  BY <1>1, RemainingSame
<1>5. CASE m.term > curTerm[m.from]
  <2>1. state' = [state EXCEPT ![m.from] = "FOLLOWER"] /\ UNCHANGED recvVotes
        /\ curTerm' = [curTerm EXCEPT ![m.from] = IF disk[m.from].exists THEN disk[m.from].term ELSE m.term]
    BY <1>5 DEF VoteReply
  <2>2. state'[s] = "CANDIDATE" => state[s] = "CANDIDATE" /\ curTerm'[s] = curTerm[s]
    BY <1>0, <2>1 DEF FieldsInv
  <2> QED BY <1>0, <1>1, <1>2, <1>3, <1>4, <2>1, <2>2, CandidateFewer
<1>6. CASE ~(m.term > curTerm[m.from])
  <2>1. UNCHANGED <<state, curTerm>>
        /\ recvVotes' = [recvVotes EXCEPT ![m.from] = IF m.granted THEN @ + 1 ELSE @]
    BY <1>6 DEF VoteReply
  <2>2. CASE s # m.from \/ ~m.granted
    <3>1. recvVotes'[s] = recvVotes[s]
      BY <1>0, <2>1, <2>2 DEF FieldsInv
    <3> QED BY <1>0, <1>1, <1>2, <1>3, <1>4, <2>1, <3>1, CandidateFewer
  <2>3. CASE s = m.from /\ m.granted
    <3> SUFFICES ASSUME state'[s] = "CANDIDATE", VotesKept' PROVE CandidateOK(s)'
      BY DEF CandidateOK
    <3>1. GrantsOK(s) /\ state[s] = "CANDIDATE" /\ VotesKept
      BY <1>0, <2>1 DEF CandidateOK
    <3>2. GrantsOK(s)'
      BY <1>1, <1>3, <2>1, <3>1, GrantsKeep
    <3>3. PICK W \in SUBSET Voters(s) : /\ Cardinality(W) = recvVotes[s]
                                        /\ W \cap (Waits(s) \cup Remaining(s)) = {}
      BY <1>0, <3>1 DEF CandidateOK
    <3>4. m.to \in Voters(s) /\ m.to \in Waits(s)
      BY <1>1, <1>2, <2>3, <3>1 DEF GrantsOK, Waits
    <3>5. m.to \notin Remaining(s) /\ m.to \notin W
      BY <1>0, <3>3, <3>4, WaitedNotRemaining
    <3>6. Voters(s)' = Voters(s) /\ Voters(s) \subseteq Server
      BY <1>1, <2>1 DEF Voters
    <3>7. IsFiniteSet(W)
      <4>1. W \in SUBSET Server
        BY <3>6
      <4> QED BY <4>1, ServersFinite, FS_Subset
    <3>8. Cardinality(W \cup {m.to}) = recvVotes'[s]
      <4>1. recvVotes'[s] = recvVotes[s] + 1
        BY <1>0, <2>1, <2>3 DEF FieldsInv
      <4> QED BY <3>3, <3>5, <3>7, <4>1, FS_AddElement
    <3>9. (W \cup {m.to}) \cap (Waits(s)' \cup Remaining(s)') = {}
      BY <1>2, <1>4, <2>3, <3>3, <3>5
    <3>10. W \cup {m.to} \in SUBSET Voters(s)'
      BY <3>4, <3>6
    <3> QED BY <3>2, <3>8, <3>9, <3>10 DEF CandidateOK
  <2> QED BY <2>2, <2>3
<1> QED BY <1>5, <1>6

\* Every step keeps what a candidate counts.
LEMMA CandidateNext ==
    ASSUME Overlap = FALSE, Base, BallotInv, CandidateInv, [Next]_vars
    PROVE  CandidateInv'
<1>1. VotesKept' => VotesKept
  BY VotesKeptBefore DEF Base
<1>2. ASSUME NEW s \in Server, UNCHANGED vars PROVE CandidateOK(s)'
  <2>1. UNCHANGED <<net, voting, restarts, newVotes, newAppends, lives, cur_peerId, state, curTerm, recvVotes, ballots>>
    BY <1>2 DEF vars, threadVars, raftVars, historyVars
  <2>2. Waits(s)' = Waits(s) /\ Pending' = Pending
    BY <2>1, StillNet
  <2> QED BY <1>1, <2>1, <2>2, ReplacedFewer, RemainingSame, CandidateFewer DEF CandidateInv
<1>3. ASSUME NEW s \in Server PROVE CandidateOK(s)'
  BY <1>1, <1>2, CandidateServer, CandidateGrant, CandidateCall, CandidateReply DEF Next, ThreadStep
<1> QED BY <1>3 DEF CandidateInv

\* A candidate becomes a leader on the votes of more than half of the servers; votes
\* are never taken back.
LEMMA ElectedNext ==
    ASSUME Base, CandidateInv, ElectedInv, [Next]_vars
    PROVE  ElectedInv'
<1>1. VotesKept' => VotesKept
  BY VotesKeptBefore DEF Base
<1>2. ballots \subseteq ballots'
  BY DEF Next, ThreadStep, CallRequestVote, SendAppendEntries, CheckLogUptodate, GrantVote, ElectionTimeout,
     ElectionDecided, Heartbeat, Start, Kill, Restart, RequestVote, VoteReply, AppendEntries, AppendReply,
     vars, historyVars
<1>3. CASE UNCHANGED elected
  BY <1>1, <1>2, <1>3 DEF ElectedInv
<1>4. ASSUME NEW s \in Server, ElectionDecided(s), elected' # elected PROVE ElectedInv'
  <2>1. state[s] = "CANDIDATE" /\ recvVotes[s] > Majority /\ elected' = elected \cup {<<curTerm[s], s>>}
        /\ curTerm[s] \in Nat
    BY <1>4 DEF ElectionDecided, Base, FieldsInv
  <2>2. ASSUME VotesKept PROVE \E Q \in SUBSET Server : /\ Cardinality(Q) > Majority
                                                    /\ \A p \in Q : <<curTerm[s], p, s>> \in ballots
    <3>1. PICK W \in SUBSET Voters(s) : Cardinality(W) = recvVotes[s]
      BY <2>1, <2>2 DEF CandidateInv, CandidateOK
    <3>2. W \in SUBSET Server /\ \A p \in W : <<curTerm[s], p, s>> \in ballots
      BY DEF Voters
    <3> QED BY <2>1, <3>1, <3>2
  <2>3. ASSUME VotesKept, NEW t \in Nat, NEW q \in Server, <<t, q>> \in elected'
        PROVE  \E Q \in SUBSET Server : /\ Cardinality(Q) > Majority
                                        /\ \A p \in Q : <<t, p, q>> \in ballots
    BY <2>1, <2>2, <2>3 DEF ElectedInv
  <2>4. elected' \subseteq Nat \X Server
    BY <2>1 DEF ElectedInv
  <2> QED BY <1>1, <1>2, <2>3, <2>4 DEF ElectedInv
<1>5. UNCHANGED elected \/ \E s \in Server : ElectionDecided(s)
  BY DEF Next, ThreadStep, CallRequestVote, SendAppendEntries, CheckLogUptodate, GrantVote, ElectionTimeout,
     Heartbeat, Start, Kill, Restart, RequestVote, VoteReply, AppendEntries, AppendReply, vars, historyVars
<1> QED BY <1>3, <1>4, <1>5

\* A candidate's count is right and a leader has its majority, at any time.
LEMMA ElectedAlways ==
    ASSUME Overlap = FALSE
    PROVE  Spec => [](CandidateInv /\ ElectedInv)
<1>1. Init => CandidateInv /\ ElectedInv
  BY CandidateInit
<1>2. Base /\ BallotInv /\ CandidateInv /\ ElectedInv /\ [Next]_vars => CandidateInv' /\ ElectedInv'
  BY CandidateNext, ElectedNext
<1> QED BY <1>1, <1>2, BaseAlways, BallotAlways, PTL DEF Spec

\* A term has one leader (LAB2A.md:245): the votes that callRequestVote counts come
\* from distinct servers, and each voted once in the term.
THEOREM RaftElectionSafety ==
    ASSUME Overlap = FALSE
    PROVE  Spec => []ElectionSafety
<1>1. BallotInv /\ ElectedInv => ElectionSafety
  <2> SUFFICES ASSUME BallotInv, ElectedInv, VotesKept, NEW e \in elected, NEW f \in elected, e[1] = f[1]
               PROVE  e = f
    BY DEF ElectionSafety
  <2>1. e = <<e[1], e[2]>> /\ f = <<f[1], f[2]>> /\ e[1] \in Nat /\ e[2] \in Server /\ f[2] \in Server
    BY DEF ElectedInv
  <2>2. PICK Q \in SUBSET Server : Cardinality(Q) > Majority /\ \A p \in Q : <<e[1], p, e[2]>> \in ballots
    BY <2>1 DEF ElectedInv
  <2>3. PICK R \in SUBSET Server : Cardinality(R) > Majority /\ \A p \in R : <<e[1], p, f[2]>> \in ballots
    BY <2>1 DEF ElectedInv
  <2>4. IsFiniteSet(Q) /\ IsFiniteSet(R)
    BY ServersFinite, FS_Subset
  <2>5. Cardinality(Q) + Cardinality(R) > Cardinality(Server)
    <3>1. Cardinality(Q) \in Nat /\ Cardinality(R) \in Nat
      BY <2>4, FS_CardinalityType
    <3> QED BY <2>2, <2>3, <3>1, ServersFinite DEF Majority
  <2>6. PICK p : p \in Q /\ p \in R
    BY <2>5, ServersFinite, FS_MajoritiesIntersect
  <2>7. e[2] = f[2]
    <3>1. p \in Server /\ <<e[1], p, e[2]>> \in ballots /\ <<e[1], p, f[2]>> \in ballots
      BY <2>2, <2>3, <2>6
    <3>2. VotesOK(p)
      BY <3>1 DEF BallotInv
    <3> QED BY <2>1, <3>1, <3>2 DEF VotesOK
  <2> QED BY <2>1, <2>7
<1> QED BY <1>1, BallotAlways, ElectedAlways, PTL

-----------------------------------------------------------------------------
(* Sequences.                                                              *)

\* The beginning of a log.
LEMMA Beginning ==
    ASSUME NEW T, NEW q \in Seq(T), NEW i \in 0..Len(q)
    PROVE  /\ SubSeq(q, 1, i) \in Seq(T) /\ Len(SubSeq(q, 1, i)) = i
           /\ \A j \in 1..i : SubSeq(q, 1, i)[j] = q[j]
<1>1. Len(q) \in Nat /\ \A j \in 1..i : q[j] \in T
  OBVIOUS
<1>2. i \in Int /\ 1 \in Int
  OBVIOUS
<1>3. /\ SubSeq(q, 1, i) \in Seq(T)
      /\ Len(SubSeq(q, 1, i)) = IF 1 <= i THEN i - 1 + 1 ELSE 0
      /\ \A j \in 1..(i - 1 + 1) : SubSeq(q, 1, i)[j] = q[1 + j - 1]
  BY <1>1, <1>2, SubSeqProperties
<1> QED BY <1>3

\* The rest of a log.
LEMMA Ending ==
    ASSUME NEW T, NEW q \in Seq(T), NEW i \in Nat
    PROVE  /\ SubSeq(q, i + 1, Len(q)) \in Seq(T)
           /\ Len(SubSeq(q, i + 1, Len(q))) = IF i < Len(q) THEN Len(q) - i ELSE 0
           /\ \A j \in 1..Len(SubSeq(q, i + 1, Len(q))) : SubSeq(q, i + 1, Len(q))[j] = q[i + j]
<1>1. Len(q) \in Nat /\ i + 1 \in Int /\ \A j \in (i + 1)..Len(q) : q[j] \in T
  OBVIOUS
<1>2. /\ SubSeq(q, i + 1, Len(q)) \in Seq(T)
      /\ Len(SubSeq(q, i + 1, Len(q))) = IF i + 1 <= Len(q) THEN Len(q) - (i + 1) + 1 ELSE 0
      /\ \A j \in 1..(Len(q) - (i + 1) + 1) : SubSeq(q, i + 1, Len(q))[j] = q[i + 1 + j - 1]
  BY <1>1, SubSeqProperties
<1>3. Len(SubSeq(q, i + 1, Len(q))) = IF i < Len(q) THEN Len(q) - i ELSE 0
  BY <1>1, <1>2
<1>4. ASSUME NEW j \in 1..Len(SubSeq(q, i + 1, Len(q)))
      PROVE  SubSeq(q, i + 1, Len(q))[j] = q[i + j]
  <2>1. j \in 1..(Len(q) - (i + 1) + 1) /\ i + 1 + j - 1 = i + j
    BY <1>1, <1>3
  <2> QED BY <1>2, <2>1
<1> QED BY <1>2, <1>3, <1>4

\* Logs of the same length with the same entries are the same.
LEMMA SameLog ==
    ASSUME NEW T, NEW q \in Seq(T), NEW r \in Seq(T), Len(q) = Len(r),
           \A j \in 1..Len(q) : q[j] = r[j]
    PROVE  q = r
BY SeqEqual

\* A beginning of a log joined to the entries that follow it in another log, which
\* agrees with the first as far as the beginning goes, is the other log.
LEMMA Joined ==
    ASSUME NEW T, NEW q \in Seq(T), NEW h \in Seq(T), NEW e \in Seq(T), NEW i \in 0..Len(q),
           Len(h) = i + Len(e), \A j \in 1..Len(e) : h[i + j] = e[j],
           SubSeq(q, 1, i) = SubSeq(h, 1, i)
    PROVE  SubSeq(q, 1, i) \o e = h
<1> DEFINE b == SubSeq(q, 1, i)
<1>1. Len(e) \in Nat /\ i \in Nat /\ i \in 0..Len(h) /\ Len(h) = i + Len(e)
  OBVIOUS
<1>2. b \in Seq(T) /\ Len(b) = i /\ \A j \in 1..i : b[j] = h[j]
  BY <1>1, Beginning
<1> HIDE DEF b
<1>3. b \o e \in Seq(T) /\ Len(b \o e) = i + Len(e)
      /\ \A j \in 1..(i + Len(e)) : (b \o e)[j] = IF j <= i THEN b[j] ELSE e[j - i]
  BY <1>2, ConcatProperties
<1>4. ASSUME NEW j \in 1..Len(h) PROVE (b \o e)[j] = h[j]
  <2>0. j \in Nat /\ j \in 1..(i + Len(e)) /\ (j <= i => j \in 1..i)
    BY <1>1
  <2>1. CASE j <= i
    BY <1>2, <1>3, <2>0, <2>1
  <2>2. CASE ~(j <= i)
    <3>1. j - i \in 1..Len(e) /\ i + (j - i) = j
      BY <1>1, <2>2
    <3>2. h[i + (j - i)] = e[j - i]
      BY <3>1
    <3> QED BY <1>3, <2>0, <2>2, <3>1, <3>2
  <2> QED BY <1>1, <2>0, <2>1, <2>2
<1>5. b \o e = h
  BY <1>3, <1>4, SameLog
<1> QED BY <1>5 DEF b

-----------------------------------------------------------------------------
(* The calls that carry entries.                                           *)

\* What sendAppendEntries reads for its call, and what appendEntries answers.
EntriesSent(s, m) ==
    /\ m.kind = "appendReq" /\ m.from = s /\ m.to = Callee(s) /\ m.term = curTerm[s]
    /\ m.life = lives[s] /\ m.leaderCommit = commitIndex[s]
    /\ m.prevLogIndex = nextIndex[s][Callee(s)] - 1
    /\ m.prevLogTerm \in PrevLogTerms(s, m.prevLogIndex)
    /\ m.sendLogs = IF m.prevLogIndex < 0 THEN <<>>
                    ELSE SubSeq(logs[s], m.prevLogIndex + 1, Len(logs[s]))
EntriesAnswered(m, r) ==
    /\ r.kind = "appendRsp" /\ r.from = m.from /\ r.to = m.to /\ r.life = m.life /\ r.term = curTerm[m.to]
    /\ r.prevLogIndex = m.prevLogIndex /\ r.sent = Len(m.sendLogs)
    /\ \/ m.term < curTerm[m.to] /\ ~r.success /\ r.conflict_index = NoEntry
       \/ /\ ~(m.term < curTerm[m.to]) /\ TooShort(logs[m.to], m)
          /\ ~r.success /\ r.conflict_term = NoEntry /\ r.conflict_index = Len(logs[m.to])
       \/ /\ ~(m.term < curTerm[m.to]) /\ ~TooShort(logs[m.to], m) /\ Mismatch(logs[m.to], m)
          /\ ~r.success /\ r.conflict_term = logs[m.to][m.prevLogIndex].term
          /\ r.conflict_index \in FirstOfTerm(logs[m.to], r.conflict_term)
       \/ /\ ~(m.term < curTerm[m.to]) /\ ~(TooShort(logs[m.to], m) \/ Mismatch(logs[m.to], m))
          /\ r.success /\ r.conflict_index = NoEntry

\* Sending adds one call, receiving adds none.
LEMMA SendWithin ==
    ASSUME NEW m, Send(m), NEW n \in DOMAIN net' PROVE n \in DOMAIN net \/ n = m
BY DEF Send, BagAdd

\* Receiving a call adds none.
LEMMA ReceiveWithin ==
    ASSUME NEW m, Receive(m), NEW n \in DOMAIN net' PROVE n \in DOMAIN net
BY DEF Receive, BagRemove

\* Answering a call adds the answer and nothing else.
LEMMA AnswerWithin ==
    ASSUME NEW m, NEW r, Answer(m, r), NEW n \in DOMAIN net' PROVE n \in DOMAIN net \/ n = r
<1>1. PICK B : B = BagRemove(net, m) /\ net' = BagAdd(B, r)
  BY DEF Answer
<1>2. DOMAIN B \subseteq DOMAIN net
  BY <1>1 DEF BagRemove
<1> QED BY <1>1, <1>2 DEF BagAdd

\* A sendAppendEntries thread makes one call.
LEMMA CallSent ==
    ASSUME NEW s \in Server, SendAppendEntries(s), NEW m \in DOMAIN net'
    PROVE  m \in DOMAIN net \/ EntriesSent(s, m)
<1> DEFINE prev == nextIndex[s][Callee(s)] - 1
<1>1. PICK t \in PrevLogTerms(s, prev) :
          Send([kind |-> "appendReq", from |-> s, to |-> Callee(s),
                term |-> curTerm[s], life |-> lives[s], leads |-> state[s] = "LEADER",
                prevLogIndex |-> prev, prevLogTerm |-> t,
                leaderCommit |-> commitIndex[s],
                sendLogs |-> IF prev < 0 THEN <<>> ELSE SubSeq(logs[s], prev + 1, Len(logs[s]))])
  BY DEF SendAppendEntries
<1>2. PICK r : /\ r = [kind |-> "appendReq", from |-> s, to |-> Callee(s),
                term |-> curTerm[s], life |-> lives[s], leads |-> state[s] = "LEADER",
                prevLogIndex |-> prev, prevLogTerm |-> t,
                leaderCommit |-> commitIndex[s],
                sendLogs |-> IF prev < 0 THEN <<>> ELSE SubSeq(logs[s], prev + 1, Len(logs[s]))]
               /\ Send(r)
  BY <1>1
<1>3. m \in DOMAIN net \/ m = r
  BY <1>2, SendWithin
<1>4. EntriesSent(s, r)
  BY <1>2 DEF EntriesSent
<1> QED BY <1>3, <1>4

\* appendEntries makes one answer.
LEMMA AnswerMade ==
    ASSUME NEW m, AppendEntries(m)
    PROVE  \E r : EntriesAnswered(m, r) /\ Answer(m, r)
<1>1. CASE m.term < curTerm[m.to]
  <2>1. PICK n : n = AppendRsp(m, curTerm[m.to], FALSE, NoEntry, NoEntry)
    OBVIOUS
  <2>2. Answer(m, n)
    BY <1>1, <2>1 DEF AppendEntries
  <2>3. EntriesAnswered(m, n)
    BY <1>1, <2>1 DEF AppendRsp, EntriesAnswered
  <2> QED BY <2>2, <2>3
<1>2. CASE ~(m.term < curTerm[m.to]) /\ TooShort(logs[m.to], m)
  <2>1. PICK n : n = AppendRsp(m, curTerm[m.to], FALSE, NoEntry, Len(logs[m.to]))
    OBVIOUS
  <2>2. Answer(m, n)
    BY <1>2, <2>1 DEF AppendEntries
  <2>3. EntriesAnswered(m, n)
    BY <1>2, <2>1 DEF AppendRsp, EntriesAnswered
  <2> QED BY <2>2, <2>3
<1>3. CASE ~(m.term < curTerm[m.to]) /\ ~TooShort(logs[m.to], m) /\ Mismatch(logs[m.to], m)
  <2>1. PICK first \in FirstOfTerm(logs[m.to], logs[m.to][m.prevLogIndex].term) :
            Answer(m, AppendRsp(m, curTerm[m.to], FALSE, logs[m.to][m.prevLogIndex].term, first))
    BY <1>3 DEF AppendEntries
  <2>2. PICK n : n = AppendRsp(m, curTerm[m.to], FALSE, logs[m.to][m.prevLogIndex].term, first)
    OBVIOUS
  <2>3. EntriesAnswered(m, n)
    BY <1>3, <2>1, <2>2 DEF AppendRsp, EntriesAnswered
  <2> QED BY <2>1, <2>2, <2>3
<1>4. CASE ~(m.term < curTerm[m.to]) /\ ~(TooShort(logs[m.to], m) \/ Mismatch(logs[m.to], m))
  <2>1. PICK n : n = AppendRsp(m, curTerm[m.to], TRUE, NoEntry, NoEntry)
    OBVIOUS
  <2>2. Answer(m, n)
    BY <1>4, <2>1 DEF AppendEntries
  <2>3. EntriesAnswered(m, n)
    BY <1>4, <2>1 DEF AppendRsp, EntriesAnswered
  <2> QED BY <2>2, <2>3
<1> QED BY <1>1, <1>2, <1>3, <1>4

\* What appendEntries leaves in progress: its answer, and what there was.
LEMMA CallAnswered ==
    ASSUME NEW m \in DOMAIN net, AppendEntries(m), NEW r \in DOMAIN net'
    PROVE  r \in DOMAIN net \/ EntriesAnswered(m, r)
BY AnswerMade, AnswerWithin

\* No other step makes a call that carries entries, or an answer to one.
LEMMA NewCalls ==
    ASSUME [Next]_vars, NEW m \in DOMAIN net', m \notin DOMAIN net
    PROVE  \/ m.kind \in VoteKinds
           \/ \E s \in Server : SendAppendEntries(s) /\ EntriesSent(s, m)
           \/ \E n \in DOMAIN net : AppendEntries(n) /\ EntriesAnswered(n, m)
<1>1. ASSUME NEW s \in Server, CallRequestVote(s) PROVE m.kind \in VoteKinds
  <2>1. PICK r : r.kind = "voteReq" /\ Send(r)
    BY <1>1 DEF CallRequestVote
  <2> QED BY <2>1, SendWithin DEF VoteKinds
<1>2. ASSUME NEW s \in Server, CheckLogUptodate(s) \/ GrantVote(s) PROVE m.kind \in VoteKinds
  <2>1. UNCHANGED net \/ \E r : r.kind = "voteRsp" /\ Send(r)
    BY <1>2 DEF CheckLogUptodate, GrantVote, VoteRsp
  <2> QED BY <2>1, SendWithin DEF VoteKinds
<1>3. ASSUME NEW n \in DOMAIN net, RequestVote(n) PROVE m.kind \in VoteKinds
  <2>1. Receive(n) \/ \E r : r.kind = "voteRsp" /\ Answer(n, r)
    BY <1>3 DEF RequestVote, VoteRsp
  <2> QED BY <2>1, ReceiveWithin, AnswerWithin DEF VoteKinds
<1>4. ASSUME NEW n \in DOMAIN net, VoteReply(n) \/ AppendReply(n) PROVE FALSE
  BY <1>4, ReceiveWithin DEF VoteReply, AppendReply
<1>5. ASSUME NEW s \in Server,
             ElectionTimeout(s) \/ ElectionDecided(s) \/ Heartbeat(s) \/ Start(s) \/ Kill(s) \/ Restart(s)
      PROVE  FALSE
  BY <1>5 DEF ElectionTimeout, ElectionDecided, Heartbeat, Start, Kill, Restart, threadVars
<1>6. CASE UNCHANGED vars
  BY <1>6 DEF vars, threadVars
<1> QED BY <1>1, <1>2, <1>3, <1>4, <1>5, <1>6, CallSent, CallAnswered DEF Next, ThreadStep

-----------------------------------------------------------------------------
(* Entries come from the leader of the term.                               *)

\* A server that leads was elected in its term and only such a server has append
\* threads to run; one that was elected in its term is no candidate any more.
LeaderOK(s) ==
    /\ state[s] = "LEADER" => <<curTerm[s], s>> \in elected
    /\ newAppends[s] > 0 => state[s] = "LEADER"
    /\ \A t \in Nat : <<t, s>> \in elected => t <= curTerm[s] /\ (t = curTerm[s] => state[s] # "CANDIDATE")
LeadInv ==
    VotesKept => /\ \A s \in Server : LeaderOK(s)
                 /\ \A m \in DOMAIN net :
                        m.kind = "appendReq" => <<m.term, m.from>> \in elected /\ m.from # m.to

\* What a step does to one server: nothing that matters here, or it leads no more
\* (or never did) and has no thread that would send its entries in a later term.
Stays(p) == curTerm'[p] = curTerm[p] /\ state'[p] = state[p] /\ newAppends'[p] <= newAppends[p]
StepsDown(p) ==
    /\ state'[p] # "LEADER" /\ newAppends'[p] = 0
    /\ curTerm'[p] > curTerm[p] \/ (curTerm'[p] = curTerm[p] /\ state'[p] = "FOLLOWER")

\* Neither makes a leader that was not elected, or a thread of one that leads no more.
LEMMA LeaderKeep ==
    ASSUME FieldsInv, FieldsInv', NEW p \in Server, LeaderOK(p), UNCHANGED elected, Stays(p) \/ StepsDown(p)
    PROVE  LeaderOK(p)'
<1>1. curTerm[p] \in Nat /\ curTerm'[p] \in Nat /\ newAppends[p] \in Nat /\ newAppends'[p] \in Nat
  BY DEF FieldsInv
<1>2. CASE Stays(p)
  BY <1>1, <1>2 DEF Stays, LeaderOK
<1>3. CASE StepsDown(p)
  BY <1>1, <1>3 DEF StepsDown, LeaderOK
<1> QED BY <1>2, <1>3

\* The threads of a server, but for the two steps that make a leader and its threads.
LEMMA LeaderServer ==
    ASSUME MaxRestart = 0, FieldsInv, NEW s \in Server, NEW p \in Server, LeaderOK(s),
           \/ CallRequestVote(s) \/ SendAppendEntries(s) \/ CheckLogUptodate(s) \/ GrantVote(s)
           \/ ElectionTimeout(s) \/ Start(s) \/ Kill(s) \/ Restart(s)
    PROVE  UNCHANGED elected /\ (Stays(p) \/ StepsDown(p))
<1>0. /\ curTerm[p] \in Nat /\ newAppends \in [Server -> Nat] /\ restarts \in Nat
      /\ curTerm \in [Server -> Nat] /\ DOMAIN state = Server
  BY DEF FieldsInv
<1>1. CASE CallRequestVote(s) \/ CheckLogUptodate(s) \/ GrantVote(s) \/ Start(s) \/ Kill(s)
  <2>1. UNCHANGED <<elected, curTerm, state, newAppends>>
    BY <1>1 DEF CallRequestVote, CheckLogUptodate, GrantVote, Start, Kill, raftVars, historyVars, threadVars
  <2> QED BY <1>0, <2>1 DEF Stays
<1>2. CASE SendAppendEntries(s)
  <2>1. UNCHANGED <<elected, curTerm, state>> /\ newAppends' = [newAppends EXCEPT ![s] = newAppends[s] - 1]
    BY <1>2 DEF SendAppendEntries, raftVars, historyVars
  <2> QED BY <1>0, <2>1 DEF Stays
<1>3. CASE ElectionTimeout(s)
  <2>1. /\ UNCHANGED <<elected, newAppends>> /\ state[s] # "LEADER"
        /\ state' = [state EXCEPT ![s] = "CANDIDATE"] /\ curTerm' = [curTerm EXCEPT ![s] = curTerm[s] + 1]
    BY <1>3 DEF ElectionTimeout
  <2>2. newAppends[s] = 0
    BY <1>0, <2>1 DEF LeaderOK
  <2>3. CASE p = s
    BY <1>0, <2>1, <2>2, <2>3 DEF StepsDown
  <2>4. CASE p # s
    BY <1>0, <2>1, <2>4 DEF Stays
  <2> QED BY <2>1, <2>3, <2>4
<1>4. CASE Restart(s)
  BY <1>0, <1>4 DEF Restart
<1> QED BY <1>1, <1>2, <1>3, <1>4

\* The handlers of calls and of their answers.  Entries of the term that a server
\* leads come from nobody else, and a newer term is heard of with no thread to run.
LEMMA LeaderCall ==
    ASSUME LateThreads = FALSE, Base, ElectedInv, ElectionSafety, LeadInv, VotesKept, VotesKept',
           NEW m \in DOMAIN net, NEW p \in Server,
           RequestVote(m) \/ VoteReply(m) \/ AppendEntries(m) \/ AppendReply(m)
    PROVE  UNCHANGED elected /\ (Stays(p) \/ StepsDown(p))
<1>0. /\ curTerm \in [Server -> Nat] /\ newAppends \in [Server -> Nat] /\ DOMAIN state = Server
      /\ state[p] \in {"LEADER", "CANDIDATE", "FOLLOWER"}
      /\ m.from \in Server /\ m.to \in Server /\ m.term \in Nat /\ LeaderOK(p)
  BY DEF Base, FieldsInv, NetInv, MessageOK, LeadInv
<1>1. UNCHANGED <<elected, newAppends>>
  <2>1. CASE RequestVote(m)
    BY <2>1 DEF RequestVote, historyVars
  <2>2. CASE VoteReply(m)
    BY <2>2 DEF VoteReply
  <2>3. CASE AppendEntries(m)
    BY <2>3 DEF AppendEntries
  <2>4. CASE AppendReply(m)
    BY <2>4 DEF AppendReply, historyVars
  <2> QED BY <2>1, <2>2, <2>3, <2>4
<1>2. CASE RequestVote(m)
  <2>1. CASE curTerm[m.to] > m.term \/ p # m.to
    <3>1. curTerm'[p] = curTerm[p] /\ state'[p] = state[p]
      <4>1. CASE curTerm[m.to] > m.term
        BY <1>2, <4>1 DEF RequestVote, raftVars
      <4>2. CASE ~(curTerm[m.to] > m.term) /\ p # m.to
        BY <1>0, <1>2, <4>2 DEF RequestVote
      <4> QED BY <2>1, <4>1, <4>2
    <3> QED BY <1>0, <1>1, <3>1 DEF Stays
  <2>2. CASE ~(curTerm[m.to] > m.term) /\ p = m.to
    <3>1. state'[p] = (IF curTerm[p] < m.term THEN "FOLLOWER" ELSE state[p]) /\ curTerm'[p] = m.term
      BY <1>0, <1>2, <2>2 DEF RequestVote
    <3>2. CASE curTerm[p] < m.term
      <4>1. newAppends[p] = 0
        BY <1>0, <1>2, <2>2, <3>2 DEF RequestVote, Prompt
      <4> QED BY <1>0, <1>1, <3>1, <3>2, <4>1 DEF StepsDown
    <3>3. CASE ~(curTerm[p] < m.term)
      BY <1>0, <1>1, <2>2, <3>1, <3>3 DEF Stays
    <3> QED BY <1>1, <3>2, <3>3
  <2> QED BY <2>1, <2>2
<1>3. CASE VoteReply(m) \/ AppendReply(m)
  <2>1. CASE ~(m.term > curTerm[m.from])
    <3>1. UNCHANGED <<curTerm, state>>
      BY <1>3, <2>1 DEF VoteReply, AppendReply
    <3> QED BY <1>0, <1>1, <3>1 DEF Stays
  <2>2. CASE m.term > curTerm[m.from]
    <3>1. PICK t : /\ t \in Nat /\ t >= curTerm[m.from] /\ curTerm' = [curTerm EXCEPT ![m.from] = t]
                   /\ state' = [state EXCEPT ![m.from] = "FOLLOWER"]
      <4>1. CASE VoteReply(m)
        <5>1. ~Forgets(m.from)
          BY <4>1, <2>2 DEF VoteReply, VotesKept
        <5>2. disk[m.from].term = curTerm[m.from]
          BY <5>1 DEF Forgets
        <5>3. PICK t : t = IF disk[m.from].exists THEN disk[m.from].term ELSE m.term
          OBVIOUS
        <5>4. t \in Nat /\ t >= curTerm[m.from]
          BY <1>0, <2>2, <5>2, <5>3
        <5>5. curTerm' = [curTerm EXCEPT ![m.from] = t] /\ state' = [state EXCEPT ![m.from] = "FOLLOWER"]
          BY <4>1, <2>2, <5>3 DEF VoteReply
        <5> QED BY <5>4, <5>5
      <4>2. CASE AppendReply(m)
        <5>1. curTerm' = [curTerm EXCEPT ![m.from] = m.term] /\ state' = [state EXCEPT ![m.from] = "FOLLOWER"]
          BY <4>2, <2>2 DEF AppendReply
        <5>2. m.term >= curTerm[m.from]
          BY <1>0, <2>2
        <5> QED BY <1>0, <5>1, <5>2
      <4> QED BY <1>3, <4>1, <4>2
    <3>2. newAppends[m.from] = 0
      <4>1. Prompt(m.from, m.term)
        <5>1. CASE VoteReply(m)
          BY <5>1 DEF VoteReply
        <5>2. CASE AppendReply(m)
          BY <5>2 DEF AppendReply
        <5> QED BY <1>3, <5>1, <5>2
      <4> QED BY <1>0, <2>2, <4>1 DEF Prompt
    <3>3. CASE p = m.from
      BY <1>0, <1>1, <3>1, <3>2, <3>3 DEF StepsDown
    <3>4. CASE p # m.from
      BY <1>0, <1>1, <3>1, <3>4 DEF Stays
    <3> QED BY <1>1, <3>3, <3>4
  <2> QED BY <2>1, <2>2
<1>4. CASE AppendEntries(m)
  <2>1. CASE m.term < curTerm[m.to]
    <3>1. UNCHANGED <<curTerm, state>>
      BY <1>4, <2>1 DEF AppendEntries, raftVars
    <3> QED BY <1>0, <1>1, <3>1 DEF Stays
  <2>2. CASE ~(m.term < curTerm[m.to])
    <3>1. /\ curTerm' = [curTerm EXCEPT ![m.to] = m.term]
          /\ state' = [state EXCEPT ![m.to] = "FOLLOWER"]
      BY <1>4, <2>2 DEF AppendEntries
    <3>2. CASE p # m.to
      BY <1>0, <1>1, <3>1, <3>2 DEF Stays
    <3>3. CASE p = m.to /\ m.term > curTerm[p]
      <4>1. newAppends[p] = 0
        BY <1>0, <1>4, <3>3 DEF AppendEntries, Prompt
      <4> QED BY <1>0, <1>1, <3>1, <3>3, <4>1 DEF StepsDown
    <3>4. CASE p = m.to /\ m.term = curTerm[p]
      <4>1. state[p] # "LEADER"
        <5>1. <<m.term, m.from>> \in elected /\ m.from # m.to
          <6>1. m.kind = "appendReq"
            BY <1>4 DEF AppendEntries
          <6> QED BY <6>1 DEF LeadInv
        <5> QED BY <1>0, <3>4, <5>1 DEF LeaderOK, ElectionSafety
      <4>2. newAppends[p] = 0
        BY <1>0, <4>1 DEF LeaderOK
      <4> QED BY <1>0, <1>1, <3>1, <3>4, <4>2 DEF StepsDown
    <3> QED BY <1>0, <1>1, <2>2, <3>2, <3>3, <3>4
  <2> QED BY <2>1, <2>2
<1> QED BY <1>2, <1>3, <1>4

\* A candidate becomes a leader in its own term, and a leader starts a round.
LEMMA LeaderMade ==
    ASSUME FieldsInv, FieldsInv', NEW s \in Server, NEW p \in Server, LeaderOK(p),
           ElectionDecided(s) \/ Heartbeat(s)
    PROVE  LeaderOK(p)'
<1>0. /\ curTerm \in [Server -> Nat] /\ newAppends \in [Server -> Nat] /\ DOMAIN state = Server
      /\ newAppends'[p] \in Nat
  BY DEF FieldsInv
<1>1. CASE ElectionDecided(s)
  <2>1. UNCHANGED <<curTerm, newAppends>>
    BY <1>1 DEF ElectionDecided
  <2>2. CASE UNCHANGED <<state, elected>>
    BY <1>0, <2>1, <2>2, LeaderKeep DEF Stays
  <2>3. CASE ~UNCHANGED <<state, elected>>
    <3>1. state' = [state EXCEPT ![s] = "LEADER"] /\ elected' = elected \cup {<<curTerm[s], s>>}
      BY <1>1, <2>3 DEF ElectionDecided
    <3>2. CASE p = s
      BY <1>0, <2>1, <3>1, <3>2 DEF LeaderOK
    <3>3. CASE p # s
      BY <1>0, <2>1, <3>1, <3>3 DEF LeaderOK
    <3> QED BY <3>2, <3>3
  <2> QED BY <2>2, <2>3
<1>2. CASE Heartbeat(s)
  <2>1. UNCHANGED <<curTerm, state, elected>> /\ state[s] = "LEADER"
        /\ newAppends' = [newAppends EXCEPT ![s] = newAppends[s] + Peers - 1]
    BY <1>2 DEF Heartbeat, raftVars
  <2> QED BY <1>0, <2>1 DEF LeaderOK
<1> QED BY <1>1, <1>2

\* The pairs of terms and leaders only grow.
LEMMA ElectedGrows == [Next]_vars => elected \subseteq elected'
<1>1. ASSUME NEW s \in Server, ElectionDecided(s) PROVE elected \subseteq elected'
  BY <1>1 DEF ElectionDecided
<1>2. ASSUME NEW s \in Server,
             \/ CallRequestVote(s) \/ SendAppendEntries(s) \/ CheckLogUptodate(s) \/ GrantVote(s)
             \/ ElectionTimeout(s) \/ Heartbeat(s) \/ Start(s) \/ Kill(s) \/ Restart(s)
      PROVE  UNCHANGED elected
  BY <1>2 DEF CallRequestVote, SendAppendEntries, CheckLogUptodate, GrantVote, ElectionTimeout, Heartbeat,
     Start, Kill, Restart, historyVars
<1>3. ASSUME NEW m \in DOMAIN net, RequestVote(m) \/ VoteReply(m) \/ AppendEntries(m) \/ AppendReply(m)
      PROVE  UNCHANGED elected
  <2>1. CASE RequestVote(m) \/ AppendReply(m)
    BY <2>1 DEF RequestVote, AppendReply, historyVars
  <2>2. CASE VoteReply(m)
    BY <2>2 DEF VoteReply
  <2>3. CASE AppendEntries(m)
    BY <2>3 DEF AppendEntries
  <2> QED BY <1>3, <2>1, <2>2, <2>3
<1>4. CASE UNCHANGED vars
  BY <1>4 DEF vars, historyVars
<1> QED BY <1>1, <1>2, <1>3, <1>4 DEF Next, ThreadStep

\* Every step leaves leaders, their threads and the entries they send as they should be.
LEMMA LeadNext ==
    ASSUME LateThreads = FALSE, MaxRestart = 0, Base, Base', ElectedInv, ElectionSafety, LeadInv, [Next]_vars
    PROVE  LeadInv'
<1> SUFFICES ASSUME VotesKept'
             PROVE  /\ \A p \in Server : LeaderOK(p)'
                    /\ \A m \in DOMAIN net' :
                           m.kind = "appendReq" => <<m.term, m.from>> \in elected' /\ m.from # m.to
  BY DEF LeadInv
<1>1. VotesKept /\ FieldsInv /\ FieldsInv' /\ elected \subseteq elected'
  BY VotesKeptBefore, ElectedGrows DEF Base
<1>2. \A p \in Server : LeaderOK(p)
  BY <1>1 DEF LeadInv
<1>3. ASSUME NEW p \in Server PROVE LeaderOK(p)'
  <2>1. CASE \E m \in DOMAIN net : RequestVote(m) \/ VoteReply(m) \/ AppendEntries(m) \/ AppendReply(m)
    BY <1>1, <1>2, <2>1, LeaderCall, LeaderKeep
  <2>2. CASE \E s \in Server :
                 \/ CallRequestVote(s) \/ SendAppendEntries(s) \/ CheckLogUptodate(s) \/ GrantVote(s)
                 \/ ElectionTimeout(s) \/ Start(s) \/ Kill(s) \/ Restart(s)
    BY <1>1, <1>2, <2>2, LeaderServer, LeaderKeep
  <2>3. CASE \E s \in Server : ElectionDecided(s) \/ Heartbeat(s)
    BY <1>1, <1>2, <2>3, LeaderMade
  <2>4. CASE UNCHANGED vars
    <3>1. UNCHANGED <<curTerm, state, newAppends, elected>> /\ newAppends[p] \in Nat
      BY <1>1, <2>4 DEF vars, raftVars, threadVars, historyVars, FieldsInv
    <3> QED BY <1>1, <1>2, <3>1, LeaderKeep DEF Stays
  <2> QED BY <2>1, <2>2, <2>3, <2>4 DEF Next, ThreadStep
<1>4. ASSUME NEW m \in DOMAIN net', m.kind = "appendReq"
      PROVE  <<m.term, m.from>> \in elected' /\ m.from # m.to
  <2>1. CASE m \in DOMAIN net
    BY <1>1, <1>4, <2>1 DEF LeadInv
  <2>2. CASE m \notin DOMAIN net
    <3>1. PICK s \in Server : SendAppendEntries(s) /\ EntriesSent(s, m)
      BY <1>4, <2>2, NewCalls DEF VoteKinds, EntriesAnswered
    <3>2. newAppends[s] > 0
      BY <3>1 DEF SendAppendEntries
    <3>3. <<curTerm[s], s>> \in elected
      BY <1>2, <3>2 DEF LeaderOK
    <3>4. Callee(s) # s
      BY DEF Base, CurPeerInv, CalleeIsAPeer
    <3> QED BY <1>1, <3>1, <3>3, <3>4 DEF EntriesSent
  <2> QED BY <2>1, <2>2
<1> QED BY <1>3, <1>4

-----------------------------------------------------------------------------
(* The logs there have been.                                               *)

\* H holds beginnings of logs, all of each.  Two that are equally long and end in the
\* same term are the same; the term of an entry had a leader; and no log is longer,
\* with a last entry of its term, than that of a leader.
History(H) ==
    /\ H \subseteq Seq(Entries)
    /\ \A h \in H : \A i \in 0..Len(h) : SubSeq(h, 1, i) \in H
    /\ \A g, h \in H : Len(g) = Len(h) /\ LastTerm(g) = LastTerm(h) => g = h
    /\ \A h \in H : h # <<>> => \E s \in Server : <<LastTerm(h), s>> \in elected
    /\ \A h \in H : \A s \in Server :
           state[s] = "LEADER" /\ h # <<>> /\ LastTerm(h) = curTerm[s] => Len(h) <= Len(logs[s])

\* The entries sent are the end of h, which has an entry of prevLogTerm at prevLogIndex.
Whole(m, h) ==
    /\ m.prevLogIndex \in Nat /\ Len(h) = m.prevLogIndex + Len(m.sendLogs)
    /\ \A j \in 1..Len(m.sendLogs) : h[m.prevLogIndex + j] = m.sendLogs[j]
    /\ m.prevLogIndex >= 1 => h[m.prevLogIndex].term = m.prevLogTerm
\* If there are any, they are the end of a log in H.
SentFrom(H, m) == m.sendLogs # <<>> => \E h \in H : Whole(m, h)

\* What a sendAppendEntries thread sends, and what it is answered.
RequestOK(m) == m.prevLogIndex \in Int /\ m.sendLogs \in Seq(Entries)
ReplyOK(m) == m.prevLogIndex \in Int /\ m.sent \in Nat /\ m.conflict_index \in Int

\* The types of the logs, of nextIndex and of these calls.
LogTypes ==
    /\ logs \in [Server -> Seq(Entries)] /\ started \in Nat
    /\ nextIndex \in [Server -> [Server -> Int]]
    /\ \A m \in DOMAIN net : /\ m.kind = "appendReq" => RequestOK(m)
                             /\ m.kind = "appendRsp" => ReplyOK(m)

\* Every log is in H, and the entries that are on their way are from it.
Known(H) ==
    /\ History(H) /\ \A s \in Server : logs[s] \in H
    /\ \A m \in DOMAIN net : m.kind = "appendReq" => SentFrom(H, m)
LogInv == LogsChecked => LogTypes /\ \E H : Known(H)

\* Two logs in H with an entry of the same term at the same index agree up to it.
LEMMA SameBeginning ==
    ASSUME NEW H, History(H), NEW g \in H, NEW h \in H, NEW i \in Nat, 1 <= i, i <= Len(g), i <= Len(h),
           g[i].term = h[i].term
    PROVE  SubSeq(g, 1, i) = SubSeq(h, 1, i)
<1>1. g \in Seq(Entries) /\ h \in Seq(Entries) /\ i \in 0..Len(g) /\ i \in 0..Len(h)
  BY DEF History
<1>2. ASSUME NEW q \in {g, h}
      PROVE  SubSeq(q, 1, i) \in H /\ Len(SubSeq(q, 1, i)) = i /\ LastTerm(SubSeq(q, 1, i)) = g[i].term
  <2>1. q \in Seq(Entries) /\ i \in 0..Len(q) /\ q \in H /\ q[i].term = g[i].term /\ i \in 1..i
    BY <1>1
  <2>2. Len(SubSeq(q, 1, i)) = i /\ SubSeq(q, 1, i)[i] = q[i]
    BY <2>1, Beginning
  <2>3. SubSeq(q, 1, i) # <<>>
    <3>1. Len(<<>>) = 0
      OBVIOUS
    <3> QED BY <2>2, <3>1
  <2>4. SubSeq(q, 1, i) \in H
    BY <2>1 DEF History
  <2> QED BY <2>1, <2>2, <2>3, <2>4 DEF LastTerm
<1> QED BY <1>2 DEF History

\* A log that takes entries from H stays in it: what it keeps of its own agrees
\* with what precedes the entries.
LEMMA SyncedWhole ==
    ASSUME NEW H, History(H), NEW log \in H, NEW m, RequestOK(m), NEW h \in H, Whole(m, h),
           ~TooShort(log, m), ~Mismatch(log, m), log = <<>> => m.prevLogIndex = 0
    PROVE  Synced(log, m) = h
<1> DEFINE prev == m.prevLogIndex
           e == m.sendLogs
<1>1. /\ log \in Seq(Entries) /\ prev \in Int /\ e \in Seq(Entries) /\ Len(log) \in Nat
      /\ h \in Seq(Entries) /\ Len(e) \in Nat /\ Len(h) \in Nat
  BY DEF History, RequestOK
<1>2. /\ prev \in Nat /\ Len(h) = prev + Len(e)
      /\ \A j \in 1..Len(e) : h[prev + j] = e[j]
      /\ prev >= 1 => h[prev].term = m.prevLogTerm
  BY DEF Whole
<1>3. CASE log = <<>>
  <2>1. prev = 0
    BY <1>3
  <2>2. Len(h) = Len(e) /\ \A j \in 1..Len(h) : h[j] = e[j]
    BY <1>1, <1>2, <2>1
  <2>3. h = e
    BY <1>1, <2>2, SameLog
  <2> QED BY <1>3, <2>3 DEF Synced
<1>4. CASE log # <<>>
  <2>1. prev \in 0..Len(log)
    BY <1>1, <1>4 DEF TooShort
  <2>2. SubSeq(log, 1, prev) = SubSeq(h, 1, prev)
    <3>1. CASE prev = 0
      BY <3>1, SubSeqEmpty
    <3>2. CASE prev # 0
      <4>1. 1 <= prev /\ prev <= Len(log) /\ prev <= Len(h) /\ prev \in Nat
        BY <1>1, <1>2, <2>1, <3>2
      <4>2. log[prev].term = m.prevLogTerm /\ h[prev].term = m.prevLogTerm
        BY <1>2, <1>4, <4>1 DEF Mismatch
      <4> QED BY <4>1, <4>2, SameBeginning
    <3> QED BY <3>1, <3>2
  <2>3. SubSeq(log, 1, prev) \o e = h
    <3> HIDE DEF prev, e
    <3> QED BY <1>1, <1>2, <2>1, <2>2, Joined
  <2> QED BY <1>4, <2>3 DEF Synced
<1> QED BY <1>3, <1>4

\* The log a server is left with is one of those there have been.
LEMMA SyncedKnown ==
    ASSUME NEW H, History(H), NEW log \in H, NEW m, RequestOK(m), SentFrom(H, m),
           ~TooShort(log, m), ~Mismatch(log, m), log = <<>> => m.prevLogIndex = 0
    PROVE  Synced(log, m) \in H
<1> DEFINE prev == m.prevLogIndex
           e == m.sendLogs
<1>1. log \in Seq(Entries) /\ prev \in Int /\ e \in Seq(Entries) /\ Len(log) \in Nat
  BY DEF History, RequestOK
<1>2. CASE e = <<>>
  <2>1. CASE log = <<>>
    BY <1>2, <2>1 DEF Synced
  <2>2. CASE log # <<>>
    <3>1. prev \in 0..Len(log)
      BY <1>1, <2>2 DEF TooShort
    <3>2. SubSeq(log, 1, prev) \in H /\ SubSeq(log, 1, prev) \in Seq(Entries)
      BY <3>1 DEF History
    <3>3. SubSeq(log, 1, prev) \o <<>> = SubSeq(log, 1, prev)
      BY <3>2, ConcatEmptySeq
    <3> QED BY <1>2, <2>2, <3>2, <3>3 DEF Synced
  <2> QED BY <2>1, <2>2
<1>3. CASE e # <<>>
  BY <1>3, SyncedWhole DEF SentFrom
<1> QED BY <1>2, <1>3

\* Without a new leader and without a shorter log of one, H is as good as before.
LEMMA HistoryKeep ==
    ASSUME NEW H, History(H), elected \subseteq elected',
           \A s \in Server : state'[s] = "LEADER" =>
               state[s] = "LEADER" /\ curTerm'[s] = curTerm[s] /\ logs'[s] = logs[s]
    PROVE  History(H)'
BY DEF History

\* The first entry of a term comes after its leader was elected: when a candidate
\* wins, there is no log with an entry of its term.
LEMMA HistoryElected ==
    ASSUME NEW H, History(H), VotesKept', ElectionSafety', FieldsInv, NEW s \in Server, ElectionDecided(s),
           state[s] = "CANDIDATE", state' = [state EXCEPT ![s] = "LEADER"],
           elected' = elected \cup {<<curTerm[s], s>>}, LeaderOK(s), UNCHANGED <<logs, curTerm>>
    PROVE  History(H)'
<1>1. ASSUME NEW h \in H, h # <<>> PROVE LastTerm(h) # curTerm[s]
  <2>1. SUFFICES ASSUME LastTerm(h) = curTerm[s] PROVE FALSE
    OBVIOUS
  <2>2. PICK p \in Server : <<LastTerm(h), p>> \in elected
    BY <1>1 DEF History
  <2>3. p = s
    BY <2>1, <2>2 DEF ElectionSafety
  <2>4. curTerm[s] \in Nat
    BY DEF FieldsInv
  <2> QED BY <2>1, <2>2, <2>3, <2>4 DEF LeaderOK
<1>2. \A p \in Server : p # s => state'[p] = state[p]
  BY DEF FieldsInv
<1> QED BY <1>1, <1>2 DEF History

\* start() on the leader makes a log that is longer than any that ends in its term.
LEMMA HistoryStarted ==
    ASSUME NEW H, History(H), VotesKept, ElectionSafety, \A p \in Server : LeaderOK(p),
           FieldsInv, NEW s \in Server, state[s] = "LEADER", logs \in [Server -> Seq(Entries)],
           logs[s] \in H, NEW e \in Entries, e.term = curTerm[s],
           NEW n, n = Append(logs[s], e), logs' = [logs EXCEPT ![s] = n],
           UNCHANGED <<state, curTerm, elected>>
    PROVE  History(H \cup {n})'
<1> DEFINE q == logs[s]
<1>1. /\ q \in Seq(Entries) /\ Len(q) \in Nat
      /\ n \in Seq(Entries) /\ n # <<>> /\ Len(n) = Len(q) + 1 /\ n[Len(q) + 1] = e
      /\ \A i \in 1..Len(q) : n[i] = q[i]
  <2>1. q \in Seq(Entries) /\ Len(q) \in Nat /\ n = Append(q, e)
    OBVIOUS
  <2> HIDE DEF q
  <2> QED BY <2>1, AppendProperties
<1>2. LastTerm(n) = curTerm[s]
  BY <1>1 DEF LastTerm
<1>3. logs'[s] = n /\ \A p \in Server : p # s => logs'[p] = logs[p]
  OBVIOUS
<1>4. <<curTerm[s], s>> \in elected
  BY DEF LeaderOK
<1>5. ASSUME NEW h \in H, h # <<>>, LastTerm(h) = curTerm[s] PROVE Len(h) <= Len(q)
  BY <1>5 DEF History
<1>6. ASSUME NEW i \in 0..Len(n) PROVE SubSeq(n, 1, i) \in H \cup {n}
  <2>1. CASE i = Len(n)
    <3>1. SubSeq(n, 1, Len(n)) \in Seq(Entries) /\ Len(SubSeq(n, 1, Len(n))) = Len(n)
          /\ \A j \in 1..Len(n) : SubSeq(n, 1, Len(n))[j] = n[j]
      BY <1>1, <1>6, <2>1, Beginning
    <3>2. SubSeq(n, 1, Len(n)) = n
      BY <1>1, <3>1, SameLog
    <3> QED BY <2>1, <3>2
  <2>2. CASE i # Len(n)
    <3>1. i \in 0..Len(q)
      BY <1>1, <2>2
    <3>2. SubSeq(n, 1, i) \in Seq(Entries) /\ Len(SubSeq(n, 1, i)) = i
          /\ \A j \in 1..i : SubSeq(n, 1, i)[j] = n[j]
      BY <1>1, <1>6, Beginning
    <3>3. SubSeq(q, 1, i) \in Seq(Entries) /\ Len(SubSeq(q, 1, i)) = i
          /\ \A j \in 1..i : SubSeq(q, 1, i)[j] = q[j]
      <4> HIDE DEF q
      <4> QED BY <1>1, <3>1, Beginning
    <3>4. \A j \in 1..i : SubSeq(n, 1, i)[j] = SubSeq(q, 1, i)[j]
      BY <1>1, <3>1, <3>2, <3>3
    <3> HIDE DEF q
    <3>5. SubSeq(n, 1, i) = SubSeq(q, 1, i)
      BY <3>2, <3>3, <3>4, SameLog
    <3>6. q \in H
      BY DEF q
    <3> QED BY <3>1, <3>5, <3>6 DEF History
  <2> QED BY <2>1, <2>2
<1>7. ASSUME NEW h \in H, Len(h) = Len(n), LastTerm(h) = LastTerm(n) PROVE FALSE
  <2>1. h # <<>> /\ Len(h) = Len(q) + 1
    <3>1. Len(<<>>) = 0
      OBVIOUS
    <3> QED BY <1>1, <1>7, <3>1
  <2> QED BY <1>1, <1>2, <1>5, <1>7, <2>1
<1>8. ASSUME NEW h \in H \cup {n}, NEW p \in Server,
             state'[p] = "LEADER", h # <<>>, LastTerm(h) = curTerm'[p]
      PROVE  Len(h) <= Len(logs'[p])
  <2>1. CASE p = s
    <3>1. Len(logs'[p]) = Len(q) + 1 /\ LastTerm(h) = curTerm[s]
      BY <1>1, <1>3, <1>8, <2>1
    <3>2. CASE h = n
      BY <1>1, <3>1, <3>2
    <3>3. CASE h \in H
      <4>1. Len(h) <= Len(q) /\ Len(h) \in Nat
        BY <1>5, <1>8, <3>1, <3>3 DEF History
      <4> QED BY <1>1, <3>1, <4>1
    <3> QED BY <3>2, <3>3
  <2>2. CASE p # s
    <3>1. <<curTerm[p], p>> \in elected
      BY <1>8 DEF LeaderOK
    <3>2. curTerm[p] # curTerm[s]
      BY <1>4, <2>2, <3>1 DEF ElectionSafety
    <3>3. h \in H
      BY <1>2, <1>8, <3>2
    <3> QED BY <1>3, <1>8, <2>2, <3>3 DEF History
  <2> QED BY <2>1, <2>2
<1>9. \A h \in H \cup {n} : h # <<>> => \E p \in Server : <<LastTerm(h), p>> \in elected'
  BY <1>2, <1>4 DEF History
<1>10. \A g, h \in H \cup {n} : Len(g) = Len(h) /\ LastTerm(g) = LastTerm(h) => g = h
  BY <1>7 DEF History
<1>11. \A h \in H \cup {n} : \A i \in 0..Len(h) : SubSeq(h, 1, i) \in H \cup {n}
  BY <1>6 DEF History
<1>12. H \cup {n} \subseteq Seq(Entries)
  BY <1>1 DEF History
<1> QED BY <1>8, <1>9, <1>10, <1>11, <1>12 DEF History

-----------------------------------------------------------------------------
(* What the steps do to the calls and to nextIndex.                        *)

\* What has slipped stays so.
LEMMA SlipsGrow == [Next]_vars => slips \subseteq slips'
<1>1. ASSUME NEW s \in Server,
             \/ CallRequestVote(s) \/ SendAppendEntries(s) \/ CheckLogUptodate(s) \/ GrantVote(s)
             \/ ElectionTimeout(s) \/ ElectionDecided(s) \/ Heartbeat(s) \/ Start(s) \/ Kill(s) \/ Restart(s)
      PROVE  slips \subseteq slips'
  BY <1>1 DEF CallRequestVote, SendAppendEntries, CheckLogUptodate, GrantVote, ElectionTimeout,
     ElectionDecided, Heartbeat, Start, Kill, Restart, historyVars
<1>2. ASSUME NEW m \in DOMAIN net, RequestVote(m) \/ VoteReply(m) \/ AppendEntries(m) \/ AppendReply(m)
      PROVE  slips \subseteq slips'
  <2>1. CASE RequestVote(m) \/ AppendReply(m)
    BY <2>1 DEF RequestVote, AppendReply, historyVars
  <2>2. CASE VoteReply(m)
    BY <2>2 DEF VoteReply
  <2>3. CASE AppendEntries(m)
    BY <2>3 DEF AppendEntries
  <2> QED BY <1>2, <2>1, <2>2, <2>3
<1>3. ASSUME UNCHANGED vars PROVE slips \subseteq slips'
  BY <1>3 DEF vars, historyVars
<1> QED BY <1>1, <1>2, <1>3 DEF Next, ThreadStep

\* Where no slip has had an effect, none had had one before.
LEMMA CheckedBefore == FieldsInv /\ [Next]_vars => (LogsChecked' => LogsChecked)
BY SlipsGrow, VotesKeptBefore DEF LogsChecked

\* A thread sends the end of its server's log.
LEMMA SentWhole ==
    ASSUME NEW s \in Server, logs[s] \in Seq(Entries), NEW m, EntriesSent(s, m), m.prevLogIndex \in 0..Len(logs[s])
    PROVE  Whole(m, logs[s])
<1> DEFINE q == logs[s]
           prev == m.prevLogIndex
           e == m.sendLogs
<1>1. q \in Seq(Entries) /\ Len(q) \in Nat /\ prev \in Nat /\ prev <= Len(q) /\ ~(prev < 0)
  OBVIOUS
<1>2. e = SubSeq(q, prev + 1, Len(q))
  BY <1>1 DEF EntriesSent
<1>3. /\ Len(e) = (IF prev < Len(q) THEN Len(q) - prev ELSE 0)
      /\ \A j \in 1..Len(e) : e[j] = q[prev + j]
  <2> HIDE DEF q, prev, e
  <2> QED BY <1>1, <1>2, Ending
<1>4. Len(q) = prev + Len(e)
  <2> HIDE DEF q, prev, e
  <2> QED BY <1>1, <1>3
<1>5. prev >= 1 => q[prev].term = m.prevLogTerm
  <2>1. m.prevLogTerm \in PrevLogTerms(s, prev)
    BY DEF EntriesSent
  <2>2. ASSUME prev >= 1 PROVE PrevLogTerms(s, prev) = {q[prev].term}
    <3>1. prev # 0 /\ prev \in 1..Len(q)
      <4> HIDE DEF q, prev
      <4> QED BY <1>1, <2>2
    <3> QED BY <3>1 DEF PrevLogTerms
  <2> QED BY <2>1, <2>2
<1> QED BY <1>1, <1>3, <1>4, <1>5 DEF Whole

\* What a thread sends is of the right types and comes from a log there has been.
LEMMA SentKnown ==
    ASSUME LogTypes, CurPeerInv, NEW H, NEW s \in Server, logs[s] \in H, NEW m, EntriesSent(s, m)
    PROVE  RequestOK(m) /\ SentFrom(H, m)
<1> DEFINE q == logs[s]
           prev == m.prevLogIndex
           e == m.sendLogs
<1>1. q \in Seq(Entries) /\ Len(q) \in Nat /\ prev \in Int
  <2>1. Callee(s) \in Server
    BY DEF CurPeerInv, CalleeIsAPeer
  <2> QED BY <2>1 DEF LogTypes, EntriesSent
<1>2. e = IF prev < 0 THEN <<>> ELSE SubSeq(q, prev + 1, Len(q))
  BY DEF EntriesSent
<1>3. CASE prev < 0
  BY <1>1, <1>2, <1>3 DEF RequestOK, SentFrom
<1>4. CASE ~(prev < 0)
  <2>1. prev \in Nat /\ e = SubSeq(q, prev + 1, Len(q))
    <3> HIDE DEF q, prev, e
    <3> QED BY <1>1, <1>2, <1>4
  <2>2. e \in Seq(Entries) /\ Len(e) = (IF prev < Len(q) THEN Len(q) - prev ELSE 0)
    <3> HIDE DEF q, prev, e
    <3> QED BY <1>1, <2>1, Ending
  <2>3. ASSUME e # <<>> PROVE Whole(m, q)
    <3>1. Len(e) > 0
      <4> HIDE DEF e
      <4> QED BY <2>2, <2>3
    <3>2. prev \in 0..Len(q)
      BY <1>1, <2>1, <2>2, <3>1
    <3> QED BY <1>1, <3>2, SentWhole
  <2> QED BY <1>1, <2>2, <2>3 DEF RequestOK, SentFrom
<1> QED BY <1>3, <1>4

\* The calls of a step's end are of the right types, and the entries in them are known.
LEMMA CallsKnown ==
    ASSUME Base, LogTypes, NEW H, Known(H), [Next]_vars, NEW m \in DOMAIN net'
    PROVE  /\ m.kind = "appendReq" => RequestOK(m) /\ SentFrom(H, m)
           /\ m.kind = "appendRsp" => ReplyOK(m)
<1>1. CASE m \in DOMAIN net
  BY <1>1 DEF LogTypes, Known
<1>2. CASE m \notin DOMAIN net
  <2>1. CASE m.kind \in VoteKinds
    BY <2>1 DEF VoteKinds
  <2>2. ASSUME NEW s \in Server, EntriesSent(s, m) PROVE m.kind = "appendReq" /\ RequestOK(m) /\ SentFrom(H, m)
    BY <2>2, SentKnown DEF Base, Known, EntriesSent
  <2>3. ASSUME NEW n \in DOMAIN net, AppendEntries(n), EntriesAnswered(n, m)
        PROVE  m.kind = "appendRsp" /\ ReplyOK(m)
    <3>1. n.kind = "appendReq" /\ n.to \in Server
      BY <2>3 DEF AppendEntries, Base, NetInv, MessageOK
    <3>2. RequestOK(n) /\ logs[n.to] \in Seq(Entries)
      BY <3>1 DEF LogTypes
    <3>3. Len(n.sendLogs) \in Nat /\ Len(logs[n.to]) \in Nat
      BY <3>2 DEF RequestOK
    <3>4. m.conflict_index \in Int
      BY <2>3, <3>3 DEF EntriesAnswered, FirstOfTerm, NoEntry
    <3> QED BY <2>3, <3>2, <3>3, <3>4 DEF EntriesAnswered, ReplyOK, RequestOK
  <2> QED BY <1>2, <2>1, <2>2, <2>3, NewCalls
<1> QED BY <1>1, <1>2

\* A function that is changed at one argument.
LEMMA Updated ==
    ASSUME NEW A, NEW B, NEW f \in [A -> B], NEW a, NEW b \in B
    PROVE  [f EXCEPT ![a] = b] \in [A -> B]
OBVIOUS

\* nextIndex is moved by what was sent, or to where the logs may still agree.
LEMMA NextIndexTyped ==
    ASSUME Base, LogTypes, [Next]_vars
    PROVE  nextIndex' \in [Server -> [Server -> Int]]
<1>0. nextIndex \in [Server -> [Server -> Int]] /\ \A s \in Server : Len(logs[s]) \in Nat
  BY DEF LogTypes
<1>1. ASSUME NEW s \in Server, ElectionDecided(s) PROVE nextIndex' \in [Server -> [Server -> Int]]
  <2>1. UNCHANGED nextIndex \/ nextIndex' = [nextIndex EXCEPT ![s] = [p \in Server |-> Len(logs[s]) + 1]]
    BY <1>1 DEF ElectionDecided
  <2>2. PICK row : row = [p \in Server |-> Len(logs[s]) + 1]
    OBVIOUS
  <2>3. row \in [Server -> Int]
    BY <1>0, <2>2
  <2>4. [nextIndex EXCEPT ![s] = row] \in [Server -> [Server -> Int]]
    BY <1>0, <2>3, Updated
  <2>5. nextIndex' = nextIndex \/ nextIndex' = [nextIndex EXCEPT ![s] = row]
    BY <2>1, <2>2
  <2> QED BY <1>0, <2>4, <2>5
<1>2. ASSUME NEW s \in Server, Restart(s) PROVE nextIndex' \in [Server -> [Server -> Int]]
  BY <1>0, <1>2 DEF Restart
<1>3. ASSUME NEW m \in DOMAIN net, AppendReply(m) PROVE nextIndex' \in [Server -> [Server -> Int]]
  <2>1. m.from \in Server /\ m.to \in Server /\ m.kind = "appendRsp"
    BY <1>3 DEF AppendReply, Base, NetInv, MessageOK
  <2>2. m.prevLogIndex \in Int /\ m.sent \in Nat /\ m.conflict_index \in Int
    BY <2>1 DEF LogTypes, ReplyOK
  <2>3. BackUp(m.from, m) \subseteq Int
    <3>1. CASE m.conflict_term = NoEntry
      BY <2>2, <3>1 DEF BackUp
    <3>2. CASE m.conflict_term # NoEntry
      BY <2>2, <3>2 DEF BackUp
    <3> QED BY <3>1, <3>2
  <2>4. UNCHANGED nextIndex \/ \E next \in Int : nextIndex' = [nextIndex EXCEPT ![m.from][m.to] = next]
    <3>1. CASE m.term > curTerm[m.from]
      BY <1>3, <3>1 DEF AppendReply, leaderVars
    <3>2. CASE ~(m.term > curTerm[m.from]) /\ m.success
      <4>1. nextIndex' = [nextIndex EXCEPT ![m.from][m.to] = NextAfterSuccess(m.from, m)]
        BY <1>3, <3>2 DEF AppendReply
      <4>2. NextAfterSuccess(m.from, m) \in Int
        BY <1>0, <2>1, <2>2 DEF NextAfterSuccess
      <4> QED BY <4>1, <4>2
    <3>3. CASE ~(m.term > curTerm[m.from]) /\ ~m.success
      <4>1. \E next \in BackUp(m.from, m) : nextIndex' = [nextIndex EXCEPT ![m.from][m.to] = next]
        BY <1>3, <3>3 DEF AppendReply
      <4> QED BY <2>3, <4>1
    <3> QED BY <3>1, <3>2, <3>3
  <2>5. ASSUME NEW next \in Int
        PROVE  [nextIndex EXCEPT ![m.from][m.to] = next] \in [Server -> [Server -> Int]]
    <3>1. nextIndex[m.from] \in [Server -> Int]
      BY <1>0, <2>1
    <3>2. [nextIndex[m.from] EXCEPT ![m.to] = next] \in [Server -> Int]
      BY <3>1, Updated
    <3> QED BY <1>0, <3>2, Updated
  <2>6. CASE UNCHANGED nextIndex
    BY <1>0, <2>6
  <2>7. CASE \E next \in Int : nextIndex' = [nextIndex EXCEPT ![m.from][m.to] = next]
    <3>1. PICK next \in Int : nextIndex' = [nextIndex EXCEPT ![m.from][m.to] = next]
      BY <2>7
    <3>2. [nextIndex EXCEPT ![m.from][m.to] = next] \in [Server -> [Server -> Int]]
      BY <2>5
    <3> QED BY <3>1, <3>2, Zenon
  <2> QED BY <2>4, <2>6, <2>7
<1>4. ASSUME NEW s \in Server,
             \/ CallRequestVote(s) \/ SendAppendEntries(s) \/ CheckLogUptodate(s) \/ GrantVote(s)
             \/ ElectionTimeout(s) \/ Heartbeat(s) \/ Start(s) \/ Kill(s)
      PROVE  UNCHANGED nextIndex
  BY <1>4 DEF CallRequestVote, SendAppendEntries, CheckLogUptodate, GrantVote, ElectionTimeout, Heartbeat,
     Start, Kill, leaderVars
<1>5. ASSUME NEW m \in DOMAIN net, RequestVote(m) \/ VoteReply(m) \/ AppendEntries(m)
      PROVE  UNCHANGED nextIndex
  <2>1. CASE RequestVote(m)
    BY <2>1 DEF RequestVote, leaderVars
  <2>2. CASE VoteReply(m)
    BY <2>2 DEF VoteReply, leaderVars
  <2>3. CASE AppendEntries(m)
    BY <2>3 DEF AppendEntries
  <2> QED BY <1>5, <2>1, <2>2, <2>3
<1>6. ASSUME UNCHANGED vars PROVE UNCHANGED nextIndex
  BY <1>6 DEF vars, leaderVars
<1> QED BY <1>0, <1>1, <1>2, <1>3, <1>4, <1>5, <1>6 DEF Next, ThreadStep

-----------------------------------------------------------------------------
(* Every log there is comes from the logs there have been.                 *)

\* A leader after a step other than its election led before it, in the same term.
LEMMA LeaderBefore ==
    ASSUME LateThreads = FALSE, MaxRestart = 0, Base, ElectedInv, ElectionSafety, LeadInv, VotesKept, VotesKept',
           [Next]_vars, ~\E s \in Server : ElectionDecided(s), NEW p \in Server, state'[p] = "LEADER"
    PROVE  state[p] = "LEADER" /\ curTerm'[p] = curTerm[p] /\ UNCHANGED elected
<1>1. FieldsInv /\ \A s \in Server : LeaderOK(s)
  BY DEF Base, LeadInv
<1>2. \/ UNCHANGED elected /\ (Stays(p) \/ StepsDown(p))
      \/ UNCHANGED <<state, curTerm, elected>>
  <2>1. CASE \E m \in DOMAIN net : RequestVote(m) \/ VoteReply(m) \/ AppendEntries(m) \/ AppendReply(m)
    BY <2>1, LeaderCall
  <2>2. CASE \E s \in Server :
                 \/ CallRequestVote(s) \/ SendAppendEntries(s) \/ CheckLogUptodate(s) \/ GrantVote(s)
                 \/ ElectionTimeout(s) \/ Start(s) \/ Kill(s) \/ Restart(s)
    BY <1>1, <2>2, LeaderServer
  <2>3. ASSUME NEW s \in Server, Heartbeat(s) PROVE UNCHANGED <<state, curTerm, elected>>
    BY <2>3 DEF Heartbeat, raftVars
  <2>4. ASSUME UNCHANGED vars PROVE UNCHANGED <<state, curTerm, elected>>
    BY <2>4 DEF vars, raftVars, historyVars
  <2> QED BY <2>1, <2>2, <2>3, <2>4 DEF Next, ThreadStep
<1> QED BY <1>2 DEF Stays, StepsDown

\* Logs change in start() and in appendEntries only; callRequestVote would change
\* them if it found a log in the file.
LEMMA LogsStay ==
    ASSUME MaxRestart = 0, FieldsInv, LogTypes, VotesKept', [Next]_vars
    PROVE  \/ UNCHANGED logs
           \/ \E s \in Server : Start(s)
           \/ \E m \in DOMAIN net : AppendEntries(m)
<1>1. ASSUME NEW s \in Server,
             \/ CallRequestVote(s) \/ SendAppendEntries(s) \/ CheckLogUptodate(s) \/ GrantVote(s)
             \/ ElectionTimeout(s) \/ ElectionDecided(s) \/ Heartbeat(s) \/ Kill(s)
      PROVE  UNCHANGED logs
  BY <1>1 DEF CallRequestVote, SendAppendEntries, CheckLogUptodate, GrantVote, ElectionTimeout,
     ElectionDecided, Heartbeat, Kill, raftVars
<1>2. ASSUME NEW s \in Server, Restart(s) PROVE FALSE
  <2>1. restarts \in Nat
    BY DEF FieldsInv
  <2> QED BY <1>2, <2>1 DEF Restart
<1>3. ASSUME NEW m \in DOMAIN net, VoteReply(m) PROVE UNCHANGED logs
  <2>1. CASE ~(m.term > curTerm[m.from])
    BY <1>3, <2>1 DEF VoteReply
  <2>2. CASE m.term > curTerm[m.from]
    <3>1. ~Forgets(m.from)
      BY <1>3, <2>2 DEF VoteReply, VotesKept
    <3>2. logs' = [logs EXCEPT ![m.from] = logs[m.from] \o <<>>]
      <4>1. disk[m.from].logs = <<>>
        BY <3>1 DEF Forgets
      <4> QED BY <1>3, <2>2, <4>1 DEF VoteReply
    <3>3. CASE m.from \in Server
      <4>1. logs[m.from] \in Seq(Entries)
        BY <3>3 DEF LogTypes
      <4>2. logs[m.from] \o <<>> = logs[m.from]
        BY <4>1, ConcatEmptySeq
      <4> QED BY <3>2, <4>2 DEF LogTypes
    <3>4. CASE m.from \notin Server
      BY <3>2, <3>4 DEF LogTypes
    <3> QED BY <3>3, <3>4
  <2> QED BY <2>1, <2>2
<1>4. ASSUME NEW m \in DOMAIN net, RequestVote(m) \/ AppendReply(m) PROVE UNCHANGED logs
  <2>1. CASE RequestVote(m)
    BY <2>1 DEF RequestVote, raftVars
  <2>2. CASE AppendReply(m)
    BY <2>2 DEF AppendReply
  <2> QED BY <1>4, <2>1, <2>2
<1>5. ASSUME UNCHANGED vars PROVE UNCHANGED logs
  BY <1>5 DEF vars, raftVars
<1> QED BY <1>1, <1>2, <1>3, <1>4, <1>5 DEF Next, ThreadStep

\* What appendEntries makes of a log, when nothing is let in without a check.
LEMMA LogTaken ==
    ASSUME Base, LogTypes, NEW H, Known(H), LogsChecked', NEW m \in DOMAIN net, AppendEntries(m)
    PROVE  /\ UNCHANGED elected
           /\ UNCHANGED logs \/ \E log \in H : logs' = [logs EXCEPT ![m.to] = log]
           /\ \A p \in Server : state'[p] = "LEADER" => logs'[p] = logs[p]
<1>0. /\ m.kind = "appendReq" /\ m.to \in Server /\ m.term \in Nat /\ curTerm[m.to] \in Nat
      /\ DOMAIN state = Server /\ DOMAIN logs = Server
  BY DEF AppendEntries, Base, FieldsInv, NetInv, MessageOK, LogTypes
<1>1. UNCHANGED elected /\ slips' = slips \cup AppendSlips(m.to, m)
  BY DEF AppendEntries
<1>2. CASE m.term < curTerm[m.to]
  BY <1>1, <1>2 DEF AppendEntries, raftVars
<1>3. CASE ~(m.term < curTerm[m.to]) /\ (TooShort(logs[m.to], m) \/ Mismatch(logs[m.to], m))
  BY <1>1, <1>3 DEF AppendEntries
<1>4. CASE ~(m.term < curTerm[m.to]) /\ ~(TooShort(logs[m.to], m) \/ Mismatch(logs[m.to], m))
  <2>1. /\ logs' = [logs EXCEPT ![m.to] = Synced(logs[m.to], m)]
        /\ state' = [state EXCEPT ![m.to] = "FOLLOWER"]
    BY <1>4 DEF AppendEntries
  <2>2. logs[m.to] = <<>> => m.prevLogIndex = 0
    <3>1. "unchecked" \notin AppendSlips(m.to, m)
      BY <1>1 DEF LogsChecked
    <3> QED BY <1>0, <1>4, <3>1 DEF AppendSlips
  <2>3. Synced(logs[m.to], m) \in H
    <3>1. RequestOK(m) /\ SentFrom(H, m) /\ History(H) /\ logs[m.to] \in H
      BY <1>0 DEF LogTypes, Known
    <3> QED BY <1>4, <2>2, <3>1, SyncedKnown
  <2>4. ASSUME NEW p \in Server, state'[p] = "LEADER" PROVE logs'[p] = logs[p]
    <3>1. p # m.to
      BY <1>0, <2>1, <2>4
    <3> QED BY <1>0, <2>1, <3>1
  <2> QED BY <1>1, <2>1, <2>3, <2>4
<1> QED BY <1>2, <1>3, <1>4

\* What start() appends.
LEMMA LogStarted ==
    ASSUME FieldsInv, LogTypes, NEW s \in Server, Start(s)
    PROVE  \E e \in Entries : e.term = curTerm[s] /\ logs' = [logs EXCEPT ![s] = Append(logs[s], e)]
<1>1. /\ started < MaxStart /\ started \in Nat /\ curTerm[s] \in Nat
      /\ logs' = [logs EXCEPT ![s] = Append(logs[s], [term |-> curTerm[s], cmd |-> started + 1])]
  BY DEF Start, LogTypes, FieldsInv
<1>2. MaxStart \in Nat
  BY BoundsAssumption
<1>3. [term |-> curTerm[s], cmd |-> started + 1] \in Entries
  BY <1>1, <1>2 DEF Entries
<1> QED BY <1>1, <1>3

\* The commands are counted.
LEMMA StartedTyped == LogTypes /\ [Next]_vars => started' \in Nat
<1>1. ASSUME NEW s \in Server,
             \/ CallRequestVote(s) \/ SendAppendEntries(s) \/ CheckLogUptodate(s) \/ GrantVote(s)
             \/ ElectionTimeout(s) \/ ElectionDecided(s) \/ Heartbeat(s) \/ Kill(s) \/ Restart(s)
      PROVE  UNCHANGED started
  BY <1>1 DEF CallRequestVote, SendAppendEntries, CheckLogUptodate, GrantVote, ElectionTimeout,
     ElectionDecided, Heartbeat, Kill, Restart, historyVars
<1>2. ASSUME NEW s \in Server, Start(s) PROVE started' = started + 1
  BY <1>2 DEF Start
<1>3. ASSUME NEW m \in DOMAIN net, RequestVote(m) \/ VoteReply(m) \/ AppendEntries(m) \/ AppendReply(m)
      PROVE  UNCHANGED started
  <2>1. CASE RequestVote(m) \/ AppendReply(m)
    BY <2>1 DEF RequestVote, AppendReply, historyVars
  <2>2. CASE VoteReply(m)
    BY <2>2 DEF VoteReply
  <2>3. CASE AppendEntries(m)
    BY <2>3 DEF AppendEntries
  <2> QED BY <1>3, <2>1, <2>2, <2>3
<1>4. ASSUME UNCHANGED vars PROVE UNCHANGED started
  BY <1>4 DEF vars, historyVars
<1>5. [Next]_vars => UNCHANGED started \/ started' = started + 1
  BY <1>1, <1>2, <1>3, <1>4 DEF Next, ThreadStep
<1> QED BY <1>5 DEF LogTypes

\* Each step adds to H at most what start() appends.
LEMMA HistoryNext ==
    ASSUME LateThreads = FALSE, MaxRestart = 0, Base, ElectedInv, ElectionSafety, ElectionSafety', LeadInv,
           LogsChecked, LogsChecked', LogTypes, NEW H, Known(H), [Next]_vars
    PROVE  \E G : /\ G = H \/ \E s \in Server : Start(s) /\ G = H \cup {logs'[s]}
                  /\ History(G)' /\ logs' \in [Server -> Seq(Entries)] /\ \A s \in Server : logs'[s] \in G
<1>1. /\ VotesKept /\ VotesKept' /\ FieldsInv /\ History(H) /\ H \subseteq Seq(Entries)
      /\ \A s \in Server : logs[s] \in H /\ LeaderOK(s)
      /\ logs \in [Server -> Seq(Entries)]
  BY DEF LogsChecked, Base, Known, History, LeadInv, LogTypes
<1>2. CASE \E s \in Server : ElectionDecided(s)
  <2>1. PICK s \in Server : ElectionDecided(s)
    BY <1>2
  <2>2. UNCHANGED <<logs, curTerm>>
    BY <2>1 DEF ElectionDecided
  <2>3. History(H)'
    <3>1. CASE UNCHANGED <<state, elected>>
      BY <1>1, <2>2, <3>1, HistoryKeep
    <3>2. CASE ~UNCHANGED <<state, elected>>
      <4>1. /\ state[s] = "CANDIDATE" /\ state' = [state EXCEPT ![s] = "LEADER"]
            /\ elected' = elected \cup {<<curTerm[s], s>>}
        BY <2>1, <3>2 DEF ElectionDecided
      <4> QED BY <1>1, <2>1, <2>2, <4>1, HistoryElected
    <3> QED BY <3>1, <3>2
  <2> QED BY <1>1, <2>2, <2>3
<1>3. CASE \E s \in Server : Start(s)
  <2>1. PICK s \in Server : Start(s)
    BY <1>3
  <2>2. PICK e \in Entries : e.term = curTerm[s] /\ logs' = [logs EXCEPT ![s] = Append(logs[s], e)]
    BY <1>1, <2>1, LogStarted
  <2>3. UNCHANGED <<state, curTerm, elected>> /\ state[s] = "LEADER"
    BY <2>1 DEF Start
  <2>4. PICK n : n = Append(logs[s], e)
    OBVIOUS
  <2>5. n \in Seq(Entries) /\ logs' = [logs EXCEPT ![s] = n]
    BY <1>1, <2>2, <2>4, AppendProperties
  <2>6. History(H \cup {n})'
    BY <1>1, <2>2, <2>3, <2>4, <2>5, HistoryStarted
  <2>7. logs'[s] = n /\ \A p \in Server : logs'[p] \in H \cup {n}
    BY <1>1, <2>5
  <2>8. PICK G : G = H \cup {n}
    OBVIOUS
  <2>9. \E p \in Server : Start(p) /\ G = H \cup {logs'[p]}
    BY <2>1, <2>7, <2>8
  <2>10. History(G)'
    BY <2>6, <2>8
  <2>11. logs' \in [Server -> Seq(Entries)]
    BY <1>1, <2>5
  <2> QED BY <2>7, <2>8, <2>9, <2>10, <2>11
<1>4. CASE ~(\E s \in Server : ElectionDecided(s) \/ Start(s))
  <2>1. \A p \in Server : state'[p] = "LEADER" => state[p] = "LEADER" /\ curTerm'[p] = curTerm[p]
    BY <1>1, <1>4, LeaderBefore
  <2>2. elected \subseteq elected'
    BY ElectedGrows
  <2>3. UNCHANGED logs \/ \E m \in DOMAIN net : AppendEntries(m)
    BY <1>1, <1>4, LogsStay
  <2>4. CASE UNCHANGED logs
    <3>1. History(H)'
      BY <1>1, <2>1, <2>2, <2>4, HistoryKeep
    <3> QED BY <1>1, <2>4, <3>1
  <2>5. CASE \E m \in DOMAIN net : AppendEntries(m)
    <3>1. PICK m \in DOMAIN net : AppendEntries(m)
      BY <2>5
    <3>2. /\ UNCHANGED logs \/ \E log \in H : logs' = [logs EXCEPT ![m.to] = log]
          /\ \A p \in Server : state'[p] = "LEADER" => logs'[p] = logs[p]
      BY <3>1, LogTaken
    <3>3. History(H)'
      BY <1>1, <2>1, <2>2, <3>2, HistoryKeep
    <3>4. logs' \in [Server -> Seq(Entries)] /\ \A p \in Server : logs'[p] \in H
      BY <1>1, <3>2
    <3> QED BY <3>3, <3>4
  <2> QED BY <2>3, <2>4, <2>5
<1> QED BY <1>2, <1>3, <1>4

\* Every step leaves logs, and entries on their way, that come from the logs there
\* have been.
LEMMA KnownNext ==
    ASSUME LateThreads = FALSE, MaxRestart = 0, Base, ElectedInv, ElectionSafety, ElectionSafety', LeadInv,
           LogsChecked, LogsChecked', LogTypes, NEW H, Known(H), [Next]_vars
    PROVE  LogTypes' /\ \E G : /\ G = H \/ \E s \in Server : Start(s) /\ G = H \cup {logs'[s]}
                               /\ Known(G)'
<1>1. PICK G : /\ G = H \/ \E s \in Server : Start(s) /\ G = H \cup {logs'[s]}
               /\ History(G)' /\ logs' \in [Server -> Seq(Entries)] /\ \A s \in Server : logs'[s] \in G
  BY HistoryNext
<1>2. \A m \in DOMAIN net' : /\ m.kind = "appendReq" => RequestOK(m) /\ SentFrom(H, m)
                             /\ m.kind = "appendRsp" => ReplyOK(m)
  BY CallsKnown
<1>3. LogTypes'
  BY <1>1, <1>2, NextIndexTyped, StartedTyped DEF LogTypes
<1>4. \A m : SentFrom(H, m) => SentFrom(G, m)
  BY <1>1 DEF SentFrom
<1>5. Known(G)'
  BY <1>1, <1>2, <1>4 DEF Known
<1> QED BY <1>1, <1>3, <1>5

\* Every step leaves logs that come from those there have been.
LEMMA LogNext ==
    ASSUME LateThreads = FALSE, MaxRestart = 0, Base, ElectedInv, ElectionSafety, ElectionSafety', LeadInv,
           LogInv, [Next]_vars
    PROVE  LogInv'
<1> SUFFICES ASSUME LogsChecked' PROVE LogTypes' /\ \E G : Known(G)'
  BY DEF LogInv
<1>1. LogsChecked /\ LogTypes
  BY CheckedBefore DEF Base, LogInv
<1>2. PICK H : Known(H)
  BY <1>1 DEF LogInv
<1> QED BY <1>1, <1>2, KnownNext

\* At a first start the only log is the empty one, and there is no leader.
LEMMA LogInit == Init => LeadInv /\ LogInv
<1> SUFFICES ASSUME Init PROVE LeadInv /\ LogInv
  OBVIOUS
<1>1. DOMAIN net = {}
  BY DEF Init, EmptyBag, SetToBag
<1>2. LeadInv
  BY <1>1 DEF Init, LeadInv, LeaderOK
<1>3. <<>> \in Seq(Entries) /\ Len(<<>>) = 0
  OBVIOUS
<1>4. logs \in [Server -> Seq(Entries)] /\ started \in Nat /\ nextIndex \in [Server -> [Server -> Int]]
  BY <1>3 DEF Init
<1>5. History({<<>>})
  <2>1. ASSUME NEW i \in 0..Len(<<>>) PROVE SubSeq(<<>>, 1, i) = <<>>
    <3>1. i = 0
      BY <1>3
    <3> QED BY <3>1, SubSeqEmpty
  <2> QED BY <1>3, <2>1 DEF History
<1>6. Known({<<>>})
  BY <1>1, <1>5 DEF Known, Init
<1> QED BY <1>1, <1>2, <1>4, <1>6 DEF LogInv, LogTypes

\* At any time every log comes from the logs there have been, and so do the entries
\* that are on their way.
LEMMA LogsAlways ==
    ASSUME Overlap = FALSE, LateThreads = FALSE, MaxRestart = 0
    PROVE  Spec => [](LeadInv /\ LogInv)
<1>1. Init => LeadInv /\ LogInv
  BY LogInit
<1>2. Base /\ Base' /\ ElectedInv /\ ElectionSafety /\ ElectionSafety' /\ LeadInv /\ LogInv /\ [Next]_vars
          => LeadInv' /\ LogInv'
  BY LeadNext, LogNext
<1>3. Spec => [](CandidateInv /\ ElectedInv)
  BY ElectedAlways
<1> QED BY <1>1, <1>2, <1>3, BaseAlways, RaftElectionSafety, PTL DEF Spec

\* Two logs with an entry of the same term at the same index agree up to it: the
\* consistency check of appendEntries (raft.cpp:662-691) lets no other entries in,
\* whatever the order in which the calls of the servers are served and answered.
THEOREM RaftLogMatching ==
    ASSUME Overlap = FALSE, LateThreads = FALSE, MaxRestart = 0
    PROVE  Spec => []LogMatching
<1>1. LogInv => LogMatching
  <2> SUFFICES ASSUME LogTypes, NEW H, Known(H), NEW s \in Server, NEW p \in Server,
                      NEW i \in 1..Min2(Len(logs[s]), Len(logs[p])), logs[s][i].term = logs[p][i].term
               PROVE  SubSeq(logs[s], 1, i) = SubSeq(logs[p], 1, i)
    BY DEF LogInv, LogMatching, LogsMatch
  <2>1. Len(logs[s]) \in Nat /\ Len(logs[p]) \in Nat /\ logs[s] \in H /\ logs[p] \in H /\ History(H)
    BY DEF LogTypes, Known
  <2>2. i \in Nat /\ 1 <= i /\ i <= Len(logs[s]) /\ i <= Len(logs[p])
    BY <2>1 DEF Min2
  <2> QED BY <2>1, <2>2, SameBeginning
<1> QED BY <1>1, LogsAlways, PTL
=============================================================================
