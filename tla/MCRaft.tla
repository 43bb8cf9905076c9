------------------------------ MODULE MCRaft ------------------------------
(***************************************************************************)
(* Raft for TLC, from the first start and from the state three elections   *)
(* leave when the logs have diverged.  Server 0 led term 1 and appended an *)
(* entry it never sent; server 1 led term 2, appended another and sent it  *)
(* to server 2 only; then server 0 asked for votes in term 3 and was       *)
(* refused by both.  The counters of the bounds count from there.          *)
(*                                                                         *)
(* A third state, of five servers, is one in which answers come late.      *)
(* Server 0 led term 1 and sent one of its three entries; server 4 led     *)
(* term 2, without the vote of server 0, and appended an entry.  In term 3 *)
(* server 0 led again and sent servers 1 to 3 its other entries; before    *)
(* they had answered server 4 was elected in term 4, appended an entry and *)
(* was refused by all once, as its nextIndex was too high.                 *)
(***************************************************************************)
EXTENDS Raft

Old == [term |-> 1, cmd |-> 1]
New == [term |-> 2, cmd |-> 2]
File(term, voted, entry) ==
    [term |-> term, voted |-> voted, logs |-> <<entry>>, exists |-> TRUE]

ConflictInit ==
    /\ state = [s \in Server |-> IF s = 0 THEN "CANDIDATE" ELSE "FOLLOWER"]
    /\ curTerm = [s \in Server |-> 3]
    /\ votedFor = [s \in Server |-> IF s = 0 THEN 0 ELSE None]
    /\ logs = [s \in Server |-> IF s = 0 THEN <<Old>> ELSE <<New>>]
    /\ disk = [s \in Server |->
                  IF s = 0 THEN File(3, 0, Old)
                  ELSE IF s = 1 THEN File(3, None, New) ELSE File(2, 1, New)]
    /\ nextIndex = [s \in Server |->
                       [p \in Server |-> IF s = 1 /\ p = 2 THEN 2 ELSE 1]]
    /\ matchIndex = [s \in Server |->
                        [p \in Server |-> IF s = 1 /\ p = 2 THEN 1 ELSE 0]]
    /\ commitIndex = [s \in Server |-> 0]
    /\ recvVotes = [s \in Server |-> IF s = 1 THEN 2 ELSE IF s = 0 THEN 1 ELSE 0]
    /\ finishedVote = [s \in Server |-> IF s = 2 THEN 0 ELSE 3]
    /\ cur_peerId = [s \in Server |-> 0]
    /\ electing = [s \in Server |-> FALSE]
    /\ dead = [s \in Server |-> FALSE]
    /\ ended = [s \in Server |-> FALSE]
    /\ newVotes = [s \in Server |-> 0]
    /\ newAppends = [s \in Server |-> 0]
    /\ voting = [s \in Server |-> NoVote]
    /\ net = EmptyBag
    /\ elections = 0
    /\ beats = 0
    /\ started = 0
    /\ restarts = 0
    /\ lives = [s \in Server |-> 0]
    /\ elected = {<<1, 0>>, <<2, 1>>}
    /\ ballots = {<<1, 0, 0>>, <<1, 1, 0>>, <<1, 2, 0>>, <<2, 1, 1>>, <<2, 2, 1>>,
                  <<3, 0, 0>>}
    /\ slips = {}

LogsSpec == (Init \/ ConflictInit) /\ [][Next]_vars

Entry(term, cmd) == [term |-> term, cmd |-> cmd]
LateLog(s) ==
    IF s = 4 THEN <<Entry(1, 1), Entry(2, 4), Entry(4, 5)>>
    ELSE <<Entry(1, 1), Entry(1, 2), Entry(1, 3)>>
LateAnswer(p) ==
    [kind |-> "appendRsp", from |-> 0, to |-> p, term |-> 3, life |-> 0, success |-> TRUE,
     conflict_term |-> NoEntry, conflict_index |-> NoEntry, prevLogIndex |-> 1, sent |-> 2]

LateInit ==
    /\ state = [s \in Server |-> IF s = 4 THEN "LEADER" ELSE "FOLLOWER"]
    /\ curTerm = [s \in Server |-> 4]
    /\ votedFor = [s \in Server |-> 4]
    /\ logs = [s \in Server |-> LateLog(s)]
    /\ disk = [s \in Server |->
                  [term |-> 4, voted |-> 4, logs |-> LateLog(s), exists |-> TRUE]]
    /\ nextIndex = [s \in Server |-> [p \in Server |-> IF s \in {0, 4} THEN 2 ELSE 1]]
    /\ matchIndex = [s \in Server |-> [p \in Server |-> 0]]
    /\ commitIndex = [s \in Server |-> IF s = 4 THEN 0 ELSE 1]
    /\ recvVotes = [s \in Server |-> IF s = 4 THEN 5 ELSE IF s = 0 THEN 4 ELSE 0]
    /\ finishedVote = [s \in Server |-> IF s \in {0, 4} THEN 5 ELSE 0]
    /\ cur_peerId = [s \in Server |-> 0]
    /\ electing = [s \in Server |-> FALSE]
    /\ dead = [s \in Server |-> FALSE]
    /\ ended = [s \in Server |-> FALSE]
    /\ newVotes = [s \in Server |-> 0]
    /\ newAppends = [s \in Server |-> 0]
    /\ voting = [s \in Server |-> NoVote]
    /\ net = SetToBag({LateAnswer(p) : p \in 1..3})
    /\ elections = 0
    /\ beats = 0
    /\ started = 0
    /\ restarts = 0
    /\ lives = [s \in Server |-> 0]
    /\ elected = {<<1, 0>>, <<2, 4>>, <<3, 0>>, <<4, 4>>}
    /\ ballots = {<<1, p, 0>> : p \in Server} \cup {<<2, p, 4>> : p \in 1..4}
                  \cup {<<3, p, 0>> : p \in 0..3} \cup {<<4, p, 4>> : p \in Server}
    /\ slips = {}

LateSpec == LateInit /\ [][Next]_vars
===========================================================================
