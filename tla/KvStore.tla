------------------------------ MODULE KvStore ------------------------------
(***************************************************************************)
(* What the key-value service of LAB3 promises its clerks: one copy of the *)
(* store, every write executed exactly once between its call and its       *)
(* return, every read answered with a value the store had between the      *)
(* two.  Nothing here knows of servers, logs, retries or leaders.          *)
(*                                                                         *)
(* One key is modelled; its value is the sequence of the writes it holds,  *)
(* each named by its clerk and request number.                             *)
(***************************************************************************)
EXTENDS Naturals, Sequences

CONSTANTS
    Clerk,   \* the clerks, each calling one operation at a time
    Script   \* Script[c]: the operations clerk c calls, of "put", "append", "get"

VARIABLES
    store,    \* the value of the key
    called,   \* called[c]: how many operations c has called
    open,     \* open[c]: is the last of them still unanswered?
    executed, \* executed[c]: has the last one, a write, taken effect?
    seen,     \* seen[c]: values of the store since an open call began
    answer    \* answer[c]: what the last answered operation returned

vars == <<store, called, open, executed, seen, answer>>

NoAnswer == <<>>
Op(c) == Script[c][called[c]]

\* put replaces the value, append adds to it.
Written(value, op, c, n) ==
    IF op = "put" THEN <<<<c, n>>>> ELSE Append(value, <<c, n>>)

Init ==
    /\ store = <<>>
    /\ called = [c \in Clerk |-> 0]
    /\ open = [c \in Clerk |-> FALSE]
    /\ executed = [c \in Clerk |-> FALSE]
    /\ seen = [c \in Clerk |-> {}]
    /\ answer = [c \in Clerk |-> NoAnswer]

\* A clerk calls its next operation.
Call(c) ==
    /\ ~open[c]
    /\ called[c] < Len(Script[c])
    /\ called' = [called EXCEPT ![c] = @ + 1]
    /\ open' = [open EXCEPT ![c] = TRUE]
    /\ executed' = [executed EXCEPT ![c] = FALSE]
    /\ seen' = [seen EXCEPT ![c] = {store}]
    /\ UNCHANGED <<store, answer>>

\* A write takes effect; every open call can see the new value.
Execute(c) ==
    /\ open[c]
    /\ Op(c) # "get"
    /\ ~executed[c]
    /\ store' = Written(store, Op(c), c, called[c])
    /\ executed' = [executed EXCEPT ![c] = TRUE]
    /\ seen' = [d \in Clerk |-> IF open[d] THEN seen[d] \cup {store'} ELSE seen[d]]
    /\ UNCHANGED <<called, open, answer>>

\* A read returns a value seen since its call, a write only once executed.
Return(c) ==
    /\ open[c]
    /\ IF Op(c) = "get"
       THEN \E v \in seen[c] : answer' = [answer EXCEPT ![c] = v]
       ELSE executed[c] /\ answer' = [answer EXCEPT ![c] = NoAnswer]
    /\ open' = [open EXCEPT ![c] = FALSE]
    /\ seen' = [seen EXCEPT ![c] = {}]
    /\ UNCHANGED <<store, called, executed>>

Next == \E c \in Clerk : Call(c) \/ Execute(c) \/ Return(c)

Spec == Init /\ [][Next]_vars
=============================================================================
