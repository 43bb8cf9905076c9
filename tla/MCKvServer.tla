---------------------------- MODULE MCKvServer -----------------------------
EXTENDS KvServer

MCServer == {"s1", "s2"}
\* Two clerks: one appends and reads, the other overwrites.
MCClerk == {"c1", "c2"}
MCScript == [c \in MCClerk |-> IF c = "c1" THEN <<"append", "get">> ELSE <<"put">>]
=============================================================================
