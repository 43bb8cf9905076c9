---------------------------- MODULE MCTcpServer ----------------------------
\* Instances of TcpServer for TLC: one loop in the pool, or none.
EXTENDS TcpServer

CONSTANT io1

OneIoLoop == <<io1>>
NoIoLoop == <<>>
============================================================================
