\* One io loop and one connection whose kernel buffer holds the greeting or
\* only half of it, so that answers meet an empty and a filled output buffer;
\* one call of the worker or one message of the peer; the server may be told to
\* quit before every loop runs.
SPECIFICATION Spec
CONSTANTS
    Main = Main
    Worker = Worker
    io1 = io1
    IoLoops <- OneIoLoop
    Conn = {c1}
    WorkerOps = {"shutdown"}
    MaxInputs = 1
    MessageSize = 2
    RoomSize = 2
    Accidents = {"early"}
INVARIANTS
    OutOfReach
    NoSleepOnWork
    OnceUpOnceDown
    StreamInOrder
    NothingForgotten
CHECK_DEADLOCK FALSE
