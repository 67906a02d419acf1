--------------------------- MODULE SocketHandles ---------------------------
(***************************************************************************)
(* The handles of client/src/connection/udp_socket.h: every udp_socket_t   *)
(* has the number of a file of the process, whose table all threads share. *)
(* The kernel gives out the lowest number that is free; close frees a      *)
(* number, whoever opened the file that has it by then.                    *)
(***************************************************************************)
EXTENDS Integers

CONSTANTS
    Threads,
    NoThread,
    ScanRange,      \* scan_range: 50
    HandleLimit,    \* how many handles the process can have
    NoHandle,       \* of a socket that is not initialized_
    CallsMayFail    \* whether socket can fail before the table is full

ASSUME HandleAssumption ==
    /\ NoThread \notin Threads
    /\ ScanRange \in Nat \ {0}
    /\ HandleLimit \in Nat
    /\ NoHandle \notin Int
    /\ CallsMayFail \in BOOLEAN

Handles == 0 .. HandleLimit - 1

\* The sockets of a run, in the order in which they are destroyed: the scan
\* sockets, the helper socket2, and the socket of udp_connection.
Scans == 1 .. ScanRange
Helper == ScanRange + 1
Conn == ScanRange + 2
Slots == 1 .. ScanRange + 2

VARIABLES
    file,           \* handle -> the thread that opened it, or NoThread
    handle          \* thread -> socket -> socket_handle_

handleVars == <<file, handle>>

HandleTypeOK ==
    /\ file \in [Handles -> Threads \cup {NoThread}]
    /\ handle \in [Threads -> [Slots -> Handles \cup {NoHandle}]]

HandleInit ==
    /\ file = [h \in Handles |-> NoThread]
    /\ handle = [t \in Threads |-> [s \in Slots |-> NoHandle]]

IsOpen(h) == h \in Handles /\ file[h] # NoThread
LowestFree(h) == ~IsOpen(h) /\ \A g \in Handles : g < h => IsOpen(g)

Put(t, s, h) == handle' = [handle EXCEPT ![t] = [@ EXCEPT ![s] = h]]

\* init: socket succeeds.
Opens(t, s) ==
    \E h \in Handles :
        /\ LowestFree(h)
        /\ file' = [file EXCEPT ![h] = t]
        /\ Put(t, s, h)

\* Mutation: what socket returns is not looked at, and -1 is the handle of a
\* socket that is initialized_.
FailsUnnoticed(t, s) ==
    /\ CallsMayFail \/ \A h \in Handles : IsOpen(h)
    /\ UNCHANGED file
    /\ Put(t, s, -1)

\* init: socket fails.
FailsToOpen(t, s) ==
    /\ CallsMayFail \/ \A h \in Handles : IsOpen(h)
    /\ UNCHANGED file
    /\ Put(t, s, NoHandle)

\* What close(h) does; a number that is not open is an error, and ignored.
CloseNumber(h) == file' = [file EXCEPT ![h] = NoThread]

\* Mutation: the destructor leaves the file open.
DestroysOnly(t, s) == UNCHANGED file /\ Put(t, s, NoHandle)

\* The destructor.
Destroys(t, s) == CloseNumber(handle[t][s]) /\ Put(t, s, NoHandle)

\* Mutation: the connection's own handle is forgotten, not closed.
SwapsOnly(t, s) ==
    /\ UNCHANGED file
    /\ handle' = [handle EXCEPT ![t] = [@ EXCEPT ![Conn] = handle[t][s],
                                                 ![s] = NoHandle]]

\* std::swap(in_socket, sockets[s]): three copies, and the destructor of the
\* temporary, which closes the handle that in_socket had.
Swaps(t, s) ==
    /\ CloseNumber(handle[t][Conn])
    /\ handle' = [handle EXCEPT ![t] = [@ EXCEPT ![Conn] = handle[t][s],
                                                 ![s] = handle[t][Conn]]]
=============================================================================
