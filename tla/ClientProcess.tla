--------------------------- MODULE ClientProcess ---------------------------
(***************************************************************************)
(* client/src/main.cpp, statistical_runner and statistical_runner_ps: a    *)
(* number of threads that share run numbers, counters and the table of     *)
(* handles.  Each takes the next run number, makes a connection object,    *)
(* calls connect, counts the result and starts over.  What connect says to *)
(* the server and the peer, and the ports it binds, are the subject of     *)
(* other modules; here it may fail at every call, and what it does to the  *)
(* sockets is modelled one by one.                                         *)
(***************************************************************************)
EXTENDS SocketHandles, FiniteSets

CONSTANTS
    RunCount,       \* run_count
    IdSpace,        \* 2^32
    Modes           \* which of the command lines to consider

ASSUME ProcessAssumption ==
    /\ IsFiniteSet(Threads)
    /\ RunCount \in Nat
    /\ IdSpace \in Nat
    /\ RunCount + Cardinality(Threads) < IdSpace
    /\ Modes \subseteq {"snr", "sps", "sps_sym"}

VARIABLES
    mode,           \* argv: the runner, and is_sym_nat
    pc,             \* where in test_thread_main or connect a thread is
    current_transaction_id,
    result,         \* what connect returned
    successfull_runs, failed_runs, programm_mistakes

counters == <<successfull_runs, failed_runs, programm_mistakes>>
vars == <<handleVars, mode, pc, current_transaction_id, result, counters>>

Results == {"connection_successful", "connection_failed", "connection_error",
            "connection_failed_no_server_match_in_time"}
Pcs == {"take", "open", "connect", "register", "registered", "scan", "select",
        "destroy", "close", "done"}

TypeOK ==
    /\ HandleTypeOK
    /\ mode \in Modes
    /\ pc \in [Threads -> Pcs]
    /\ current_transaction_id \in 0 .. IdSpace - 1
    /\ result \in [Threads -> Results \cup {"none"}]
    /\ successfull_runs \in Nat
    /\ failed_runs \in Nat
    /\ programm_mistakes \in Nat

Init ==
    /\ HandleInit
    /\ mode \in Modes
    /\ pc = [t \in Threads |-> "take"]
    /\ current_transaction_id = 0
    /\ result = [t \in Threads |-> "none"]
    /\ successfull_runs = 0 /\ failed_runs = 0 /\ programm_mistakes = 0

Goto(t, from, to) == pc[t] = from /\ pc' = [pc EXCEPT ![t] = to]

\* connect has its result; what it has made is destroyed.
Ends(t, from, r) ==
    /\ Goto(t, from, "destroy")
    /\ result' = [result EXCEPT ![t] = r]

----------------------------------------------------------------------------
(* test_thread_main                                                        *)

\* One atomic increment gives the number and moves it on.
\* (Mutation: a run moves it on by two.)
NextIdByTwo == current_transaction_id' = (current_transaction_id + 2) % IdSpace
NextId == current_transaction_id' = (current_transaction_id + 1) % IdSpace

TakeId(t) ==
    /\ Goto(t, "take", IF current_transaction_id < RunCount THEN "open" ELSE "done")
    /\ NextId
    /\ UNCHANGED <<handleVars, mode, result, counters>>

\* The constructor of udp_connection ignores a socket that cannot be made;
\* the first send then fails.
OpenConnection(t) ==
    /\ \/ /\ Opens(t, Conn)
          /\ Goto(t, "open", IF mode = "snr" THEN "connect" ELSE "register")
          /\ UNCHANGED result
       \/ FailsToOpen(t, Conn) /\ Ends(t, "open", "connection_error")
    /\ UNCHANGED <<mode, current_transaction_id, counters>>

\* The basic connector uses nothing but the one socket.
BasicConnect(t) ==
    /\ \E r \in Results : Ends(t, "connect", r)
    /\ UNCHANGED <<handleVars, mode, current_transaction_id, counters>>

\* The sockets that connect has made, one after the other.
ToDestroy(t) == {s \in Slots \ {Conn} : handle[t][s] # NoHandle}

DestroyNext(t) ==
    /\ pc[t] = "destroy"
    /\ \E s \in ToDestroy(t) :
          /\ \A r \in ToDestroy(t) : s <= r
          /\ Destroys(t, s)
    /\ UNCHANGED <<mode, pc, current_transaction_id, result, counters>>

Count(t) ==
    /\ Goto(t, "destroy", "close")
    /\ ToDestroy(t) = {}
    /\ \/ /\ result[t] = "connection_successful"
          /\ successfull_runs' = successfull_runs + 1
          /\ UNCHANGED <<failed_runs, programm_mistakes>>
       \/ /\ result[t] = "connection_failed"
          /\ failed_runs' = failed_runs + 1
          /\ UNCHANGED <<successfull_runs, programm_mistakes>>
       \/ /\ result[t] \in {"connection_error",
                            "connection_failed_no_server_match_in_time"}
          /\ programm_mistakes' = programm_mistakes + 1
          /\ UNCHANGED <<successfull_runs, failed_runs>>
    /\ UNCHANGED <<handleVars, mode, current_transaction_id, result>>

\* The connection object of the run goes out of scope.
CloseConnection(t) ==
    /\ Goto(t, "close", "take")
    /\ IF handle[t][Conn] = NoHandle THEN UNCHANGED handleVars
       ELSE Destroys(t, Conn)
    /\ result' = [result EXCEPT ![t] = "none"]
    /\ UNCHANGED <<mode, current_transaction_id, counters>>

----------------------------------------------------------------------------
(* connect of p2p_ps_connector_t                                           *)

\* A registration, the only one or one of two, is not sent or acknowledged.
RegisterFails(t) ==
    /\ \E from \in {"register", "registered"} : Ends(t, from, "connection_error")
    /\ UNCHANGED <<handleVars, mode, current_transaction_id, counters>>

\* The first socket is registered; behind a symmetric NAT a second is made.
OpenHelper(t) ==
    /\ mode = "sps_sym"
    /\ \/ Opens(t, Helper) /\ Goto(t, "register", "registered") /\ UNCHANGED result
       \/ FailsToOpen(t, Helper) /\ Ends(t, "register", "connection_error")
    /\ UNCHANGED <<mode, current_transaction_id, counters>>

Registered(t) == IF mode = "sps" THEN "register" ELSE "registered"

\* The loop ends without new sockets: the ports are not predictable, the
\* partner found this client first, or the attempts are spent.
ConnectEnds(t) ==
    /\ mode # "snr"
    /\ \E r \in Results \ {"connection_error"} : Ends(t, Registered(t), r)
    /\ UNCHANGED <<handleVars, mode, current_transaction_id, counters>>

\* An introduction with ports that can be predicted.
BeginScan(t) ==
    /\ mode = "sps_sym"
    /\ Goto(t, "registered", "scan")
    /\ UNCHANGED <<handleVars, mode, current_transaction_id, result, counters>>

NextScan(t, i) ==
    /\ handle[t][i] = NoHandle
    /\ \A j \in Scans : j < i => handle[t][j] # NoHandle

OpenScan(t) ==
    /\ \E i \in Scans :
          /\ NextScan(t, i)
          /\ \/ /\ Opens(t, i)
                /\ Goto(t, "scan", IF i = ScanRange THEN "select" ELSE "scan")
                /\ UNCHANGED result
             \/ FailsToOpen(t, i) /\ Ends(t, "scan", "connection_failed")
    /\ UNCHANGED <<mode, current_transaction_id, counters>>

\* select hears nothing, or fails since a handle is not open any more.
NothingHeard(t) ==
    /\ Ends(t, "select", "connection_failed")
    /\ UNCHANGED <<handleVars, mode, current_transaction_id, counters>>

\* A socket has heard something; it becomes the connection's, and the loop
\* ends in the state connected, or still in waiting_for_stun_reply.
Heard(t) ==
    /\ \E i \in Scans : Swaps(t, i)
    /\ \E r \in {"connection_successful",
                 "connection_failed_no_server_match_in_time"} : Ends(t, "select", r)
    /\ UNCHANGED <<mode, current_transaction_id, counters>>

----------------------------------------------------------------------------

Step(t) ==
    \/ TakeId(t) \/ OpenConnection(t) \/ BasicConnect(t)
    \/ DestroyNext(t) \/ Count(t) \/ CloseConnection(t)
    \/ RegisterFails(t) \/ OpenHelper(t) \/ ConnectEnds(t) \/ BeginScan(t)
    \/ OpenScan(t) \/ NothingHeard(t) \/ Heard(t)

Next == \E t \in Threads : Step(t)

Spec == Init /\ [][Next]_vars

----------------------------------------------------------------------------
(* Properties                                                              *)

InRun(t) == pc[t] \notin {"take", "close", "done"}

\* Every run that has been started is counted exactly once when it is over,
\* whichever threads took and counted it: the three counters and the runs
\* under way add up to the numbers given out (main.cpp:88-115, 244-276).
RunsCounted ==
    successfull_runs + failed_runs + programm_mistakes
        + Cardinality({t \in Threads : InRun(t)})
    = IF current_transaction_id < RunCount THEN current_transaction_id
      ELSE RunCount

\* No run leaves a file open, though swap copies handles and some numbers
\* are closed twice (udp_socket.h:27-34, p2p_ps_connector.h:320-366).
NoLeak ==
    \A t \in Threads : pc[t] \in {"take", "done"} =>
        \A h \in Handles : file[h] # t

\* select is safe for handles below FD_SETSIZE: no handle exceeds what all
\* threads need at once, however many runs they make
\* (p2p_ps_connector.h:339-345).
HandlesFit ==
    \A h \in Handles : IsOpen(h) =>
        h < Cardinality(Threads) * (ScanRange + 2)

\* A run is counted as a failed punch, and not as "errored - internal
\* error", only if select had the sockets it was called with
\* (p2p_ps_connector.h:345-356, main.cpp:261-268).
FailedWithItsSockets ==
    [][\A t \in Threads : pc[t] = "select" /\ result'[t] = "connection_failed"
          => \A i \in Scans : IsOpen(handle[t][i])]_vars
=============================================================================
