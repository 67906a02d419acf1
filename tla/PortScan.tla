------------------------------ MODULE PortScan ------------------------------
(***************************************************************************)
(* The ports of port-scanning runs, from both sides: a thread of           *)
(* statistical_runner_ps (client/src/main.cpp) connects over and over, and *)
(* bind_by_portman (udp_socket.h) gets a port from the shared manager for  *)
(* its first socket, a second later for the helper, and when it has been   *)
(* introduced for one scan socket after the other; its partner, in another *)
(* process, predicts one of them from what the server has seen.            *)
(***************************************************************************)
EXTENDS PortPrediction

CONSTANTS
    Tick, MaxTime,  \* how much time passes at once, and at all
    MaxRuns,
    Slack,          \* how long two introduced clients may be apart
    Drift,          \* how many ports a NAT may be off its own pace
    Reach,          \* how many times the time it has seen a partner looks ahead
    Unlucky         \* the threads whose binds can fail

ASSUME PortScanAssumption ==
    /\ Tick \in Nat \ {0}
    /\ MaxTime \in Nat /\ MaxRuns \in Nat /\ Slack \in Nat
    /\ Drift \in Nat /\ Reach \in Nat
    /\ Unlucky \subseteq Threads

VARIABLES
    pc,             \* where in connect a thread is; idle between runs
    runs,           \* how many runs have begun
    base_port,
    first, second,  \* the ports that the server has seen, and when
    T1, T2,
    made,           \* how many scan sockets there are,
    scanned,        \* the ports that they have got, and since when
    scan_time,
    helper_rnd,     \* history: what was drawn for the ports passed over
    scan_rnd        \* before the helper, and before the scan sockets

runVars == <<pc, runs, base_port, first, second, T1, T2, made, scanned,
             scan_time, helper_rnd, scan_rnd>>
vars == <<portVars, runVars>>

Pcs == {"idle", "bind", "second", "bind2", "scan", "bind_scan", "punch"}

TypeOK ==
    /\ PortTypeOK
    /\ pc \in [Threads -> Pcs]
    /\ runs \in 0 .. MaxRuns
    /\ base_port \in [Threads -> PortNumbers]
    /\ first \in [Threads -> PortNumbers]
    /\ second \in [Threads -> PortNumbers]
    /\ T1 \in [Threads -> Nat] /\ T2 \in [Threads -> Nat]
    /\ made \in [Threads -> Nat]
    /\ scanned \in [Threads -> SUBSET PortNumbers]
    /\ scan_time \in [Threads -> Nat]
    /\ helper_rnd \in [Threads -> Nat] /\ scan_rnd \in [Threads -> Nat]

Nothing(x) == [t \in Threads |-> x]

Init ==
    /\ PortInit
    /\ pc = Nothing("idle")
    /\ runs = 0
    /\ base_port = Nothing(0)
    /\ first = Nothing(0) /\ second = Nothing(0)
    /\ T1 = Nothing(0) /\ T2 = Nothing(0)
    /\ made = Nothing(0) /\ scanned = Nothing({}) /\ scan_time = Nothing(0)
    /\ helper_rnd = Nothing(0) /\ scan_rnd = Nothing(0)

Goto(t, from, to) == pc[t] = from /\ pc' = [pc EXCEPT ![t] = to]

\* bind_by_portman returns the port it was given, or 0 if bind fails: the
\* socket then has a port that the kernel chooses when it sends.
Bound(t, port) == {port} \cup (IF t \in Unlucky THEN {0} ELSE {})

\* connect begins: the first socket takes a new range.
Begin(t) ==
    /\ runs < MaxRuns
    /\ runs' = runs + 1
    /\ Goto(t, "idle", "bind")
    /\ AssignNext(t)
    /\ UNCHANGED <<base_port, first, second, T1, T2, made, scanned, scan_time,
                   helper_rnd, scan_rnd>>

Assigning(t) == AssignSteps(t) /\ UNCHANGED runVars

\* It is bound and registered.  If bind fails there is no base port.
BindFirst(t) ==
    /\ call[t] = "none"
    /\ Goto(t, "bind", "second")
    /\ \E p \in Bound(t, my_port[t]) :
          /\ base_port' = [base_port EXCEPT ![t] = p]
          /\ first' = [first EXCEPT ![t] = p]
    /\ T1' = [T1 EXCEPT ![t] = clock]
    /\ UNCHANGED <<portVars, runs, second, T2, made, scanned, scan_time,
                   helper_rnd, scan_rnd>>

\* After sleep(1) the helper socket, and when introduced one scan socket
\* after the other: bind_by_portman gets the next port of the base port, ...
OfBase(t, rnd) ==
    base_port[t] # 0 /\ AssignNextFromBase(t, base_port[t], rnd)

\* ... or, without one, the first of another range.
OfNewRange(t, from, to) ==
    /\ base_port[t] = 0
    /\ Goto(t, from, to)
    /\ AssignNext(t)
    /\ UNCHANGED <<runs, base_port, first, second, T1, T2, made, scanned,
                   scan_time, helper_rnd, scan_rnd>>

SecondRegistered(t, from, port, rnd) ==
    /\ Goto(t, from, "scan")
    /\ \E p \in Bound(t, port) : second' = [second EXCEPT ![t] = p]
    /\ T2' = [T2 EXCEPT ![t] = clock]
    /\ helper_rnd' = [helper_rnd EXCEPT ![t] = rnd]
    /\ UNCHANGED <<runs, base_port, first, T1, made, scanned, scan_time, scan_rnd>>

GetSecond(t) ==
    /\ clock >= T1[t] + Second
    /\ \/ \E rnd \in Randoms :
             OfBase(t, rnd) /\ SecondRegistered(t, "second", my_port'[t], rnd)
       \/ OfNewRange(t, "second", "bind2")

BindSecond(t) ==
    /\ call[t] = "none"
    /\ SecondRegistered(t, "bind2", my_port[t], 0)
    /\ UNCHANGED portVars

\* The loop goes on whether bind succeeds or not.
ScanSocketBound(t, from, port, rnd) ==
    /\ \E p \in Bound(t, port) :
          scanned' = [scanned EXCEPT ![t] = @ \cup ({p} \ {0})]
    /\ made' = [made EXCEPT ![t] = @ + 1]
    /\ Goto(t, from, IF made[t] + 1 = ScanRange THEN "punch" ELSE "scan")
    /\ scan_time' = [scan_time EXCEPT ![t] = clock]
    /\ scan_rnd' = [scan_rnd EXCEPT ![t] = IF made[t] = 0 THEN rnd ELSE @]
    /\ UNCHANGED <<runs, base_port, first, second, T1, T2, helper_rnd>>

GetScan(t) ==
    \/ \E rnd \in Randoms :
          OfBase(t, rnd) /\ ScanSocketBound(t, "scan", my_port'[t], rnd)
    \/ OfNewRange(t, "scan", "bind_scan")

BindScan(t) ==
    /\ call[t] = "none"
    /\ ScanSocketBound(t, "bind_scan", my_port[t], 0)
    /\ UNCHANGED portVars

\* connect returns, introduced or not, and its sockets are closed.
End(t) ==
    /\ pc[t] \in {"second", "scan", "punch"}
    /\ pc' = [pc EXCEPT ![t] = "idle"]
    /\ base_port' = [base_port EXCEPT ![t] = 0]
    /\ first' = [first EXCEPT ![t] = 0]
    /\ second' = [second EXCEPT ![t] = 0]
    /\ T1' = [T1 EXCEPT ![t] = 0] /\ T2' = [T2 EXCEPT ![t] = 0]
    /\ made' = [made EXCEPT ![t] = 0]
    /\ scanned' = [scanned EXCEPT ![t] = {}]
    /\ scan_time' = [scan_time EXCEPT ![t] = 0]
    /\ helper_rnd' = [helper_rnd EXCEPT ![t] = 0]
    /\ scan_rnd' = [scan_rnd EXCEPT ![t] = 0]
    /\ UNCHANGED <<portVars, runs>>

\* Time passes while threads wait, not while they compute.
Waits(t) ==
    \/ pc[t] \in {"idle", "second", "punch"}
    \/ pc[t] = "scan" /\ made[t] = 0

PassTime ==
    /\ \A t \in Threads : Waits(t)
    /\ clock + Tick <= MaxTime
    /\ clock' = clock + Tick
    /\ UNCHANGED <<current_port, port_map, readers, reset_owner, call, my_port,
                   runVars>>

Step(t) ==
    \/ Begin(t) \/ Assigning(t) \/ BindFirst(t)
    \/ GetSecond(t) \/ BindSecond(t)
    \/ GetScan(t) \/ BindScan(t)
    \/ End(t)

Next == PassTime \/ \E t \in Threads : Step(t)

Spec == Init /\ [][Next]_vars

\* The scheduler runs every thread.
FairSpec == Spec /\ \A t \in Threads : WF_vars(Step(t))

----------------------------------------------------------------------------
(* Properties                                                              *)

\* Sockets that have a port of the manager's; 0 is one of the kernel's.
Given(t) == (scanned[t]
    \cup (IF pc[t] \in {"second", "bind2", "scan", "bind_scan", "punch"}
          THEN {first[t]} ELSE {})
    \cup (IF pc[t] \in {"scan", "bind_scan", "punch"} THEN {second[t]} ELSE {}))
    \ {0}

\* A range that reaches over the last port goes on inside the first one.
CrossesTop(t) == base_port[t] + Reserved > PortSpace

\* Ports given to runs at the same time differ, across the wrap of the
\* counter and whoever resets it, unless a range of theirs reaches over the
\* last port (port_manager.h:67-133).
PortsExclusive ==
    \A t, u \in Threads :
        t # u /\ ~CrossesTop(t) /\ ~CrossesTop(u)
        => Given(t) \cap Given(u) = {}

\* Every bind of the run has succeeded.
AllBound(t) ==
    /\ base_port[t] # 0 /\ second[t] # 0
    /\ Cardinality(scanned[t]) = ScanRange

\* The simulated hosts kept their pace: they took no more than Drift ports
\* more, or less, in the time before the scan sockets than at the pace at
\* which they took them before the helper, with those that they take in the
\* time that the partner cannot know of; and that time is not too long.
Steady(t) ==
    LET wait == scan_time[t] - T2[t]
        pace == Rate * helper_rnd[t]
        allowed == Drift * Second * Scale - (Slack + Roundtrip) * pace
    IN  /\ wait * pace - wait * Rate * scan_rnd[t] \in -allowed .. allowed
        /\ wait + Slack + Roundtrip <= Reach * (T2[t] - T1[t] + 1)

\* What the partner predicts is one of the ports that the scan sockets have,
\* if the NAT keeps its pace, no bind has failed, and the partner, whose clock
\* is not far from the server's, computes about when the sockets are opened
\* (p2p_ps_connector.h:403-440): that is what the extrapolation assumes of a
\* busy NAT, and port_manager.h:71-92 simulates one whose pace varies.
PredictedIsPunched ==
    \A t \in Threads :
        /\ pc[t] = "punch" /\ AllBound(t) /\ ~CrossesTop(t)
        /\ Sequential(first[t], second[t]) /\ Steady(t)
        => \A now \in T2[t] .. MaxTime + Slack :
              now - scan_time[t] \in -Slack .. Slack =>
                  determine_target_port(first[t], second[t], T1[t], T2[t], now)
                      \in scanned[t]

\* assign_next returns, whoever has its locks (port_manager.h:107-129).
AssignReturns ==
    \A t \in Threads : call[t] # "none" ~> call[t] = "none"
=============================================================================
