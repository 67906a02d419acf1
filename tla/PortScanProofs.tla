--------------------------- MODULE PortScanProofs ---------------------------
(***************************************************************************)
(* Proofs about the ports of port-scanning runs, for any number of         *)
(* threads and runs, any size of the port space and of the ranges: types,  *)
(* that runs at the same time are given different ports, and that the port *)
(* a partner predicts is one that the scan sockets have.  How far the      *)
(* counter has moved on since a run began is a history variable, passed;   *)
(* what the code needs and does not enforce are the hypotheses NoLap,      *)
(* InTime, RunFits and ResetFits, and for the prediction NoReuse, Soon and *)
(* PredictionFits.                                                         *)
(***************************************************************************)
EXTENDS PortScan, TLAPS, FiniteSetTheorems

----------------------------------------------------------------------------
(* 16-bit arithmetic                                                       *)

LEMMA PortSpaceFacts ==
    /\ PortSpace \in Nat \ {0} /\ MinPort \in Nat /\ Reserved \in Nat
    /\ MinPort \in PortNumbers /\ 0 \in PortNumbers
    /\ Rate \in Nat /\ Second \in Nat \ {0} /\ Scale \in Nat \ {0}
BY PortAssumption DEF PortNumbers

\* What stays of a sum in 16 bits.
LEMMA AdvanceFacts ==
    ASSUME NEW p \in Nat, NEW n \in Nat
    PROVE  /\ Advance(p, n) \in PortNumbers
           /\ p + n < PortSpace => Advance(p, n) = p + n
           /\ PortSpace <= p + n /\ p + n < 2 * PortSpace
              => Advance(p, n) = p + n - PortSpace
BY PortSpaceFacts DEF Advance, PortNumbers

LEMMA SimulatedFacts ==
    ASSUME NEW since \in Nat, NEW rnd \in Nat, clock \in Nat
    PROVE  /\ Simulated(since, rnd) \in Int
           /\ Simulated(since, rnd) % PortSpace \in PortNumbers
  <1>1. /\ 2 * (clock - since) * Rate * rnd + Second * Scale \in Int
        /\ 2 * Second * Scale \in Nat \ {0}
    BY PortSpaceFacts
  <1>2. Simulated(since, rnd) \in Int BY <1>1 DEF Simulated
  <1> QED BY <1>2, PortSpaceFacts DEF PortNumbers

----------------------------------------------------------------------------
(* Types                                                                   *)

\* What an entry of the map becomes.
LEMMA EntryType ==
    ASSUME PortTypeOK, NEW b \in DOMAIN port_map, NEW p \in PortNumbers,
           NEW time \in Nat
    PROVE  /\ port_map[b] \in PortData
           /\ port_map[b].current_port \in PortNumbers
           /\ port_map[b].timestamp_ms \in Nat
           /\ [current_port |-> p, timestamp_ms |-> time] \in PortData
           /\ [port_map[b] EXCEPT !.current_port = p]
                = [current_port |-> p, timestamp_ms |-> port_map[b].timestamp_ms]
BY DEF PortTypeOK, PortData

\* A range is taken from the counter.
LEMMA TakeType ==
    ASSUME PortTypeOK, NEW t \in Threads, TakeRange(t)
    PROVE  /\ current_port' \in PortNumbers
           /\ my_port' \in [Threads -> PortNumbers]
           /\ my_port'[t] = current_port
           /\ \A u \in Threads \ {t} : my_port'[u] = my_port[u]
  <1>1. current_port \in PortNumbers /\ current_port \in Nat
    BY PortSpaceFacts DEF PortTypeOK, PortNumbers
  <1>2. current_port' \in PortNumbers
    BY <1>1, AdvanceFacts, PortSpaceFacts DEF TakeRange
  <1> QED BY <1>1, <1>2 DEF TakeRange, PortTypeOK

LEMMA CallType ==
    ASSUME PortTypeOK, NEW t \in Threads, NEW from, NEW to \in Calls,
           GotoCall(t, from, to)
    PROVE  /\ call' \in [Threads -> Calls]
           /\ call[t] = from /\ call'[t] = to
           /\ \A u \in Threads \ {t} : call'[u] = call[u]
BY DEF PortTypeOK, GotoCall

\* assign_next, step by step.
LEMMA AssignTypes ==
    ASSUME PortTypeOK, NEW t \in Threads, AssignNext(t) \/ AssignSteps(t)
    PROVE  PortTypeOK'
  <1> USE DEF PortTypeOK
  <1>1. CASE AssignNext(t)
    <2>1. current_port' \in PortNumbers /\ my_port' \in [Threads -> PortNumbers]
      BY <1>1, TakeType DEF AssignNext
    <2>2. call' \in [Threads -> Calls]
      BY <1>1, CallType DEF AssignNext, Calls
    <2> QED BY <1>1, <2>1, <2>2 DEF AssignNext
  <1>2. CASE LockReset(t)
    <2>1. call' \in [Threads -> Calls]
      BY <1>2, CallType DEF LockReset, Calls
    <2> QED BY <1>2, <2>1 DEF LockReset
  <1>3. CASE SetToMin(t)
    <2>1. call' \in [Threads -> Calls]
      BY <1>3, CallType DEF SetToMin, Calls
    <2> QED BY <1>3, <2>1, PortSpaceFacts DEF SetToMin
  <1>4. CASE FetchAgain(t)
    <2>1. current_port' \in PortNumbers /\ my_port' \in [Threads -> PortNumbers]
      BY <1>4, TakeType DEF FetchAgain
    <2>2. call' \in [Threads -> Calls]
      BY <1>4, CallType DEF FetchAgain, Calls
    <2> QED BY <1>4, <2>1, <2>2 DEF FetchAgain
  <1>5. CASE Find(t)
    <2>1. call' \in [Threads -> Calls]
      BY <1>5, CallType DEF Find, Calls
    <2> QED BY <1>5, <2>1 DEF Find
  <1>6. CASE Insert(t)
    <2>1. call' \in [Threads -> Calls]
      BY <1>6, CallType DEF Insert, Calls
    <2>2. my_port[t] \in PortNumbers /\ my_port[t] \in Nat
      BY PortSpaceFacts DEF PortNumbers
    <2>3. [current_port |-> Advance(my_port[t], 1), timestamp_ms |-> clock]
             \in PortData
      BY <2>2, AdvanceFacts DEF PortData
    <2>4. \A v \in PortData :
             LET map == Put(port_map, my_port[t], v) IN
             /\ DOMAIN map \subseteq PortNumbers
             /\ \A b \in DOMAIN map : map[b] \in PortData
      BY <2>2 DEF Put
    <2>5. /\ DOMAIN port_map' \subseteq PortNumbers
          /\ \A b \in DOMAIN port_map' : port_map'[b] \in PortData
      BY <1>6, <2>3, <2>4 DEF Insert
    <2> QED BY <1>6, <2>1, <2>5 DEF Insert
  <1>7. CASE Store(t)
    <2>1. call' \in [Threads -> Calls]
      BY <1>7, CallType DEF Store, Calls
    <2>2. my_port[t] \in PortNumbers /\ my_port[t] \in Nat
      BY PortSpaceFacts DEF PortNumbers
    <2>3. Advance(my_port[t], 1) \in PortNumbers BY <2>2, AdvanceFacts
    <2>4. \A p \in PortNumbers, b \in DOMAIN port_map :
             [port_map[b] EXCEPT !.current_port = p] \in PortData
      BY DEF PortData
    <2>5. /\ DOMAIN port_map' \subseteq PortNumbers
          /\ \A b \in DOMAIN port_map' : port_map'[b] \in PortData
      BY <1>7, <2>3, <2>4 DEF Store
    <2> QED BY <1>7, <2>1, <2>5 DEF Store
  <1> QED BY <1>1, <1>2, <1>3, <1>4, <1>5, <1>6, <1>7 DEF AssignSteps

LEMMA LiftedType ==
    ASSUME NEW p \in PortNumbers
    PROVE  Lifted(p) \in PortNumbers
BY AdvanceFacts, PortSpaceFacts DEF Lifted, PortNumbers

\* assign_next_from_base.
LEMMA FromBaseTypes ==
    ASSUME PortTypeOK, NEW t \in Threads, NEW base, NEW rnd \in Nat,
           AssignNextFromBase(t, base, rnd)
    PROVE  PortTypeOK'
  <1> USE DEF PortTypeOK
  <1>1. CASE base \notin DOMAIN port_map
    BY <1>1, PortSpaceFacts DEF AssignNextFromBase
  <1>2. CASE base \in DOMAIN port_map
    <2> DEFINE offset == Simulated(port_map[base].timestamp_ms, rnd) % PortSpace
               old == port_map[base].current_port
               time == IF Rate = 0 THEN port_map[base].timestamp_ms ELSE clock
               new == [current_port |-> Advance(old, offset + 1),
                       timestamp_ms |-> time]
    <2>1. NextOfBase(t, base, offset) BY <1>2 DEF AssignNextFromBase
    <2>b. port_map[base] \in PortData BY <1>2
    <2>2. /\ old \in PortNumbers /\ old \in Nat
          /\ port_map[base].timestamp_ms \in Nat
      BY <2>b, PortSpaceFacts DEF PortData, PortNumbers
    <2>d. clock \in Nat OBVIOUS
    <2>3. offset \in PortNumbers BY <2>2, <2>d, SimulatedFacts
    <2>e. offset \in Nat BY <2>3, PortSpaceFacts DEF PortNumbers
    <2>4. /\ my_port' = [my_port EXCEPT ![t] = Lifted(Advance(old, offset))]
          /\ port_map' = [port_map EXCEPT ![base] = new]
      BY <2>1 DEF NextOfBase
    <2> HIDE DEF offset
    <2>5. /\ Lifted(Advance(old, offset)) \in PortNumbers
          /\ new \in PortData
      BY <2>2, <2>e, AdvanceFacts, LiftedType DEF PortData
    <2> HIDE DEF old, new
    <2>6. my_port' \in [Threads -> PortNumbers] BY <2>4, <2>5
    <2> HIDE DEF PortTypeOK
    <2>a. /\ DOMAIN port_map \subseteq PortNumbers
          /\ \A b \in DOMAIN port_map : port_map[b] \in PortData
      BY DEF PortTypeOK
    <2>7. /\ DOMAIN port_map' \subseteq PortNumbers
          /\ \A b \in DOMAIN port_map' : port_map'[b] \in PortData
      BY <2>4, <2>5, <2>a
    <2> QED BY <2>6, <2>7 DEF AssignNextFromBase, PortTypeOK
  <1> QED BY <1>1, <1>2

\* The variables of the runs.
RunTypeOK ==
    /\ pc \in [Threads -> Pcs]
    /\ runs \in 0 .. MaxRuns
    /\ base_port \in [Threads -> PortNumbers]
    /\ first \in [Threads -> PortNumbers]
    /\ second \in [Threads -> PortNumbers]
    /\ T1 \in [Threads -> Nat] /\ T2 \in [Threads -> Nat]
    /\ made \in [Threads -> Nat]
    /\ scanned \in [Threads -> SUBSET PortNumbers]
    /\ scan_time \in [Threads -> Nat]
    /\ helper_rnd \in [Threads -> Nat] /\ scan_rnd \in [Threads -> Nat]

\* What bind_by_portman returns.
LEMMA BoundFacts ==
    ASSUME NEW t \in Threads, NEW port, NEW p \in Bound(t, port)
    PROVE  /\ p = port \/ p = 0
           /\ port \in PortNumbers => p \in PortNumbers
BY PortSpaceFacts DEF Bound

LEMMA DrawFacts == Randoms \subseteq Nat /\ 0 \in Nat
BY PortAssumption

LEMMA SecondTypes ==
    ASSUME RunTypeOK, clock \in Nat, NEW t \in Threads, NEW from,
           NEW port \in PortNumbers, NEW rnd \in Nat,
           SecondRegistered(t, from, port, rnd)
    PROVE  RunTypeOK'
  <1> USE DEF RunTypeOK
  <1>1. pc' \in [Threads -> Pcs] BY DEF SecondRegistered, Goto, Pcs
  <1>2. PICK p \in Bound(t, port) : second' = [second EXCEPT ![t] = p]
    BY DEF SecondRegistered
  <1>3. second' \in [Threads -> PortNumbers] BY <1>2, BoundFacts
  <1>4. T2' \in [Threads -> Nat] BY DEF SecondRegistered
  <1>5. helper_rnd' \in [Threads -> Nat] BY DEF SecondRegistered
  <1> QED BY <1>1, <1>3, <1>4, <1>5 DEF SecondRegistered

LEMMA ScanTypes ==
    ASSUME RunTypeOK, clock \in Nat, NEW t \in Threads, NEW from,
           NEW port \in PortNumbers, NEW rnd \in Nat,
           ScanSocketBound(t, from, port, rnd)
    PROVE  RunTypeOK'
  <1> USE DEF RunTypeOK
  <1>1. pc' \in [Threads -> Pcs] BY DEF ScanSocketBound, Goto, Pcs
  <1>2. PICK p \in Bound(t, port) :
           scanned' = [scanned EXCEPT ![t] = @ \cup ({p} \ {0})]
    BY DEF ScanSocketBound
  <1>3. scanned' \in [Threads -> SUBSET PortNumbers] BY <1>2, BoundFacts
  <1>4. scan_time' \in [Threads -> Nat] BY DEF ScanSocketBound
  <1>5. made' \in [Threads -> Nat]
    <2>1. made[t] + 1 \in Nat OBVIOUS
    <2> QED BY <2>1 DEF ScanSocketBound
  <1>6. scan_rnd' \in [Threads -> Nat] BY DEF ScanSocketBound
  <1> QED BY <1>1, <1>3, <1>4, <1>5, <1>6 DEF ScanSocketBound

LEMMA StepTypes ==
    ASSUME TypeOK, NEW t \in Threads, Step(t)
    PROVE  TypeOK'
  <1>1. PortTypeOK /\ RunTypeOK BY DEF TypeOK, RunTypeOK
  <1>2. PortTypeOK'
    <2>1. CASE AssignNext(t) \/ AssignSteps(t) BY <1>1, <2>1, AssignTypes
    <2>2. CASE \E rnd \in Randoms : OfBase(t, rnd)
      BY <1>1, <2>2, FromBaseTypes, DrawFacts DEF OfBase
    <2>3. CASE UNCHANGED portVars BY <1>1, <2>3 DEF PortTypeOK, portVars
    <2> QED BY <2>1, <2>2, <2>3
            DEF Step, Begin, Assigning, BindFirst, GetSecond, BindSecond,
                GetScan, BindScan, End, OfNewRange
  <1>3. /\ clock \in Nat /\ my_port[t] \in PortNumbers /\ my_port'[t] \in PortNumbers
        /\ 0 \in PortNumbers
    BY <1>1, <1>2, PortSpaceFacts DEF PortTypeOK
  <1>4. \A from, to : to \in Pcs /\ Goto(t, from, to) => pc' \in [Threads -> Pcs]
    BY <1>1 DEF RunTypeOK, Goto
  <1>5. RunTypeOK'
    <2>1. CASE Begin(t)
      <3>1. pc' \in [Threads -> Pcs] BY <1>4, <2>1 DEF Begin, Pcs
      <3>2. runs' \in 0 .. MaxRuns
        BY <1>1, <2>1, PortScanAssumption DEF Begin, RunTypeOK
      <3> QED BY <1>1, <2>1, <3>1, <3>2 DEF Begin, RunTypeOK
    <2>2. CASE Assigning(t) BY <1>1, <2>2 DEF Assigning, runVars, RunTypeOK
    <2>3. CASE BindFirst(t)
      <3>1. pc' \in [Threads -> Pcs] BY <1>4, <2>3 DEF BindFirst, Pcs
      <3>2. PICK p \in Bound(t, my_port[t]) :
               /\ base_port' = [base_port EXCEPT ![t] = p]
               /\ first' = [first EXCEPT ![t] = p]
        BY <2>3 DEF BindFirst
      <3>3. p \in PortNumbers BY <1>3, BoundFacts
      <3>4. /\ base_port' \in [Threads -> PortNumbers]
            /\ first' \in [Threads -> PortNumbers]
            /\ T1' \in [Threads -> Nat]
        BY <1>1, <1>3, <2>3, <3>2, <3>3 DEF BindFirst, RunTypeOK
      <3> QED BY <1>1, <2>3, <3>1, <3>4 DEF BindFirst, RunTypeOK
    <2>4. CASE \E from \in Pcs, to \in Pcs : OfNewRange(t, from, to)
      <3>1. pc' \in [Threads -> Pcs] BY <1>4, <2>4 DEF OfNewRange
      <3> QED BY <1>1, <2>4, <3>1 DEF OfNewRange, RunTypeOK
    <2>7. CASE End(t)
      <3>1. pc' \in [Threads -> Pcs] BY <1>1, <2>7 DEF End, RunTypeOK, Pcs
      <3>2. /\ base_port' \in [Threads -> PortNumbers]
            /\ first' \in [Threads -> PortNumbers]
            /\ second' \in [Threads -> PortNumbers]
        BY <1>1, <1>3, <2>7 DEF End, RunTypeOK
      <3>3. /\ T1' \in [Threads -> Nat] /\ T2' \in [Threads -> Nat]
            /\ made' \in [Threads -> Nat]
            /\ scanned' \in [Threads -> SUBSET PortNumbers]
            /\ scan_time' \in [Threads -> Nat]
        BY <1>1, <2>7 DEF End, RunTypeOK
      <3>4. runs' \in 0 .. MaxRuns BY <1>1, <2>7 DEF End, RunTypeOK
      <3>5. helper_rnd' \in [Threads -> Nat] /\ scan_rnd' \in [Threads -> Nat]
        BY <1>1, <2>7 DEF End, RunTypeOK
      <3> QED BY <3>1, <3>2, <3>3, <3>4, <3>5 DEF RunTypeOK
    <2>a. {"second", "bind2", "scan", "bind_scan"} \subseteq Pcs BY DEF Pcs
    <2>8. CASE GetSecond(t)
      BY <1>1, <1>3, <2>a, <2>4, <2>8, SecondTypes, DrawFacts DEF GetSecond
    <2>9. CASE BindSecond(t)
      BY <1>1, <1>3, <2>9, SecondTypes, DrawFacts DEF BindSecond
    <2>10. CASE GetScan(t)
      BY <1>1, <1>3, <2>a, <2>4, <2>10, ScanTypes, DrawFacts DEF GetScan
    <2>11. CASE BindScan(t)
      BY <1>1, <1>3, <2>11, ScanTypes, DrawFacts DEF BindScan
    <2> QED BY <2>1, <2>2, <2>3, <2>7, <2>8, <2>9, <2>10, <2>11 DEF Step
  <1> QED BY <1>2, <1>5 DEF TypeOK, RunTypeOK

LEMMA InitTypes == Init => TypeOK
  <1>1. \A s \in Starts : s \in PortNumbers
    BY PortAssumption DEF PortNumbers
  <1> QED BY <1>1, PortSpaceFacts, PortScanAssumption
          DEF Init, PortInit, TypeOK, PortTypeOK, Nothing, Pcs, Calls

LEMMA NextTypes == TypeOK /\ [Next]_vars => TypeOK'
  <1> SUFFICES ASSUME TypeOK, [Next]_vars PROVE TypeOK'
    OBVIOUS
  <1>1. CASE PassTime
    BY <1>1, PortScanAssumption DEF PassTime, runVars, TypeOK, PortTypeOK
  <1>2. CASE UNCHANGED vars
    BY <1>2 DEF vars, portVars, runVars, TypeOK, PortTypeOK
  <1> QED BY <1>1, <1>2, StepTypes DEF Next

\* Ports, entries and times of the port manager and of the runs keep their
\* types: every port that a thread is given or that the server sees has 16
\* bits (port_manager.h:67-133).
THEOREM TypeCorrect == Spec => []TypeOK
BY InitTypes, NextTypes, PTL DEF Spec

----------------------------------------------------------------------------
(* Laps of the counter                                                     *)

\* A history variable: by how many ports the counter has moved on since the
\* run that a thread is in began.
VARIABLE passed

HInit == Init /\ passed = [t \in Threads |-> 0]

Passing == IF current_port' = current_port THEN 0 ELSE Reserved

HNext ==
    /\ Next
    /\ passed' = [t \in Threads |->
                     IF pc'[t] = "idle" THEN 0 ELSE passed[t] + Passing]

hvars == <<vars, passed>>

HSpec == HInit /\ [][HNext]_hvars

\* No run lasts so long that the counter comes back to its range.
NoLap == \A t \in Threads : passed[t] < PortSpace - MinPort

\* How long a run may wait before its helper, and before its scan sockets,
\* counted from the time in its entry: that is an earlier run's when the base
\* port is used again.  Without simulated hosts it does not matter.
CONSTANT Longest

InTime ==
    Rate # 0 =>
        \A t \in Threads :
            pc[t] \in {"second", "scan"} /\ base_port[t] # 0 /\ made[t] = 0
            => clock - port_map[base_port[t]].timestamp_ms <= Longest

\* A run's range has room for the ports that it takes and for those that the
\* simulated hosts take while it waits, d and then e.
PassedOver(d, rnd) ==
    (2 * d * Rate * rnd + Second * Scale) \div (2 * Second * Scale)
RunFits ==
    /\ Longest \in Nat /\ ScanRange > 0 /\ ScanRange + 2 <= Reserved
    /\ \A d, e \in 0 .. Longest, rnd, rnd2 \in Randoms :
          PassedOver(d, rnd) + PassedOver(e, rnd2) + ScanRange + 2 <= Reserved

LEMMA WaitFacts ==
    ASSUME RunFits
    PROVE  Longest \in Nat /\ \A d \in 0 .. Longest : d \in Nat
  <1>1. Longest \in Nat BY DEF RunFits
  <1> QED BY <1>1

\* When the counter wraps, every thread may take a range below the minimum
\* before one of them resets it.
ResetFits ==
    /\ IsFiniteSet(Threads)
    /\ (Cardinality(Threads) + 1) * Reserved <= MinPort

\* The threads that have taken a range below the minimum.
Pending == {t \in Threads : call[t] \in {"reset", "set", "refetch"}}

Binding == {"bind", "bind2", "bind_scan"}

\* The first ports of the ranges that a thread has.  With a base port the
\* helper and scan sockets are inside its range, without one they have their
\* own; a socket whose bind has failed has none.
Assigned(t) == IF pc[t] \in Binding /\ t \notin Pending THEN {my_port[t]} ELSE {}
Ranges(t) ==
    Assigned(t)
    \cup (((IF pc[t] \in {"second", "bind2", "scan", "bind_scan", "punch"}
            THEN {first[t]} ELSE {})
           \cup (IF base_port[t] = 0 /\ pc[t] \in {"scan", "bind_scan", "punch"}
                 THEN {second[t]} \cup scanned[t] ELSE {})) \ {0})

\* The counter has gone over the range of a, and on by no more than n.
Behind(a, n) ==
    /\ MinPort <= a /\ a < PortSpace
    /\ IF current_port < MinPort THEN PortSpace - a <= n
       ELSE \/ a + Reserved <= current_port /\ current_port - a <= n
            \/ /\ current_port < a
               /\ current_port - MinPort + PortSpace - a <= n

Apart(a, b) == a + Reserved <= b \/ b + Reserved <= a

LEMMA Sizes ==
    ASSUME RunFits, ResetFits
    PROVE  /\ Reserved \in Nat \ {0} /\ ScanRange \in Nat \ {0}
           /\ Reserved <= MinPort /\ MinPort < PortSpace
           /\ MinPort \in Nat /\ PortSpace \in Nat
  <1>1. /\ Reserved \in Nat \ {0} /\ ScanRange \in Nat \ {0}
        /\ MinPort < PortSpace /\ MinPort \in Nat /\ PortSpace \in Nat
    BY PortAssumption, PredictionAssumption DEF RunFits
  <1>2. Cardinality(Threads) \in Nat BY FS_CardinalityType DEF ResetFits
  <1>3. ASSUME NEW k \in Nat, NEW r \in Nat PROVE (k + 1) * r >= r
    <2>1. (k + 1) * r = k * r + r BY SMT
    <2>2. k * r >= 0 BY SMT
    <2>3. k * r \in Int OBVIOUS
    <2> QED BY <2>1, <2>2, <2>3
  <1> QED BY <1>1, <1>2, <1>3 DEF ResetFits

\* Taking the next range moves the counter on, over the last port or not.
LEMMA CounterTakes ==
    ASSUME RunFits, ResetFits, current_port \in PortNumbers,
           NEW t \in Threads, TakeRange(t)
    PROVE  /\ current_port + Reserved < PortSpace
              => current_port' = current_port + Reserved
           /\ current_port + Reserved >= PortSpace
              => current_port' = current_port + Reserved - PortSpace
           /\ current_port' # current_port
  <1>1. /\ current_port \in Nat /\ current_port < PortSpace
        /\ Reserved \in Nat \ {0} /\ Reserved < PortSpace /\ PortSpace \in Nat
    BY Sizes DEF PortNumbers
  <1>2. current_port' = Advance(current_port, Reserved) BY DEF TakeRange
  <1> QED BY <1>1, <1>2, AdvanceFacts

LEMMA BehindTake ==
    ASSUME RunFits, ResetFits, current_port \in PortNumbers,
           NEW t \in Threads, TakeRange(t),
           NEW a \in Nat, NEW n \in Nat, Behind(a, n),
           n + Reserved < PortSpace - MinPort,
           current_port < MinPort => current_port + Reserved < MinPort
    PROVE  Behind(a, n + Reserved)'
  <1>1. current_port \in Nat /\ current_port < PortSpace
    BY Sizes DEF PortNumbers
  <1>2. CASE current_port + Reserved < PortSpace
    <2>1. current_port' = current_port + Reserved BY <1>2, CounterTakes
    <2> QED BY <1>1, <2>1, Sizes DEF Behind
  <1>3. CASE current_port + Reserved >= PortSpace
    <2>1. current_port' = current_port + Reserved - PortSpace
      BY <1>3, CounterTakes
    <2>2. current_port' < MinPort /\ current_port >= MinPort
      BY <1>1, <1>3, <2>1, Sizes
    <2> QED BY <1>1, <1>3, <2>1, <2>2, Sizes DEF Behind
  <1> QED BY <1>1, <1>2, <1>3, Sizes

LEMMA BehindNew ==
    ASSUME RunFits, ResetFits, current_port \in PortNumbers,
           NEW t \in Threads, TakeRange(t), current_port >= MinPort,
           NEW a \in Nat, a = current_port, NEW n \in Nat, n >= Reserved
    PROVE  Behind(a, n)'
  <1>1. current_port \in Nat /\ current_port < PortSpace
    BY Sizes DEF PortNumbers
  <1>2. CASE current_port + Reserved < PortSpace
    <2>1. current_port' = current_port + Reserved BY <1>2, CounterTakes
    <2> QED BY <1>1, <2>1, Sizes DEF Behind
  <1>3. CASE current_port + Reserved >= PortSpace
    <2>1. current_port' = current_port + Reserved - PortSpace
      BY <1>3, CounterTakes
    <2>2. current_port' < MinPort BY <1>1, <1>3, <2>1, Sizes
    <2> QED BY <1>1, <1>3, <2>1, <2>2, Sizes DEF Behind
  <1> QED BY <1>1, <1>2, <1>3, Sizes

\* The next range is apart from all that are less than a lap behind.
LEMMA NextApart ==
    ASSUME RunFits, ResetFits, current_port \in PortNumbers,
           current_port >= MinPort, NEW b \in Nat, NEW n \in Nat,
           Behind(b, n), n + Reserved < PortSpace - MinPort
    PROVE  Apart(current_port, b) /\ Apart(b, current_port)
  <1>1. current_port \in Nat /\ current_port < PortSpace
    BY Sizes DEF PortNumbers
  <1> QED BY <1>1, Sizes DEF Behind, Apart

LEMMA BehindReset ==
    ASSUME RunFits, ResetFits, current_port \in PortNumbers,
           current_port < MinPort, current_port' = MinPort,
           NEW a \in Nat, NEW n \in Nat, Behind(a, n),
           n + Reserved < PortSpace - MinPort
    PROVE  Behind(a, n + Reserved)'
  <1>1. current_port \in Nat BY Sizes DEF PortNumbers
  <1> QED BY <1>1, Sizes DEF Behind

LEMMA BehindSame ==
    ASSUME RunFits, ResetFits, current_port \in PortNumbers,
           current_port' = current_port,
           NEW a \in Nat, NEW n \in Nat, Behind(a, n)
    PROVE  Behind(a, n)'
BY DEF Behind

----------------------------------------------------------------------------
(* The invariant                                                           *)

\* Where a run is, and what it has.
RunShape(t) ==
    /\ call[t] # "none" => pc[t] \in Binding
    /\ pc[t] \in Binding \cup {"idle"} => base_port[t] = 0
    /\ pc[t] \notin {"scan", "bind_scan", "punch"}
          => scanned[t] = {} /\ made[t] = 0
    /\ base_port[t] # 0 => first[t] = base_port[t]

LockShape(t) == call[t] \in {"set", "refetch"} <=> reset_owner = t

\* Whoever resets the counter finds it below the minimum, whoever takes a
\* range after that finds it above; and between the two it makes no lap.
ResetShape(t) ==
    /\ call[t] = "set" => current_port < MinPort
    /\ call[t] = "refetch" => current_port >= MinPort
    /\ t \in Pending /\ current_port >= MinPort
          => current_port - MinPort <= passed[t]

WrapShape ==
    current_port < MinPort => current_port < (Cardinality(Pending) + 1) * Reserved

RangesBehind == \A t \in Threads : \A a \in Ranges(t) : Behind(a, passed[t])

RangesApart ==
    \A t, u \in Threads :
        t # u => \A a \in Ranges(t), b \in Ranges(u) : Apart(a, b)

RangeInv ==
    /\ TypeOK
    /\ passed \in [Threads -> Nat]
    /\ \A t \in Threads : RunShape(t) /\ LockShape(t) /\ ResetShape(t)
    /\ WrapShape
    /\ RangesBehind
    /\ RangesApart

\* What a step of t leaves alone.
OthersSame(t) ==
    \A u \in Threads \ {t} :
        /\ pc'[u] = pc[u] /\ call'[u] = call[u] /\ my_port'[u] = my_port[u]
        /\ base_port'[u] = base_port[u] /\ first'[u] = first[u]
        /\ second'[u] = second[u] /\ scanned'[u] = scanned[u]
        /\ made'[u] = made[u]

LEMMA StepOthers ==
    ASSUME TypeOK, NEW t \in Threads, Step(t)
    PROVE  OthersSame(t)
  <1> SUFFICES ASSUME NEW u \in Threads \ {t}
               PROVE  /\ pc'[u] = pc[u] /\ call'[u] = call[u]
                      /\ my_port'[u] = my_port[u]
                      /\ base_port'[u] = base_port[u] /\ first'[u] = first[u]
                      /\ second'[u] = second[u] /\ scanned'[u] = scanned[u]
                      /\ made'[u] = made[u]
    BY DEF OthersSame
  <1> USE DEF TypeOK, PortTypeOK
  <1>1. \A from, to : Goto(t, from, to) => pc'[u] = pc[u] BY DEF Goto
  <1>2. \A from, to : GotoCall(t, from, to) => call'[u] = call[u]
    BY DEF GotoCall
  <1>3. TakeRange(t) => my_port'[u] = my_port[u] BY DEF TakeRange
  <1>4. AssignNext(t) => call'[u] = call[u] /\ my_port'[u] = my_port[u]
    BY <1>2, <1>3 DEF AssignNext
  <1>5. AssignSteps(t) => call'[u] = call[u] /\ my_port'[u] = my_port[u]
    BY <1>2, <1>3
    DEF AssignSteps, LockReset, SetToMin, FetchAgain, Find, Insert, Store
  <1>6. \A rnd : OfBase(t, rnd) => call'[u] = call[u] /\ my_port'[u] = my_port[u]
    BY DEF OfBase, AssignNextFromBase, NextOfBase
  <1>7. CASE Begin(t) BY <1>1, <1>4, <1>7 DEF Begin
  <1>8. CASE Assigning(t) BY <1>5, <1>8 DEF Assigning, runVars
  <1>9. CASE BindFirst(t) BY <1>1, <1>9 DEF BindFirst, portVars
  <1>10. \A from, to : OfNewRange(t, from, to) =>
            /\ pc'[u] = pc[u] /\ call'[u] = call[u] /\ my_port'[u] = my_port[u]
            /\ UNCHANGED <<base_port, first, second, scanned, made>>
    BY <1>1, <1>4 DEF OfNewRange
  <1>11. \A from, port, rnd : SecondRegistered(t, from, port, rnd) =>
            /\ pc'[u] = pc[u] /\ second'[u] = second[u]
            /\ UNCHANGED <<base_port, first, scanned, made>>
    BY <1>1 DEF SecondRegistered
  <1>12. \A from, port, rnd : ScanSocketBound(t, from, port, rnd) =>
            /\ pc'[u] = pc[u] /\ scanned'[u] = scanned[u] /\ made'[u] = made[u]
            /\ UNCHANGED <<base_port, first, second>>
    BY <1>1 DEF ScanSocketBound
  <1>13. CASE GetSecond(t) BY <1>6, <1>10, <1>11, <1>13 DEF GetSecond
  <1>14. CASE BindSecond(t) BY <1>11, <1>14 DEF BindSecond, portVars
  <1>15. CASE GetScan(t) BY <1>6, <1>10, <1>12, <1>15 DEF GetScan
  <1>16. CASE BindScan(t) BY <1>12, <1>16 DEF BindScan, portVars
  <1>17. CASE End(t) BY <1>17 DEF End, portVars
  <1> QED BY <1>7, <1>8, <1>9, <1>13, <1>14, <1>15, <1>16, <1>17 DEF Step

\* What a step of t does to the counter, and to the ranges that t has.
Rest(t) ==
    /\ current_port' = current_port
    /\ call'[t] = "set" => current_port < MinPort
    /\ call'[t] = "refetch" => current_port >= MinPort
    /\ Pending' = Pending
    /\ Ranges(t)' \subseteq Ranges(t)
TakesLow(t) ==
    /\ TakeRange(t)
    /\ current_port < MinPort
    /\ t \notin Pending /\ Pending' = Pending \cup {t}
    /\ call'[t] = "reset"
    /\ Ranges(t)' \subseteq Ranges(t)
Takes(t) ==
    /\ TakeRange(t)
    /\ current_port >= MinPort
    /\ call'[t] = "find"
    /\ Pending' = Pending \ {t}
    /\ Ranges(t)' \subseteq Ranges(t) \cup {current_port}
Resets(t) ==
    /\ current_port < MinPort
    /\ current_port' = MinPort
    /\ call[t] = "set" /\ call'[t] = "refetch"
    /\ Pending' = Pending
    /\ Ranges(t)' \subseteq Ranges(t)
Moves(t) == Rest(t) \/ TakesLow(t) \/ Takes(t) \/ Resets(t)

\* The threads below the minimum are the same, if t stays or stays out.
LEMMA PendingSame ==
    ASSUME NEW t \in Threads, OthersSame(t), t \in Pending' <=> t \in Pending
    PROVE  Pending' = Pending
BY DEF OthersSame, Pending

LEMMA PendingMore ==
    ASSUME NEW t \in Threads, OthersSame(t), t \in Pending'
    PROVE  Pending' = Pending \cup {t}
BY DEF OthersSame, Pending

LEMMA PendingLess ==
    ASSUME NEW t \in Threads, OthersSame(t), t \notin Pending'
    PROVE  Pending' = Pending \ {t}
BY DEF OthersSame, Pending

\* assign_next begins, whatever for.
LEMMA AssignMoves ==
    ASSUME RangeInv, NEW t \in Threads, OthersSame(t), AssignNext(t),
           pc[t] \notin Binding, pc'[t] \in Binding,
           UNCHANGED <<base_port, first, second, scanned, made>>,
           pc[t] = "idle" => pc'[t] = "bind",
           pc[t] = "second" => pc'[t] = "bind2",
           pc[t] = "scan" => pc'[t] = "bind_scan",
           pc[t] \in {"idle", "second", "scan"}
    PROVE  Moves(t)
  <1>1. /\ TakeRange(t) /\ call[t] = "none" /\ my_port'[t] = current_port
        /\ call'[t] = IF current_port < MinPort THEN "reset" ELSE "find"
    BY TakeType DEF AssignNext, RangeInv, TypeOK, PortTypeOK, GotoCall
  <1>2. t \notin Pending BY <1>1 DEF Pending
  <1>3. current_port \in Nat /\ MinPort \in Nat
    BY PortSpaceFacts DEF RangeInv, TypeOK, PortTypeOK, PortNumbers
  <1>5. CASE current_port < MinPort
    <2>1. t \in Pending' BY <1>1, <1>5 DEF Pending
    <2>2. Pending' = Pending \cup {t} BY <2>1, PendingMore
    <2>3. Ranges(t)' \subseteq Ranges(t)
      BY <2>1 DEF Ranges, Assigned, Binding
    <2> QED BY <1>1, <1>2, <1>5, <2>2, <2>3 DEF Moves, TakesLow
  <1>6. CASE ~(current_port < MinPort)
    <2>1. t \notin Pending' BY <1>1, <1>6 DEF Pending
    <2>2. Pending' = Pending \ {t} BY <2>1, PendingLess
    <2>3. Ranges(t)' \subseteq Ranges(t) \cup {current_port}
      BY <1>1 DEF Ranges, Assigned, Binding
    <2> QED BY <1>1, <1>3, <1>6, <2>2, <2>3 DEF Moves, Takes
  <1> QED BY <1>5, <1>6

\* Its steps.
LEMMA AssigningMoves ==
    ASSUME RangeInv, NEW t \in Threads, OthersSame(t), Assigning(t)
    PROVE  Moves(t) /\ RunShape(t)'
  <1>1. UNCHANGED <<pc, base_port, first, second, scanned, made>>
    BY DEF Assigning, runVars
  <1>2. RunShape(t) /\ ResetShape(t) /\ PortTypeOK /\ current_port \in PortNumbers
    BY DEF RangeInv, TypeOK, PortTypeOK
  <1>3. call[t] # "none"
    BY DEF Assigning, AssignSteps, LockReset, SetToMin, FetchAgain, Find,
           Insert, Store, GotoCall
  <1>4. pc[t] \in Binding BY <1>2, <1>3 DEF RunShape
  <1>5. RunShape(t)' BY <1>1, <1>2, <1>4 DEF RunShape
  <1>6. CASE LockReset(t)
    <2>1. /\ call[t] = "reset" /\ call'[t] \in {"set", "refetch"}
          /\ call'[t] = IF current_port < MinPort THEN "set" ELSE "refetch"
          /\ UNCHANGED <<current_port, my_port>>
      BY <1>2, <1>6 DEF LockReset, NeedsReset, GotoCall, PortTypeOK
    <2>2. t \in Pending /\ t \in Pending' BY <2>1 DEF Pending
    <2>3. Ranges(t)' \subseteq Ranges(t) BY <1>1, <2>2 DEF Ranges, Assigned
    <2>4. current_port \in Nat /\ MinPort \in Nat
      BY <1>2, PortSpaceFacts DEF PortNumbers
    <2> QED BY <1>5, <2>1, <2>2, <2>3, <2>4, PendingSame DEF Moves, Rest
  <1>7. CASE SetToMin(t)
    <2>1. /\ call[t] = "set" /\ call'[t] = "refetch"
          /\ current_port' = MinPort /\ my_port' = my_port
      BY <1>2, <1>7 DEF SetToMin, GotoCall, PortTypeOK
    <2>2. t \in Pending /\ t \in Pending' BY <2>1 DEF Pending
    <2>3. Ranges(t)' \subseteq Ranges(t) BY <1>1, <2>2 DEF Ranges, Assigned
    <2>4. current_port < MinPort BY <1>2, <2>1 DEF ResetShape
    <2> QED BY <1>5, <2>1, <2>2, <2>3, <2>4, PendingSame DEF Moves, Resets
  <1>8. CASE FetchAgain(t)
    <2>1. /\ call[t] = "refetch" /\ call'[t] = "find" /\ TakeRange(t)
      BY <1>2, <1>8 DEF FetchAgain, GotoCall, PortTypeOK
    <2>2. my_port'[t] = current_port BY <1>2, <2>1, TakeType
    <2>3. t \notin Pending' BY <2>1 DEF Pending
    <2>4. Ranges(t)' \subseteq Ranges(t) \cup {current_port}
      BY <1>1, <2>2 DEF Ranges, Assigned
    <2>5. current_port >= MinPort BY <1>2, <2>1 DEF ResetShape
    <2> QED BY <1>5, <2>1, <2>3, <2>4, <2>5, PendingLess DEF Moves, Takes
  <1>9. CASE Find(t) \/ Insert(t) \/ Store(t)
    <2>1. /\ call[t] \in {"find", "insert", "store"}
          /\ call'[t] \in {"insert", "store", "none"}
          /\ UNCHANGED <<current_port, my_port>>
      BY <1>2, <1>9 DEF Find, Insert, Store, GotoCall, PortTypeOK
    <2>2. t \notin Pending /\ t \notin Pending' BY <2>1 DEF Pending
    <2>3. Ranges(t)' \subseteq Ranges(t)
      BY <1>1, <2>1, <2>2 DEF Ranges, Assigned
    <2> QED BY <1>5, <2>1, <2>2, <2>3, PendingSame DEF Moves, Rest
  <1> QED BY <1>6, <1>7, <1>8, <1>9 DEF Assigning, AssignSteps

\* What assign_next and assign_next_from_base do not touch.
LEMMA AssignNextFrame ==
    ASSUME RangeInv, NEW t \in Threads, AssignNext(t)
    PROVE  call[t] = "none"
BY DEF AssignNext, GotoCall

LEMMA GotoFacts ==
    ASSUME RangeInv, NEW t \in Threads, NEW from, NEW to, Goto(t, from, to)
    PROVE  pc[t] = from /\ pc'[t] = to
BY DEF Goto, RangeInv, TypeOK

\* A socket without a base port asks for another range.
LEMMA NewRangeMoves ==
    ASSUME RangeInv, NEW t \in Threads, OthersSame(t),
           \/ OfNewRange(t, "second", "bind2")
           \/ OfNewRange(t, "scan", "bind_scan")
    PROVE  Moves(t) /\ RunShape(t)'
  <1>1. /\ AssignNext(t) /\ base_port[t] = 0
        /\ UNCHANGED <<base_port, first, second, scanned, made>>
    BY DEF OfNewRange
  <1>2. \/ pc[t] = "second" /\ pc'[t] = "bind2"
        \/ pc[t] = "scan" /\ pc'[t] = "bind_scan"
    BY GotoFacts DEF OfNewRange
  <1>3. Moves(t) BY <1>1, <1>2, AssignMoves DEF Binding
  <1>4. RunShape(t)' BY <1>1, <1>2 DEF RunShape, Binding, RangeInv
  <1> QED BY <1>3, <1>4

\* A step that leaves the port manager's counter alone and calls nothing.
LEMMA RestMoves ==
    ASSUME RangeInv, NEW t \in Threads, OthersSame(t),
           current_port' = current_port, call'[t] = call[t], call[t] = "none",
           Ranges(t)' \subseteq Ranges(t)
    PROVE  Moves(t)
  <1>1. t \notin Pending /\ t \notin Pending' BY DEF Pending
  <1> QED BY <1>1, PendingSame DEF Moves, Rest

\* The next port of a base port leaves the ranges alone.
LEMMA FromBaseFrame ==
    ASSUME RangeInv, NEW t \in Threads, NEW rnd, OfBase(t, rnd)
    PROVE  /\ base_port[t] # 0 /\ call[t] = "none"
           /\ UNCHANGED <<clock, current_port, readers, reset_owner, call>>
BY DEF OfBase, AssignNextFromBase

LEMMA StepMoves ==
    ASSUME RangeInv, NEW t \in Threads, OthersSame(t), Step(t)
    PROVE  Moves(t) /\ RunShape(t)'
  <1>a. /\ RunShape(t) /\ base_port \in [Threads -> PortNumbers]
        /\ first \in [Threads -> PortNumbers]
        /\ second \in [Threads -> PortNumbers]
        /\ scanned \in [Threads -> SUBSET PortNumbers]
        /\ made \in [Threads -> Nat]
        /\ pc \in [Threads -> Pcs]
    BY DEF RangeInv, TypeOK
  <1>1. CASE Begin(t)
    <2>1. /\ AssignNext(t) /\ pc[t] = "idle" /\ pc'[t] = "bind"
          /\ UNCHANGED <<base_port, first, second, scanned, made>>
      BY <1>1, GotoFacts DEF Begin
    <2>2. Moves(t) BY <2>1, AssignMoves DEF Binding
    <2>3. RunShape(t)' BY <1>a, <2>1 DEF RunShape, Binding
    <2> QED BY <2>2, <2>3
  <1>2. CASE Assigning(t) BY <1>2, AssigningMoves
  <1>3. CASE BindFirst(t)
    <2>1. /\ call[t] = "none" /\ pc[t] = "bind" /\ pc'[t] = "second"
          /\ UNCHANGED <<current_port, call, my_port, scanned, made>>
      BY <1>3, GotoFacts DEF BindFirst, portVars
    <2>2. /\ first'[t] = base_port'[t]
          /\ first'[t] = my_port[t] \/ first'[t] = 0
      <3>1. PICK p \in Bound(t, my_port[t]) :
               /\ base_port' = [base_port EXCEPT ![t] = p]
               /\ first' = [first EXCEPT ![t] = p]
        BY <1>3 DEF BindFirst
      <3> QED BY <1>a, <3>1, BoundFacts
    <2>3. t \notin Pending BY <2>1 DEF Pending
    <2>4. Ranges(t)' \subseteq Ranges(t)
      BY <2>1, <2>2, <2>3 DEF Ranges, Assigned, Binding
    <2>5. RunShape(t)' BY <1>a, <2>1, <2>2 DEF RunShape, Binding
    <2> QED BY <2>1, <2>4, <2>5, RestMoves
  <1>4. ASSUME NEW rnd, OfBase(t, rnd),
               SecondRegistered(t, "second", my_port'[t], rnd)
        PROVE  Moves(t) /\ RunShape(t)'
    <2>1. /\ pc[t] = "second" /\ pc'[t] = "scan"
          /\ UNCHANGED <<base_port, first, scanned, made>>
      BY <1>4, GotoFacts DEF SecondRegistered
    <2>2. /\ base_port[t] # 0 /\ call[t] = "none"
          /\ UNCHANGED <<current_port, call>>
      BY <1>4, FromBaseFrame
    <2>3. Ranges(t)' \subseteq Ranges(t)
      BY <2>1, <2>2 DEF Ranges, Assigned, Binding
    <2>4. RunShape(t)' BY <1>a, <2>1, <2>2 DEF RunShape, Binding
    <2> QED BY <2>2, <2>3, <2>4, RestMoves
  <1>5. CASE BindSecond(t)
    <2>1. /\ call[t] = "none" /\ pc[t] = "bind2" /\ pc'[t] = "scan"
          /\ UNCHANGED <<current_port, call, my_port, base_port, first, scanned,
                         made>>
      BY <1>5, GotoFacts DEF BindSecond, SecondRegistered, portVars
    <2>6. second'[t] = my_port[t] \/ second'[t] = 0
      <3>1. PICK p \in Bound(t, my_port[t]) : second' = [second EXCEPT ![t] = p]
        BY <1>5 DEF BindSecond, SecondRegistered
      <3> QED BY <1>a, <3>1, BoundFacts
    <2>2. t \notin Pending BY <2>1 DEF Pending
    <2>3. base_port[t] = 0 /\ scanned[t] = {}
      BY <1>a, <2>1 DEF RunShape, Binding
    <2>4. Ranges(t)' \subseteq Ranges(t)
      BY <2>1, <2>2, <2>3, <2>6 DEF Ranges, Assigned, Binding
    <2>5. RunShape(t)' BY <1>a, <2>1, <2>3 DEF RunShape, Binding
    <2> QED BY <2>1, <2>4, <2>5, RestMoves
  <1>6. ASSUME NEW rnd, OfBase(t, rnd),
               ScanSocketBound(t, "scan", my_port'[t], rnd)
        PROVE  Moves(t) /\ RunShape(t)'
    <2>1. /\ pc[t] = "scan" /\ pc'[t] \in {"scan", "punch"}
          /\ UNCHANGED <<base_port, first>>
      BY <1>6, GotoFacts DEF ScanSocketBound
    <2>2. /\ base_port[t] # 0 /\ call[t] = "none"
          /\ UNCHANGED <<current_port, call>>
      BY <1>6, FromBaseFrame
    <2>3. Ranges(t)' \subseteq Ranges(t)
      BY <2>1, <2>2 DEF Ranges, Assigned, Binding
    <2>4. RunShape(t)' BY <1>a, <2>1, <2>2 DEF RunShape, Binding
    <2> QED BY <2>2, <2>3, <2>4, RestMoves
  <1>7. CASE BindScan(t)
    <2>1. /\ call[t] = "none" /\ pc[t] = "bind_scan" /\ pc'[t] \in {"scan", "punch"}
          /\ UNCHANGED <<current_port, call, my_port, base_port, first, second>>
      BY <1>7, GotoFacts DEF BindScan, ScanSocketBound, portVars
    <2>6. scanned'[t] \ {0} \subseteq scanned[t] \cup {my_port[t]}
      <3>1. PICK p \in Bound(t, my_port[t]) :
               scanned' = [scanned EXCEPT ![t] = @ \cup ({p} \ {0})]
        BY <1>7 DEF BindScan, ScanSocketBound
      <3> QED BY <1>a, <3>1, BoundFacts
    <2>2. t \notin Pending BY <2>1 DEF Pending
    <2>3. base_port[t] = 0 BY <1>a, <2>1 DEF RunShape, Binding
    <2>4. Ranges(t)' \subseteq Ranges(t)
      BY <2>1, <2>2, <2>3, <2>6 DEF Ranges, Assigned, Binding
    <2>5. RunShape(t)' BY <1>a, <2>1, <2>3 DEF RunShape, Binding
    <2> QED BY <2>1, <2>4, <2>5, RestMoves
  <1>8. CASE End(t)
    <2>1. /\ pc[t] \in {"second", "scan", "punch"} /\ pc'[t] = "idle"
          /\ base_port'[t] = 0 /\ scanned'[t] = {} /\ made'[t] = 0
          /\ UNCHANGED <<current_port, call, my_port>>
      BY <1>8, <1>a DEF End, portVars
    <2>2. call[t] = "none" BY <1>a, <2>1 DEF RunShape, Binding
    <2>3. Ranges(t)' \subseteq Ranges(t)
      BY <2>1 DEF Ranges, Assigned, Binding
    <2>4. RunShape(t)' BY <2>1, <2>2 DEF RunShape, Binding
    <2> QED BY <2>1, <2>2, <2>3, <2>4, RestMoves
  <1> QED BY <1>1, <1>2, <1>3, <1>4, <1>5, <1>6, <1>7, <1>8, NewRangeMoves
          DEF Step, GetSecond, GetScan

----------------------------------------------------------------------------
(* The steps keep the invariant                                            *)

\* The mutex: one owner, between set or refetch and the end.
LEMMA LockStep ==
    ASSUME RangeInv, NEW t \in Threads, OthersSame(t), Step(t)
    PROVE  \A u \in Threads : LockShape(u)'
  <1>a. /\ \A u \in Threads : LockShape(u)
        /\ call \in [Threads -> Calls]
        /\ NoThread \notin Threads
    BY PortAssumption DEF RangeInv, TypeOK, PortTypeOK
  <1>1. CASE Assigning(t) /\ LockReset(t)
    <2>1. /\ reset_owner = NoThread /\ reset_owner' = t
          /\ call'[t] \in {"set", "refetch"}
      BY <1>a, <1>1 DEF LockReset, GotoCall
    <2> QED BY <1>a, <2>1 DEF LockShape, OthersSame
  <1>2. CASE Assigning(t) /\ SetToMin(t)
    <2>1. /\ reset_owner' = reset_owner
          /\ call[t] = "set" /\ call'[t] = "refetch"
      BY <1>a, <1>2 DEF SetToMin, GotoCall
    <2> QED BY <1>a, <2>1 DEF LockShape, OthersSame
  <1>3. CASE Assigning(t) /\ FetchAgain(t)
    <2>1. /\ reset_owner' = NoThread
          /\ call[t] = "refetch" /\ call'[t] = "find"
      BY <1>a, <1>3 DEF FetchAgain, GotoCall
    <2> QED BY <1>a, <2>1 DEF LockShape, OthersSame
  <1>4. CASE Assigning(t) /\ (Find(t) \/ Insert(t) \/ Store(t))
    <2>1. /\ reset_owner' = reset_owner
          /\ call[t] \notin {"set", "refetch"} /\ call'[t] \notin {"set", "refetch"}
      BY <1>a, <1>4 DEF Find, Insert, Store, GotoCall
    <2> QED BY <1>a, <2>1 DEF LockShape, OthersSame
  <1>5. CASE AssignNext(t)
    <2>1. /\ reset_owner' = reset_owner
          /\ call[t] \notin {"set", "refetch"} /\ call'[t] \notin {"set", "refetch"}
      BY <1>a, <1>5 DEF AssignNext, GotoCall
    <2> QED BY <1>a, <2>1 DEF LockShape, OthersSame
  <1>6. CASE UNCHANGED <<call, reset_owner>>
    BY <1>a, <1>6 DEF LockShape
  <1>7. \/ Assigning(t) \/ AssignNext(t) \/ UNCHANGED <<call, reset_owner>>
    BY FromBaseFrame DEF Step, Begin, BindFirst, GetSecond, OfNewRange, BindSecond,
       GetScan, BindScan, End, portVars
  <1> QED BY <1>1, <1>2, <1>3, <1>4, <1>5, <1>6, <1>7 DEF Assigning, AssignSteps

\* How far the counter has moved on, for the threads that are in a run.
PassedOn ==
    /\ passed' \in [Threads -> Nat]
    /\ \A u \in Threads :
          pc'[u] # "idle" =>
              passed'[u] = IF current_port' = current_port THEN passed[u]
                           ELSE passed[u] + Reserved

LEMMA PassedStep ==
    ASSUME RangeInv,
           passed' = [t \in Threads |->
                         IF pc'[t] = "idle" THEN 0 ELSE passed[t] + Passing]
    PROVE  PassedOn
  <1>1. passed \in [Threads -> Nat] /\ Reserved \in Nat
    BY PortSpaceFacts DEF RangeInv
  <1> QED BY <1>1 DEF PassedOn, Passing

LEMMA RangeTypes ==
    ASSUME TypeOK, NEW u \in Threads, NEW a \in Ranges(u)
    PROVE  a \in Nat /\ pc[u] # "idle"
  <1>1. a \in PortNumbers
    BY DEF Ranges, Assigned, TypeOK, PortTypeOK
  <1> QED BY <1>1, PortSpaceFacts DEF Ranges, Assigned, Binding, PortNumbers

\* How many threads are below the minimum.
LEMMA PendingFacts ==
    ASSUME ResetFits
    PROVE  /\ Cardinality(Pending) \in Nat
           /\ \A t \in Threads \ Pending :
                 /\ Cardinality(Pending \cup {t}) = Cardinality(Pending) + 1
                 /\ Cardinality(Pending) + 1 <= Cardinality(Threads)
           /\ Cardinality(Threads) \in Nat
  <1>1. Pending \subseteq Threads /\ IsFiniteSet(Threads)
    BY DEF Pending, ResetFits
  <1>2. IsFiniteSet(Pending) BY <1>1, FS_Subset
  <1>3. \A t \in Threads \ Pending :
           Cardinality(Pending \cup {t}) = Cardinality(Pending) + 1
    BY <1>2, FS_AddElement
  <1>4. \A t \in Threads : Pending \cup {t} \subseteq Threads BY <1>1
  <1>5. \A t \in Threads : Cardinality(Pending \cup {t}) <= Cardinality(Threads)
    BY <1>1, <1>4, FS_Subset
  <1> QED BY <1>1, <1>2, <1>3, <1>5, FS_CardinalityType

LEMMA TakesLowStays ==
    ASSUME RangeInv, RunFits, ResetFits, NEW t \in Threads, TakesLow(t)
    PROVE  /\ current_port' = current_port + Reserved
           /\ current_port' < MinPort
           /\ WrapShape'
  <1> DEFINE k == Cardinality(Pending)
             all == Cardinality(Threads)
  <1>1. /\ k \in Nat /\ all \in Nat /\ k + 1 <= all
        /\ Cardinality(Pending') = k + 1
    BY PendingFacts DEF TakesLow
  <1>2. /\ current_port \in Nat /\ current_port < (k + 1) * Reserved
        /\ current_port \in PortNumbers /\ current_port < MinPort
    BY PortSpaceFacts DEF RangeInv, WrapShape, TakesLow, TypeOK, PortTypeOK,
                          PortNumbers
  <1>3. Reserved \in Nat /\ (all + 1) * Reserved <= MinPort
    BY PortSpaceFacts DEF ResetFits
  <1> HIDE DEF k, all
  <1>4. (k + 2) * Reserved = (k + 1) * Reserved + Reserved
    BY <1>1, <1>3, SMT
  <1>5. (k + 2) * Reserved <= (all + 1) * Reserved
    <2>1. \A i, j, r \in Nat : i <= j => i * r <= j * r BY SMT
    <2>2. k + 2 \in Nat /\ all + 1 \in Nat /\ k + 2 <= all + 1 BY <1>1
    <2> QED BY <1>3, <2>1, <2>2
  <1>6. /\ (k + 1) * Reserved \in Int /\ (k + 2) * Reserved \in Int
        /\ (all + 1) * Reserved \in Int
    BY <1>1, <1>3
  <1>7. current_port + Reserved < (k + 2) * Reserved
        /\ current_port + Reserved < MinPort
    BY <1>2, <1>3, <1>4, <1>5, <1>6, PortSpaceFacts
  <1>8. current_port' = current_port + Reserved
    <2>1. current_port + Reserved < PortSpace BY <1>2, <1>3, <1>7, Sizes
    <2> QED BY <1>2, <2>1, CounterTakes DEF TakesLow
  <1>9. Cardinality(Pending') + 1 = k + 2 BY <1>1
  <1> QED BY <1>7, <1>8, <1>9 DEF WrapShape

\* The conditions under which the invariant is kept over a step.
Laps == RunFits /\ ResetFits /\ NoLap /\ NoLap'

LEMMA LapFacts ==
    ASSUME RangeInv, Laps, PassedOn, NEW u \in Threads, pc'[u] # "idle"
    PROVE  /\ passed[u] \in Nat /\ passed'[u] \in Nat
           /\ current_port' = current_port => passed'[u] = passed[u]
           /\ current_port' # current_port =>
                 /\ passed'[u] = passed[u] + Reserved
                 /\ passed[u] + Reserved < PortSpace - MinPort
BY DEF RangeInv, Laps, PassedOn, NoLap

LEMMA CounterFacts ==
    ASSUME RangeInv, Laps
    PROVE  /\ current_port \in PortNumbers /\ current_port \in Nat
           /\ current_port < PortSpace
           /\ Reserved \in Nat \ {0} /\ Reserved <= MinPort
           /\ MinPort \in Nat /\ PortSpace \in Nat /\ MinPort < PortSpace
  <1>1. current_port \in PortNumbers BY DEF RangeInv, TypeOK, PortTypeOK
  <1> QED BY <1>1, Sizes DEF Laps, PortNumbers

\* A range that stays in use stays behind the counter.
LEMMA StaysBehind ==
    ASSUME RangeInv, Laps, PassedOn, NEW t \in Threads, Moves(t),
           NEW u \in Threads, pc'[u] # "idle", NEW a \in Ranges(u)
    PROVE  Behind(a, passed[u])'
  <1>1. a \in Nat /\ Behind(a, passed[u])
    BY RangeTypes DEF RangeInv, RangesBehind
  <1>2. passed[u] \in Nat BY DEF RangeInv
  <1>b. PICK n \in Nat : n = passed[u] BY <1>2
  <1>a. Behind(a, n) BY <1>1, <1>b
  <1>3. CASE current_port' = current_port
    <2>1. passed'[u] = n BY <1>3, <1>b, LapFacts
    <2> QED BY <1>3, <1>a, <2>1 DEF Behind
  <1>4. CASE current_port' # current_port
    <2>1. passed'[u] = n + Reserved /\ n + Reserved < PortSpace - MinPort
      BY <1>4, <1>b, LapFacts
    <2>2. CASE TakesLow(t)
      <3>1. TakeRange(t) /\ current_port + Reserved < MinPort
        BY <2>2, TakesLowStays DEF TakesLow, Laps
      <3>2. Behind(a, n + Reserved)'
        BY <1>1, <1>a, <2>1, <3>1, CounterFacts, BehindTake DEF Laps
      <3> QED BY <2>1, <3>2 DEF Behind
    <2>3. CASE Takes(t)
      <3>1. TakeRange(t) /\ ~(current_port < MinPort)
        BY <2>3, CounterFacts DEF Takes
      <3>2. Behind(a, n + Reserved)'
        BY <1>1, <1>a, <2>1, <3>1, CounterFacts, BehindTake DEF Laps
      <3> QED BY <2>1, <3>2 DEF Behind
    <2>4. CASE Resets(t)
      <3>1. Behind(a, n + Reserved)'
        BY <1>1, <1>a, <2>1, <2>4, CounterFacts, BehindReset DEF Resets, Laps
      <3> QED BY <2>1, <3>1 DEF Behind
    <2> QED BY <1>4, <2>2, <2>3, <2>4 DEF Moves, Rest
  <1> QED BY <1>3, <1>4

\* Nobody takes a range over the last port while a thread has one below the
\* minimum.
LEMMA ResetStep ==
    ASSUME RangeInv, Laps, PassedOn, NEW t \in Threads, OthersSame(t), Moves(t),
           \A u \in Threads : RunShape(u)'
    PROVE  /\ \A u \in Threads : ResetShape(u)'
           /\ WrapShape'
  <1>a. /\ \A u \in Threads : ResetShape(u) /\ LockShape(u)
        /\ WrapShape
    BY DEF RangeInv
  <1>b. \A u \in Threads : u \in Pending' => pc'[u] # "idle"
    BY DEF Pending, RunShape, Binding
  <1>1. CASE Rest(t)
    <2>1. ASSUME NEW u \in Threads PROVE ResetShape(u)'
      <3>1. u \in Pending' => passed'[u] = passed[u]
        BY <1>1, <1>b, LapFacts DEF Rest
      <3> QED BY <1>1, <1>a, <3>1 DEF Rest, ResetShape, OthersSame
    <2>2. WrapShape' BY <1>1, <1>a DEF Rest, WrapShape
    <2> QED BY <2>1, <2>2
  <1>2. CASE TakesLow(t)
    <2>1. current_port' < MinPort /\ WrapShape' BY <1>2, TakesLowStays DEF Laps
    <2>2. \A u \in Threads : call'[u] # "refetch"
      BY <1>2, <1>a, CounterFacts DEF TakesLow, ResetShape, OthersSame
    <2>3. current_port' \in Nat
      BY <1>2, TakesLowStays, CounterFacts DEF Laps
    <2> QED BY <2>1, <2>2, <2>3, CounterFacts DEF ResetShape
  <1>3. CASE Takes(t)
    <2>1. TakeRange(t) /\ current_port' # current_port
      BY <1>3, CounterFacts, CounterTakes DEF Takes, Laps
    <2>2. ASSUME NEW u \in Threads PROVE ResetShape(u)'
      <3>1. CASE u \in Pending'
        <4>1. u \in Pending /\ u # t BY <1>3, <3>1 DEF Takes
        <4>2. /\ passed[u] \in Nat
              /\ passed'[u] = passed[u] + Reserved
              /\ passed[u] + Reserved < PortSpace - MinPort
          BY <1>b, <2>1, <3>1, LapFacts
        <4>3. current_port - MinPort <= passed[u] /\ current_port >= MinPort
          BY <1>3, <1>a, <4>1 DEF Takes, ResetShape
        <4>4. current_port + Reserved < PortSpace
          BY <4>2, <4>3, CounterFacts
        <4>5. current_port' = current_port + Reserved
          BY <2>1, <4>4, CounterFacts, CounterTakes DEF Laps
        <4>6. current_port' - MinPort <= passed'[u] /\ current_port' >= MinPort
          BY <4>2, <4>3, <4>5, CounterFacts
        <4>7. call'[u] # "set"
          BY <1>3, <1>a, <4>1, <4>3, CounterFacts
          DEF ResetShape, OthersSame
        <4> QED BY <4>6, <4>7 DEF ResetShape
      <3>2. CASE u \notin Pending'
        BY <3>2 DEF ResetShape, Pending
      <3> QED BY <3>1, <3>2
    <2>3. WrapShape'
      <3>1. CASE current_port + Reserved < PortSpace
        <4>1. current_port' = current_port + Reserved
          BY <2>1, <3>1, CounterFacts, CounterTakes DEF Laps
        <4>2. ~(current_port' < MinPort)
          BY <1>3, <4>1, CounterFacts DEF Takes
        <4> QED BY <4>2 DEF WrapShape
      <3>2. CASE ~(current_port + Reserved < PortSpace)
        <4>1. current_port' = current_port + Reserved - PortSpace
          BY <2>1, <3>2, CounterFacts, CounterTakes DEF Laps
        <4>2. current_port' \in Int /\ current_port' < Reserved
          BY <4>1, CounterFacts
        <4>3. Cardinality(Pending') \in Nat
          <5>1. Pending' \subseteq Threads /\ IsFiniteSet(Threads)
            BY DEF Pending, Laps, ResetFits
          <5> QED BY <5>1, FS_Subset, FS_CardinalityType
        <4>4. Reserved <= (Cardinality(Pending') + 1) * Reserved
          <5>1. \A k, r \in Nat : r <= (k + 1) * r
            <6>1. \A k, r \in Nat : (k + 1) * r = k * r + r /\ k * r >= 0 BY SMT
            <6> QED BY <6>1
          <5> QED BY <4>3, <5>1, CounterFacts
        <4>5. (Cardinality(Pending') + 1) * Reserved \in Int
          BY <4>3, CounterFacts
        <4>6. current_port' < (Cardinality(Pending') + 1) * Reserved
          BY <4>2, <4>4, <4>5, CounterFacts
        <4> QED BY <4>6 DEF WrapShape
      <3> QED BY <3>1, <3>2
    <2> QED BY <2>2, <2>3
  <1>4. CASE Resets(t)
    <2>1. ASSUME NEW u \in Threads PROVE ResetShape(u)'
      <3>1. call'[u] # "set"
        BY <1>4, <1>a DEF Resets, OthersSame, LockShape
      <3>2. current_port' = MinPort BY <1>4 DEF Resets
      <3>3. u \in Pending' => passed'[u] \in Nat BY <1>b, LapFacts
      <3> QED BY <3>1, <3>2, <3>3, CounterFacts DEF ResetShape
    <2>2. ~(current_port' < MinPort) BY <1>4, CounterFacts DEF Resets
    <2> QED BY <2>1, <2>2 DEF WrapShape
  <1> QED BY <1>1, <1>2, <1>3, <1>4 DEF Moves

LEMMA SameRanges ==
    ASSUME NEW t \in Threads, OthersSame(t), NEW u \in Threads \ {t}
    PROVE  Ranges(u)' = Ranges(u) /\ (RunShape(u) => RunShape(u)')
BY DEF OthersSame, Ranges, Assigned, Pending, RunShape

\* A range that a thread has after a step was its own, or is the next one.
LEMMA WhoseRange ==
    ASSUME NEW t \in Threads, OthersSame(t), Moves(t), NEW u \in Threads,
           NEW a, a \in Ranges(u)'
    PROVE  a \in Ranges(u) \/ (u = t /\ Takes(t) /\ a = current_port)
  <1>1. CASE u = t BY <1>1 DEF Moves, Rest, TakesLow, Takes, Resets
  <1>2. CASE u # t BY <1>2, SameRanges
  <1> QED BY <1>1, <1>2

LEMMA RangeStep ==
    ASSUME RangeInv, Laps, PassedOn, NEW t \in Threads, Step(t)
    PROVE  RangeInv'
  <1>1. TypeOK /\ OthersSame(t) BY StepOthers DEF RangeInv
  <1>2. TypeOK' BY <1>1, StepTypes
  <1>3. Moves(t) /\ RunShape(t)' BY <1>1, StepMoves
  <1>4. \A u \in Threads : RunShape(u)'
    BY <1>1, <1>3, SameRanges DEF RangeInv
  <1>5. \A u \in Threads : LockShape(u)' BY <1>1, LockStep
  <1>6. (\A u \in Threads : ResetShape(u)') /\ WrapShape'
    BY <1>1, <1>3, <1>4, ResetStep
  <1>7. \A u \in Threads : \A a \in Ranges(u)' : a \in Nat /\ pc'[u] # "idle"
    <2> SUFFICES ASSUME NEW u \in Threads, NEW a, a \in Ranges(u)'
                 PROVE  a \in Nat /\ pc'[u] # "idle"
      OBVIOUS
    <2>1. a \in PortNumbers
      BY <1>2 DEF Ranges, Assigned, TypeOK, PortTypeOK
    <2> QED BY <2>1, PortSpaceFacts DEF Ranges, Assigned, Binding, PortNumbers
  <1>8. RangesBehind'
    <2> SUFFICES ASSUME NEW u \in Threads, NEW a, a \in Ranges(u)'
                 PROVE  Behind(a, passed[u])'
      BY DEF RangesBehind
    <2>1. a \in Nat /\ pc'[u] # "idle" BY <1>7
    <2>2. CASE a \in Ranges(u) BY <1>3, <2>1, <2>2, StaysBehind
    <2>3. CASE u = t /\ Takes(t) /\ a = current_port
      <3>1. TakeRange(t) /\ current_port >= MinPort BY <2>3 DEF Takes
      <3>2. current_port' # current_port
        BY <3>1, CounterFacts, CounterTakes DEF Laps
      <3>3. PICK n \in Nat : n = passed'[u] /\ n >= Reserved
        BY <2>1, <3>2, LapFacts, CounterFacts
      <3>4. Behind(a, n)'
        BY <2>1, <2>3, <3>1, <3>3, CounterFacts, BehindNew DEF Laps
      <3> QED BY <3>3, <3>4 DEF Behind
    <2> QED BY <1>1, <1>3, <2>2, <2>3, WhoseRange
  <1>9. RangesApart'
    <2> SUFFICES ASSUME NEW u \in Threads, NEW v \in Threads, u # v,
                        NEW a, a \in Ranges(u)', NEW b, b \in Ranges(v)'
                 PROVE  Apart(a, b)
      BY DEF RangesApart, Apart
    <2>1. CASE a \in Ranges(u) /\ b \in Ranges(v)
      BY <2>1 DEF RangeInv, RangesApart
    <2>2. ASSUME NEW w \in Threads, NEW c \in Ranges(w), c \in Ranges(w)',
                 Takes(t)
          PROVE  Apart(current_port, c) /\ Apart(c, current_port)
      <3>1. TakeRange(t) /\ current_port >= MinPort BY <2>2 DEF Takes
      <3>2. current_port' # current_port
        BY <3>1, CounterFacts, CounterTakes DEF Laps
      <3>3. c \in Nat /\ pc'[w] # "idle" BY <1>7, <2>2
      <3>4. /\ passed[w] \in Nat
            /\ passed[w] + Reserved < PortSpace - MinPort
            /\ Behind(c, passed[w])
        BY <2>2, <3>2, <3>3, LapFacts DEF RangeInv, RangesBehind
      <3> QED BY <3>1, <3>3, <3>4, CounterFacts, NextApart DEF Laps
    <2>3. /\ a \in Ranges(u) \/ (u = t /\ Takes(t) /\ a = current_port)
          /\ b \in Ranges(v) \/ (v = t /\ Takes(t) /\ b = current_port)
      BY <1>1, <1>3, WhoseRange
    <2> QED BY <2>1, <2>2, <2>3
  <1> QED BY <1>2, <1>4, <1>5, <1>6, <1>8, <1>9 DEF RangeInv, PassedOn

\* A step that leaves the counter and the runs alone.
LEMMA RangeFrame ==
    ASSUME RangeInv, PassedOn, TypeOK',
           UNCHANGED <<current_port, reset_owner, call, my_port, pc, base_port,
                       first, second, scanned, made>>
    PROVE  RangeInv'
  <1>1. Pending' = Pending BY DEF Pending
  <1>2. \A u \in Threads :
           /\ Ranges(u)' = Ranges(u)
           /\ pc[u] # "idle" => passed'[u] = passed[u]
           /\ u \in Pending => pc[u] # "idle"
    BY <1>1 DEF Ranges, Assigned, PassedOn, Pending, RangeInv, RunShape, Binding
  <1>3. \A u \in Threads : \A a \in Ranges(u) : pc[u] # "idle"
    BY RangeTypes DEF RangeInv
  <1>4. \A u \in Threads : RunShape(u)' /\ LockShape(u)'
    BY DEF RangeInv, RunShape, LockShape
  <1>5. \A u \in Threads : ResetShape(u)'
    BY <1>1, <1>2 DEF RangeInv, ResetShape
  <1>6. WrapShape' BY <1>1 DEF RangeInv, WrapShape
  <1>7. RangesBehind'
    BY <1>2, <1>3 DEF RangeInv, RangesBehind, Behind
  <1>8. RangesApart' BY <1>2 DEF RangeInv, RangesApart, Apart
  <1> QED BY <1>4, <1>5, <1>6, <1>7, <1>8 DEF RangeInv, PassedOn

LEMMA RangeInit == HInit => RangeInv
  <1> SUFFICES ASSUME HInit PROVE RangeInv
    OBVIOUS
  <1>1. TypeOK BY InitTypes DEF HInit
  <1>2. /\ \A t \in Threads : /\ pc[t] = "idle" /\ call[t] = "none"
                              /\ base_port[t] = 0 /\ scanned[t] = {}
                              /\ made[t] = 0
                              /\ passed[t] = 0
        /\ passed \in [Threads -> Nat]
        /\ reset_owner = NoThread
        /\ current_port \in Starts
    BY DEF HInit, Init, PortInit, Nothing
  <1>3. \A t \in Threads : t \notin Pending /\ Ranges(t) = {}
    BY <1>2 DEF Pending, Ranges, Assigned, Binding
  <1>4. \A t \in Threads : RunShape(t) /\ LockShape(t) /\ ResetShape(t)
    BY <1>2, <1>3, PortAssumption
    DEF RunShape, LockShape, ResetShape, Pending, Binding
  <1>5. WrapShape BY <1>2, PortAssumption DEF WrapShape
  <1> QED BY <1>1, <1>2, <1>3, <1>4, <1>5 DEF RangeInv, RangesBehind, RangesApart

LEMMA RangeNext == RangeInv /\ Laps /\ [HNext]_hvars => RangeInv'
  <1> SUFFICES ASSUME RangeInv, Laps, [HNext]_hvars PROVE RangeInv'
    OBVIOUS
  <1>1. TypeOK' BY NextTypes DEF RangeInv, HNext, hvars
  <1>2. CASE HNext
    <2>1. PassedOn BY <1>2, PassedStep DEF HNext
    <2>2. CASE PassTime
      BY <1>1, <2>1, <2>2, RangeFrame DEF PassTime, runVars
    <2> QED BY <1>2, <2>1, <2>2, RangeStep DEF HNext, Next
  <1>3. CASE UNCHANGED hvars
    <2>1. PassedOn BY <1>3 DEF hvars, vars, portVars, PassedOn, RangeInv
    <2> QED BY <1>1, <1>3, <2>1, RangeFrame DEF hvars, vars, portVars, runVars
  <1> QED BY <1>2, <1>3

----------------------------------------------------------------------------
(* Inside the ranges                                                       *)

\* An entry that assign_next makes, or finds.
Entered(t) ==
    /\ call[t] = "insert" => my_port[t] \notin DOMAIN port_map
    /\ call[t] = "store" => my_port[t] \in DOMAIN port_map
    /\ pc[t] = "bind" /\ call[t] = "none" =>
          /\ my_port[t] \in DOMAIN port_map
          /\ port_map[my_port[t]].current_port = Advance(my_port[t], 1)

\* How far the ports of a run are used up by the helper and n scan sockets,
\* bound or not: after the helper's, d of the time has passed for the
\* simulated hosts; after the first scan socket's, all.
ScanEntry(b, e, sock, socks, n) ==
    /\ {sock} \ {0} \subseteq b .. e.current_port - 1
    /\ socks \subseteq b .. e.current_port - 1
    /\ b < e.current_port
    /\ n < ScanRange
    /\ \/ /\ n = 0 /\ socks = {}
          /\ \E d \in 0 .. Longest, rnd \in Randoms :
                e.current_port = b + PassedOver(d, rnd) + 2
       \/ /\ n # 0
          /\ e.current_port + ScanRange <= b + Reserved + n
          /\ Rate = 0 \/ e.timestamp_ms = clock

RunEntry(t) ==
    LET b == base_port[t] IN
    b # 0 /\ ~CrossesTop(t) =>
        /\ pc[t] = "second" =>
              b \in DOMAIN port_map /\ port_map[b].current_port = b + 1
        /\ pc[t] = "scan" =>
              /\ b \in DOMAIN port_map
              /\ ScanEntry(b, port_map[b], second[t], scanned[t], made[t])
        /\ pc[t] = "punch" =>
              (({second[t]} \ {0}) \cup scanned[t]) \subseteq b .. b + Reserved - 1

Times == \A b \in DOMAIN port_map : port_map[b].timestamp_ms <= clock

EntryInv ==
    /\ Times
    /\ \A t \in Threads : Entered(t) /\ RunEntry(t)

LEMMA PassedOverFacts ==
    ASSUME NEW d \in Nat, NEW rnd \in Nat
    PROVE  /\ PassedOver(d, rnd) \in Nat
           /\ d = 0 \/ Rate = 0 => PassedOver(d, rnd) = 0
  <1>1. /\ 2 * d * Rate * rnd \in Nat /\ Second * Scale \in Nat \ {0}
        /\ 2 * Second * Scale = 2 * (Second * Scale)
    BY PortSpaceFacts
  <1>2. d = 0 \/ Rate = 0 => 2 * d * Rate * rnd = 0 BY PortSpaceFacts
  <1> DEFINE x == 2 * d * Rate * rnd
             y == Second * Scale
  <1> HIDE DEF x, y
  <1>3. \A n \in Nat, k \in Nat \ {0} :
           /\ (n + k) \div (2 * k) \in Nat
           /\ n = 0 => (n + k) \div (2 * k) = 0
    BY SMT
  <1>4. /\ x \in Nat /\ (d = 0 \/ Rate = 0 => x = 0)
        /\ y \in Nat \ {0}
    BY <1>1, <1>2 DEF x, y
  <1>5. PassedOver(d, rnd) = (x + y) \div (2 * y)
    BY <1>1 DEF x, y, PassedOver
  <1> QED BY <1>3, <1>4, <1>5

\* A thread's own range, and whose entries a step may change.
LEMMA OwnRanges ==
    ASSUME RangeInv, NEW t \in Threads
    PROVE  /\ pc[t] \in Binding /\ t \notin Pending => my_port[t] \in Ranges(t)
           /\ base_port[t] # 0 /\ pc[t] \in {"second", "scan", "punch"}
              => base_port[t] \in Ranges(t)
BY DEF RangeInv, RunShape, Ranges, Assigned

EntriesSame(b) ==
    /\ DOMAIN port_map' \ {b} = DOMAIN port_map \ {b}
    /\ \A x \in DOMAIN port_map \ {b} : port_map'[x] = port_map[x]

LEMMA MapEffect ==
    ASSUME RangeInv, NEW t \in Threads, Step(t)
    PROVE  port_map' = port_map \/ \E b \in Ranges(t) : EntriesSame(b)
  <1>1. CASE Assigning(t) /\ (Insert(t) \/ Store(t))
    <2>1. call[t] \in {"insert", "store"}
      BY <1>1 DEF Insert, Store, GotoCall
    <2>2. pc[t] \in Binding /\ t \notin Pending
      BY <2>1 DEF RangeInv, RunShape, Pending
    <2>3. my_port[t] \in Ranges(t) BY <2>2, OwnRanges
    <2>4. EntriesSame(my_port[t])
      <3>1. \/ port_map' = port_map
            \/ \E v : port_map' = Put(port_map, my_port[t], v)
            \/ \E v : port_map' = [port_map EXCEPT ![my_port[t]] = v]
        BY <1>1 DEF Insert, Store
      <3>2. CASE port_map' = port_map BY <3>2 DEF EntriesSame
      <3>3. ASSUME NEW v, port_map' = Put(port_map, my_port[t], v)
            PROVE  EntriesSame(my_port[t])
        BY <3>3 DEF Put, EntriesSame
      <3>4. ASSUME NEW v, port_map' = [port_map EXCEPT ![my_port[t]] = v]
            PROVE  EntriesSame(my_port[t])
        BY <3>4 DEF EntriesSame
      <3> QED BY <3>1, <3>2, <3>3, <3>4
    <2> QED BY <2>3, <2>4
  <1>2. CASE (\E rnd \in Randoms : OfBase(t, rnd)) /\ pc[t] \in {"second", "scan"}
    <2>1. base_port[t] \in Ranges(t) BY <1>2, OwnRanges DEF OfBase
    <2>2. port_map' = port_map
          \/ \E v : port_map' = [port_map EXCEPT ![base_port[t]] = v]
      BY <1>2 DEF OfBase, AssignNextFromBase, NextOfBase
    <2>3. ASSUME NEW v, port_map' = [port_map EXCEPT ![base_port[t]] = v]
          PROVE  EntriesSame(base_port[t])
      BY <2>3 DEF EntriesSame
    <2> QED BY <2>1, <2>2, <2>3
  <1>3. CASE Assigning(t) /\ ~(Insert(t) \/ Store(t))
    BY <1>3 DEF Assigning, AssignSteps, LockReset, SetToMin, FetchAgain, Find
  <1>4. CASE AssignNext(t) \/ UNCHANGED portVars
    BY <1>4 DEF AssignNext, portVars
  <1>5. \/ Assigning(t) \/ AssignNext(t) \/ UNCHANGED portVars
        \/ (\E rnd \in Randoms : OfBase(t, rnd)) /\ pc[t] \in {"second", "scan"}
    BY DEF Step, Begin, BindFirst, GetSecond, OfNewRange, BindSecond,
           SecondRegistered, ScanSocketBound, GetScan, BindScan, End, Goto
  <1> QED BY <1>1, <1>2, <1>3, <1>4, <1>5

\* The entries of the others' ranges are theirs.
LEMMA OthersMap ==
    ASSUME RangeInv, RunFits, ResetFits, NEW t \in Threads, Step(t),
           NEW u \in Threads \ {t}
    PROVE  \A b \in Ranges(u) :
              /\ b \in DOMAIN port_map' <=> b \in DOMAIN port_map
              /\ b \in DOMAIN port_map => port_map'[b] = port_map[b]
  <1>1. CASE port_map' = port_map BY <1>1
  <1>2. ASSUME NEW a \in Ranges(t), EntriesSame(a), NEW b \in Ranges(u)
        PROVE  /\ b \in DOMAIN port_map' <=> b \in DOMAIN port_map
               /\ b \in DOMAIN port_map => port_map'[b] = port_map[b]
    <2>1. a \in Nat /\ b \in Nat BY RangeTypes DEF RangeInv
    <2>2. Apart(a, b) BY DEF RangeInv, RangesApart
    <2>3. a # b BY <2>1, <2>2, Sizes DEF Apart
    <2> QED BY <1>2, <2>3 DEF EntriesSame
  <1> QED BY <1>1, <1>2, MapEffect

LEMMA OthersEntries ==
    ASSUME RangeInv, EntryInv, RunFits, ResetFits, NEW t \in Threads, Step(t),
           OthersSame(t), clock' = clock, NEW u \in Threads \ {t}
    PROVE  Entered(u)' /\ RunEntry(u)'
  <1>1. \A b \in Ranges(u) :
           /\ b \in DOMAIN port_map' <=> b \in DOMAIN port_map
           /\ b \in DOMAIN port_map => port_map'[b] = port_map[b]
    BY OthersMap
  <1>2. Entered(u)'
    <2>1. call[u] \in {"insert", "store"} \/ (pc[u] = "bind" /\ call[u] = "none")
          => my_port[u] \in Ranges(u)
      BY OwnRanges DEF RangeInv, RunShape, Binding, Pending
    <2> QED BY <1>1, <2>1 DEF EntryInv, Entered, OthersSame
  <1>3. RunEntry(u)'
    <2> DEFINE b == base_port[u]
    <2>1. /\ base_port'[u] = b /\ pc'[u] = pc[u]
          /\ second'[u] = second[u] /\ scanned'[u] = scanned[u]
          /\ made'[u] = made[u]
      BY DEF OthersSame
    <2>2. CASE b # 0 /\ ~CrossesTop(u) /\ pc[u] \in {"second", "scan"}
      <3>1. b \in Ranges(u) BY <2>2, OwnRanges
      <3>2. RunEntry(u) BY DEF EntryInv
      <3>3. b \in DOMAIN port_map BY <2>2, <3>2 DEF RunEntry
      <3>4. b \in DOMAIN port_map' /\ port_map'[b] = port_map[b]
        BY <1>1, <3>1, <3>3
      <3>5. pc[u] = "second" => port_map'[b].current_port = b + 1
        BY <2>2, <3>2, <3>4 DEF RunEntry
      <3>6. pc[u] = "scan" =>
               ScanEntry(b, port_map[b], second[u], scanned[u], made[u])
        BY <2>2, <3>2 DEF RunEntry
      <3>7. pc[u] = "scan" =>
               ScanEntry(base_port[u], port_map[base_port[u]], second[u],
                         scanned[u], made[u])'
        BY <2>1, <3>4, <3>6 DEF ScanEntry
      <3> QED BY <2>1, <2>2, <3>4, <3>5, <3>7 DEF RunEntry
    <2>3. CASE ~(b # 0 /\ ~CrossesTop(u) /\ pc[u] \in {"second", "scan"})
      BY <2>1, <2>3 DEF EntryInv, RunEntry, CrossesTop
    <2> QED BY <2>2, <2>3
  <1> QED BY <1>2, <1>3

\* The range of a run that does not reach over the last port.
LEMMA BaseFacts ==
    ASSUME RangeInv, RunFits, ResetFits, NEW t \in Threads, base_port[t] # 0,
           ~CrossesTop(t), pc[t] \in {"second", "scan", "punch"}
    PROVE  /\ base_port[t] \in Nat
           /\ MinPort <= base_port[t] /\ base_port[t] + Reserved <= PortSpace
           /\ Reserved \in Nat /\ PortSpace \in Nat /\ MinPort \in Nat
           /\ call[t] = "none"
  <1>1. base_port[t] \in Ranges(t) BY OwnRanges
  <1>2. base_port[t] \in Nat BY <1>1, RangeTypes DEF RangeInv
  <1>3. MinPort <= base_port[t] BY <1>1 DEF RangeInv, RangesBehind, Behind
  <1>4. call[t] = "none" BY DEF RangeInv, RunShape, Binding
  <1> QED BY <1>2, <1>3, <1>4, Sizes DEF CrossesTop

\* How many ports the simulated hosts have taken since the time of an entry.
Since(b, rnd) == PassedOver(clock - port_map[b].timestamp_ms, rnd)

LEMMA OffsetFacts ==
    ASSUME Times, RangeInv, RunFits, ResetFits, NEW b \in DOMAIN port_map,
           NEW rnd \in Randoms,
           Rate # 0 => clock - port_map[b].timestamp_ms <= Longest
    PROVE  \E e \in 0 .. Longest :
              /\ Simulated(port_map[b].timestamp_ms, rnd) % PortSpace
                    = PassedOver(e, rnd)
              /\ PassedOver(e, rnd) \in Nat
              /\ PassedOver(e, rnd) = Since(b, rnd)
              /\ Rate = 0 \/ port_map[b].timestamp_ms = clock
                    => PassedOver(e, rnd) = 0
  <1> DEFINE d == clock - port_map[b].timestamp_ms
             e == IF Rate = 0 THEN 0 ELSE d
  <1>1. rnd \in Nat BY PortAssumption
  <1>2. /\ clock \in Nat /\ port_map[b].timestamp_ms \in Nat
        /\ port_map[b].timestamp_ms <= clock
    BY EntryType, PortSpaceFacts DEF RangeInv, TypeOK, PortTypeOK, Times
  <1>3. d \in Nat /\ e \in Nat BY <1>2
  <1>4. e \in 0 .. Longest BY <1>2, <1>3 DEF RunFits
  <1>5. Simulated(port_map[b].timestamp_ms, rnd) = PassedOver(d, rnd)
    BY DEF Simulated, PassedOver
  <1>6. PassedOver(d, rnd) = PassedOver(e, rnd)
    <2>1. CASE Rate = 0 BY <1>1, <1>3, <2>1, PassedOverFacts
    <2>2. CASE Rate # 0 BY <2>2
    <2> QED BY <2>1, <2>2
  <1>7. PassedOver(e, rnd) \in Nat BY <1>1, <1>3, PassedOverFacts
  <1>8. PassedOver(e, rnd) < PortSpace
    <2>1. PassedOver(e, rnd) + PassedOver(e, rnd) + ScanRange + 2 <= Reserved
      BY <1>4 DEF RunFits
    <2> HIDE DEF e
    <2> QED BY <1>7, <2>1, Sizes
  <1>9. Rate = 0 \/ port_map[b].timestamp_ms = clock => PassedOver(e, rnd) = 0
    <2>1. Rate = 0 \/ port_map[b].timestamp_ms = clock => e = 0 BY <1>2
    <2> HIDE DEF e
    <2> QED BY <1>1, <1>3, <2>1, PassedOverFacts
  <1>11. PassedOver(e, rnd) = Since(b, rnd) BY <1>6 DEF Since
  <1> HIDE DEF d, e
  <1>10. PassedOver(e, rnd) % PortSpace = PassedOver(e, rnd)
    BY <1>7, <1>8, PortSpaceFacts
  <1> QED BY <1>4, <1>5, <1>6, <1>7, <1>9, <1>10, <1>11

\* What assign_next_from_base gives, off ports after the entry's, and what
\* becomes of the entry of b.
Follows(t, b, off) ==
    LET old == port_map[b].current_port
        port == old + off
    IN  /\ old \in Nat /\ off \in Nat
        /\ Rate = 0 \/ port_map[b].timestamp_ms = clock => off = 0
        /\ MinPort <= old /\ port < PortSpace => my_port'[t] = port
        /\ DOMAIN port_map' = DOMAIN port_map
        /\ port + 1 < PortSpace => port_map'[b].current_port = port + 1
        /\ Rate = 0 \/ port_map'[b].timestamp_ms = clock

LEMMA NextPort ==
    ASSUME Times, RangeInv, RunFits, ResetFits, NEW t \in Threads,
           NEW rnd \in Randoms, OfBase(t, rnd),
           NEW b, b = base_port[t], b \in DOMAIN port_map,
           Rate # 0 => clock - port_map[b].timestamp_ms <= Longest
    PROVE  \E e \in 0 .. Longest :
              /\ PassedOver(e, rnd) = Since(b, rnd)
              /\ Follows(t, b, PassedOver(e, rnd))
  <1>1. NextOfBase(t, b, Simulated(port_map[b].timestamp_ms, rnd) % PortSpace)
    BY DEF OfBase, AssignNextFromBase
  <1>2. PICK e \in 0 .. Longest :
           /\ Simulated(port_map[b].timestamp_ms, rnd) % PortSpace
                 = PassedOver(e, rnd)
           /\ PassedOver(e, rnd) \in Nat
           /\ PassedOver(e, rnd) = Since(b, rnd)
           /\ Rate = 0 \/ port_map[b].timestamp_ms = clock
                 => PassedOver(e, rnd) = 0
    BY OffsetFacts
  <1>3. NextOfBase(t, b, PassedOver(e, rnd)) BY <1>1, <1>2
  <1> DEFINE old == port_map[b].current_port
             off == PassedOver(e, rnd)
             time == IF Rate = 0 THEN port_map[b].timestamp_ms ELSE clock
             new == [current_port |-> Advance(old, off + 1),
                     timestamp_ms |-> time]
  <1>4. /\ old \in Nat /\ off \in Nat /\ MinPort \in Nat /\ PortSpace \in Nat
        /\ my_port \in [Threads -> PortNumbers]
        /\ port_map[b] = [current_port |-> old,
                          timestamp_ms |-> port_map[b].timestamp_ms]
    BY <1>2, EntryType, PortSpaceFacts
    DEF RangeInv, TypeOK, PortTypeOK, PortNumbers, PortData
  <1>5. /\ my_port' = [my_port EXCEPT ![t] = Lifted(Advance(old, off))]
        /\ port_map' = [port_map EXCEPT ![b] = new]
    BY <1>3 DEF NextOfBase
  <1> HIDE DEF off, old
  <1>6. my_port'[t] = Lifted(Advance(old, off)) BY <1>4, <1>5
  <1>7. DOMAIN port_map' = DOMAIN port_map /\ port_map'[b] = new BY <1>5
  <1>8. MinPort <= old /\ old + off < PortSpace => my_port'[t] = old + off
    <2> SUFFICES ASSUME MinPort <= old, old + off < PortSpace
                 PROVE  my_port'[t] = old + off
      OBVIOUS
    <2>1. Advance(old, off) = old + off BY <1>4, AdvanceFacts
    <2> QED BY <1>4, <1>6, <2>1 DEF Lifted
  <1>9. old + off + 1 < PortSpace
           => port_map'[b].current_port = old + off + 1
    <2> SUFFICES ASSUME old + off + 1 < PortSpace
                 PROVE  port_map'[b].current_port = old + off + 1
      OBVIOUS
    <2>1. Advance(old, off + 1) = old + off + 1 BY <1>4, AdvanceFacts
    <2> QED BY <1>7, <2>1
  <1>10. Rate = 0 \/ port_map'[b].timestamp_ms = clock BY <1>7
  <1> QED BY <1>2, <1>4, <1>7, <1>8, <1>9, <1>10 DEF old, off, Follows

\* assign_next enters the thread's own port.
LEMMA AssigningEntry ==
    ASSUME RangeInv, EntryInv, NEW t \in Threads, Assigning(t)
    PROVE  Entered(t)' /\ RunEntry(t)'
  <1>a. /\ UNCHANGED <<pc, base_port, second, scanned>>
        /\ PortTypeOK /\ call \in [Threads -> Calls] /\ RunShape(t) /\ Entered(t)
    BY DEF Assigning, runVars, RangeInv, TypeOK, PortTypeOK, EntryInv
  <1>b. call[t] # "none"
    BY DEF Assigning, AssignSteps, LockReset, SetToMin, FetchAgain, Find,
           Insert, Store, GotoCall
  <1>1. RunEntry(t)' BY <1>a, <1>b DEF RunEntry, RunShape
  <1>2. Entered(t)'
    <2>1. CASE LockReset(t)
      <3>1. call'[t] \in {"set", "refetch"}
        BY <1>a, <2>1 DEF LockReset, GotoCall
      <3> QED BY <3>1 DEF Entered
    <2>2. CASE SetToMin(t)
      <3>1. call'[t] = "refetch" BY <1>a, <2>2 DEF SetToMin, GotoCall
      <3> QED BY <3>1 DEF Entered
    <2>3. CASE FetchAgain(t)
      <3>1. call'[t] = "find" BY <1>a, <2>3 DEF FetchAgain, GotoCall
      <3> QED BY <3>1 DEF Entered
    <2>4. CASE Find(t)
      <3>1. /\ call'[t] = IF my_port[t] \in DOMAIN port_map THEN "store"
                          ELSE "insert"
            /\ UNCHANGED <<port_map, my_port>>
        BY <1>a, <2>4 DEF Find, GotoCall
      <3> QED BY <3>1 DEF Entered
    <2>5. CASE Insert(t)
      <3>1. call[t] = "insert" /\ call'[t] = "none" /\ my_port' = my_port
        BY <1>a, <2>5 DEF Insert, GotoCall
      <3>2. my_port[t] \notin DOMAIN port_map BY <1>a, <3>1 DEF Entered
      <3>3. port_map' = Put(port_map, my_port[t],
                            [current_port |-> Advance(my_port[t], 1),
                             timestamp_ms |-> clock])
        BY <2>5, <3>2 DEF Insert
      <3>4. /\ my_port[t] \in DOMAIN port_map'
            /\ port_map'[my_port[t]].current_port = Advance(my_port[t], 1)
        BY <3>3 DEF Put
      <3> QED BY <3>1, <3>4 DEF Entered, Advance
    <2>6. CASE Store(t)
      <3>1. call[t] = "store" /\ call'[t] = "none" /\ my_port' = my_port
        BY <1>a, <2>6 DEF Store, GotoCall
      <3>2. my_port[t] \in DOMAIN port_map BY <1>a, <3>1 DEF Entered
      <3>3. port_map' = [port_map EXCEPT
                            ![my_port[t]].current_port = Advance(my_port[t], 1)]
        BY <2>6 DEF Store
      <3>4. port_map[my_port[t]] \in PortData
        BY <1>a, <3>2 DEF PortTypeOK
      <3>5. /\ my_port[t] \in DOMAIN port_map'
            /\ port_map'[my_port[t]].current_port = Advance(my_port[t], 1)
        BY <3>2, <3>3, <3>4 DEF PortData
      <3> QED BY <3>1, <3>5 DEF Entered, Advance
    <2> QED BY <2>1, <2>2, <2>3, <2>4, <2>5, <2>6 DEF Assigning, AssignSteps
  <1> QED BY <1>1, <1>2

\* The helper's port follows the base port.
LEMMA SecondPort ==
    ASSUME RangeInv, EntryInv, RunFits, ResetFits, InTime, NEW t \in Threads,
           NEW rnd \in Randoms, OfBase(t, rnd),
           SecondRegistered(t, "second", my_port'[t], rnd),
           ~CrossesTop(t), NEW b, b = base_port[t]
    PROVE  /\ b \in DOMAIN port_map /\ b \in DOMAIN port_map' /\ b \in Nat
           /\ \E e \in 0 .. Longest, off \in Nat :
                 /\ off = PassedOver(e, rnd) /\ off = Since(b, rnd)
                 /\ b + 1 + off + ScanRange < PortSpace
                 /\ my_port'[t] = b + 1 + off
                 /\ port_map'[b].current_port = b + off + 2
                 /\ Rate = 0 \/ port_map'[b].timestamp_ms = clock
  <1>1. pc[t] = "second" /\ made[t] = 0 /\ base_port[t] # 0
    BY GotoFacts, FromBaseFrame DEF SecondRegistered, RangeInv, RunShape
  <1>2. /\ b \in Nat /\ MinPort <= b /\ b + Reserved <= PortSpace
        /\ Reserved \in Nat /\ PortSpace \in Nat /\ MinPort \in Nat
    BY <1>1, BaseFacts
  <1>3. b \in DOMAIN port_map /\ port_map[b].current_port = b + 1
    BY <1>1 DEF EntryInv, RunEntry
  <1>4. Rate # 0 => clock - port_map[b].timestamp_ms <= Longest
    BY <1>1 DEF InTime
  <1>5. PICK e \in 0 .. Longest :
           /\ PassedOver(e, rnd) = Since(b, rnd)
           /\ Follows(t, b, PassedOver(e, rnd))
    BY <1>3, <1>4, NextPort DEF EntryInv
  <1>6. PICK off \in Nat : off = PassedOver(e, rnd) BY <1>5 DEF Follows
  <1>7. off + off + ScanRange + 2 <= Reserved BY <1>6 DEF RunFits
  <1>8. ScanRange \in Nat \ {0} BY Sizes
  <1>9. /\ MinPort <= b + 1 /\ b + 1 + off < PortSpace
        /\ b + 1 + off + 1 < PortSpace /\ b + 1 + off + ScanRange < PortSpace
    BY <1>2, <1>7, <1>8
  <1>10. my_port'[t] = b + 1 + off BY <1>3, <1>5, <1>6, <1>9 DEF Follows
  <1>11. port_map'[b].current_port = b + 1 + off + 1
    BY <1>3, <1>5, <1>6, <1>9 DEF Follows
  <1>12. port_map'[b].current_port = b + off + 2 BY <1>2, <1>6, <1>11
  <1>13. /\ b \in DOMAIN port_map'
         /\ Rate = 0 \/ port_map'[b].timestamp_ms = clock
    BY <1>3, <1>5 DEF Follows
  <1> QED BY <1>2, <1>3, <1>5, <1>6, <1>9, <1>10, <1>12, <1>13

LEMMA SecondEntry ==
    ASSUME RangeInv, EntryInv, RunFits, ResetFits, InTime, NEW t \in Threads,
           NEW rnd \in Randoms, OfBase(t, rnd),
           SecondRegistered(t, "second", my_port'[t], rnd)
    PROVE  Entered(t)' /\ RunEntry(t)'
  <1>1. /\ pc[t] = "second" /\ pc'[t] = "scan"
        /\ UNCHANGED <<base_port, scanned, made>>
    BY GotoFacts DEF SecondRegistered
  <1>1a. second'[t] = my_port'[t] \/ second'[t] = 0
    <2>1. PICK p \in Bound(t, my_port'[t]) : second' = [second EXCEPT ![t] = p]
      BY DEF SecondRegistered
    <2> QED BY <2>1, BoundFacts DEF RangeInv, TypeOK
  <1>2. call[t] = "none" /\ UNCHANGED <<clock, call>> BY FromBaseFrame
  <1>3. scanned[t] = {} /\ made[t] = 0 BY <1>1 DEF RangeInv, RunShape
  <1>4. Entered(t)' BY <1>1, <1>2 DEF Entered
  <1>5. RunEntry(t)'
    <2>1. CASE CrossesTop(t) BY <1>1, <2>1 DEF RunEntry, CrossesTop
    <2>2. CASE ~CrossesTop(t)
      <3>1. PICK b : b = base_port[t] OBVIOUS
      <3>2. /\ b \in DOMAIN port_map' /\ b \in Nat
            /\ \E e \in 0 .. Longest, off \in Nat :
                  /\ off = PassedOver(e, rnd) /\ off = Since(b, rnd)
                  /\ b + 1 + off + ScanRange < PortSpace
                  /\ my_port'[t] = b + 1 + off
                  /\ port_map'[b].current_port = b + off + 2
                  /\ Rate = 0 \/ port_map'[b].timestamp_ms = clock
        BY <2>2, <3>1, SecondPort
      <3>3. PICK e \in 0 .. Longest, off \in Nat :
               /\ off = PassedOver(e, rnd)
               /\ my_port'[t] = b + 1 + off
               /\ port_map'[b].current_port = b + off + 2
        BY <3>2
      <3>4. /\ b + 1 + off \in b .. port_map'[b].current_port - 1
            /\ b < port_map'[b].current_port
        BY <3>2, <3>3
      <3>5. 0 < ScanRange BY Sizes
      <3>6. ScanEntry(b, port_map'[b], second'[t], {}, 0)
        BY <1>1a, <3>3, <3>4, <3>5 DEF ScanEntry
      <3>7. base_port'[t] = b /\ scanned'[t] = {} /\ made'[t] = 0
        BY <1>1, <1>3, <3>1, <3>3
      <3>8. ScanEntry(base_port[t], port_map[base_port[t]], second[t],
                      scanned[t], made[t])'
        BY <3>6, <3>7 DEF ScanEntry
      <3> QED BY <1>1, <3>2, <3>7, <3>8 DEF RunEntry
    <2> QED BY <2>1, <2>2
  <1> QED BY <1>4, <1>5

\* The next scan socket's port is inside the range, bound or not.
ScansNext(t, b, cur, n, off) ==
    /\ cur = port_map[b].current_port /\ n = made[t]
    /\ {second[t]} \ {0} \subseteq b .. cur - 1 /\ scanned[t] \subseteq b .. cur - 1
    /\ n < ScanRange /\ (n # 0 => off = 0) /\ (n = 0 => scanned[t] = {})
    /\ MinPort <= b /\ b < cur /\ cur + off < PortSpace
    /\ cur + off + 1 + ScanRange <= b + Reserved + n + 1
    /\ my_port'[t] = cur + off
    /\ \/ scanned'[t] = scanned[t] \cup {cur + off}
       \/ scanned'[t] = scanned[t]
    /\ made'[t] = n + 1
    /\ b \in DOMAIN port_map'
    /\ cur + off + 1 < PortSpace => port_map'[b].current_port = cur + off + 1
    /\ Rate = 0 \/ port_map'[b].timestamp_ms = clock

LEMMA ScanBoundFacts ==
    ASSUME RangeInv, NEW t \in Threads, NEW from, NEW port, NEW rnd,
           ScanSocketBound(t, from, port, rnd)
    PROVE  /\ \/ scanned'[t] = scanned[t] \cup ({port} \ {0})
              \/ scanned'[t] = scanned[t]
           /\ made'[t] = made[t] + 1
           /\ UNCHANGED <<base_port, first, second, T1, T2, helper_rnd>>
           /\ scan_time'[t] = clock
           /\ scan_rnd'[t] = IF made[t] = 0 THEN rnd ELSE scan_rnd[t]
           /\ pc'[t] = IF made[t] + 1 = ScanRange THEN "punch" ELSE "scan"
  <1> USE DEF RangeInv, TypeOK
  <1>1. PICK p \in Bound(t, port) :
           scanned' = [scanned EXCEPT ![t] = @ \cup ({p} \ {0})]
    BY DEF ScanSocketBound
  <1>2. scanned'[t] = scanned[t] \cup ({p} \ {0}) BY <1>1
  <1>3. \/ scanned'[t] = scanned[t] \cup ({port} \ {0})
        \/ scanned'[t] = scanned[t]
    BY <1>2, BoundFacts
  <1>4. /\ made'[t] = made[t] + 1
        /\ scan_time'[t] = clock
        /\ scan_rnd'[t] = IF made[t] = 0 THEN rnd ELSE scan_rnd[t]
    BY DEF ScanSocketBound
  <1>5. pc'[t] = IF made[t] + 1 = ScanRange THEN "punch" ELSE "scan"
    BY GotoFacts DEF ScanSocketBound
  <1> QED BY <1>3, <1>4, <1>5 DEF ScanSocketBound

LEMMA ScanSocketPort ==
    ASSUME RangeInv, EntryInv, RunFits, ResetFits, InTime, NEW t \in Threads,
           NEW rnd \in Randoms, OfBase(t, rnd),
           ScanSocketBound(t, "scan", my_port'[t], rnd),
           ~CrossesTop(t), NEW b, b = base_port[t]
    PROVE  \E cur \in Nat, n \in Nat, off \in Nat :
              off = Since(b, rnd) /\ ScansNext(t, b, cur, n, off)
  <1> DEFINE cur == port_map[b].current_port
             n == made[t]
  <1>1. /\ pc[t] = "scan" /\ base_port[t] # 0
        /\ \/ scanned'[t] = scanned[t] \cup ({my_port'[t]} \ {0})
           \/ scanned'[t] = scanned[t]
        /\ made'[t] = n + 1 /\ n \in Nat
    <2>1. pc[t] = "scan" BY GotoFacts DEF ScanSocketBound
    <2>2. base_port[t] # 0 BY FromBaseFrame
    <2>3. n \in Nat BY DEF RangeInv, TypeOK
    <2> QED BY <2>1, <2>2, <2>3, ScanBoundFacts
  <1>2. /\ b \in Nat /\ MinPort <= b /\ b + Reserved <= PortSpace
        /\ Reserved \in Nat /\ PortSpace \in Nat /\ MinPort \in Nat
        /\ ScanRange \in Nat
    BY <1>1, BaseFacts, Sizes
  <1>3. /\ b \in DOMAIN port_map
        /\ ScanEntry(b, port_map[b], second[t], scanned[t], made[t])
    BY <1>1 DEF EntryInv, RunEntry
  <1>4. Rate # 0 => clock - port_map[b].timestamp_ms <= Longest
    <2>1. CASE made[t] = 0 BY <1>1, <2>1 DEF InTime
    <2>2. CASE made[t] # 0
      <3>1. Rate # 0 => port_map[b].timestamp_ms = clock
        BY <1>3, <2>2 DEF ScanEntry
      <3>2. clock \in Nat BY DEF RangeInv, TypeOK, PortTypeOK
      <3> QED BY <3>1, <3>2 DEF RunFits
    <2> QED BY <2>1, <2>2
  <1>5. PICK e \in 0 .. Longest :
           /\ PassedOver(e, rnd) = Since(b, rnd)
           /\ Follows(t, b, PassedOver(e, rnd))
    BY <1>3, <1>4, NextPort DEF EntryInv
  <1>6. cur \in Nat /\ PassedOver(e, rnd) \in Nat BY <1>5 DEF Follows
  <1>7. PICK off \in Nat : off = PassedOver(e, rnd) BY <1>6
  <1> HIDE DEF cur, n
  <1>8. /\ {second[t]} \ {0} \subseteq b .. cur - 1
        /\ scanned[t] \subseteq b .. cur - 1
        /\ n < ScanRange /\ b < cur
        /\ n = 0 => scanned[t] = {}
    BY <1>3 DEF ScanEntry, cur, n
  <1>12. n # 0 => cur + ScanRange <= b + Reserved + n /\ off = 0
    <2> SUFFICES ASSUME n # 0
                 PROVE  cur + ScanRange <= b + Reserved + n /\ off = 0
      OBVIOUS
    <2>1. /\ cur + ScanRange <= b + Reserved + n
          /\ Rate = 0 \/ port_map[b].timestamp_ms = clock
      BY <1>3 DEF ScanEntry, cur, n
    <2> QED BY <1>5, <1>7, <2>1 DEF Follows
  <1>13. cur + off + 1 + ScanRange <= b + Reserved + n + 1
    <2>1. CASE n = 0
      <3>1. PICK d \in 0 .. Longest, rnd2 \in Randoms :
               cur = b + PassedOver(d, rnd2) + 2
        BY <1>3, <2>1 DEF ScanEntry, cur, n
      <3>2. d \in Nat /\ rnd2 \in Nat BY DrawFacts, WaitFacts
      <3>3. PICK m \in Nat : m = PassedOver(d, rnd2)
        BY <3>2, PassedOverFacts
      <3>4. m + off + ScanRange + 2 <= Reserved BY <1>7, <3>3 DEF RunFits
      <3> QED BY <1>2, <2>1, <3>1, <3>3, <3>4
    <2>2. CASE n # 0 BY <1>1, <1>2, <1>6, <1>12, <2>2
    <2> QED BY <2>1, <2>2
  <1>14. cur + off + 1 <= b + Reserved /\ cur + off < PortSpace /\ MinPort <= cur
    BY <1>1, <1>2, <1>6, <1>8, <1>13
  <1>15. my_port'[t] = cur + off BY <1>5, <1>7, <1>14 DEF Follows, cur
  <1>16. cur + off # 0
    <2>1. b < cur BY <1>8
    <2>2. cur \in Nat /\ b \in Nat BY <1>2, <1>6
    <2>3. \A x, y, z \in Nat : y < x => x + z # 0 OBVIOUS
    <2> QED BY <2>1, <2>2, <2>3, Zenon
  <1>17. \/ scanned'[t] = scanned[t] \cup {cur + off}
         \/ scanned'[t] = scanned[t]
    BY <1>1, <1>15, <1>16
  <1>18. /\ b \in DOMAIN port_map'
         /\ Rate = 0 \/ port_map'[b].timestamp_ms = clock
         /\ cur + off + 1 < PortSpace
               => port_map'[b].current_port = cur + off + 1
    BY <1>3, <1>5, <1>7 DEF Follows, cur
  <1>19. ScansNext(t, b, cur, n, off)
    BY <1>1, <1>2, <1>8, <1>12, <1>13, <1>14, <1>15, <1>17, <1>18
    DEF ScansNext, cur, n
  <1> QED BY <1>1, <1>5, <1>6, <1>7, <1>19

\* The ports of the scan sockets follow, and the last is inside the range.
LEMMA ScanSocketEntry ==
    ASSUME RangeInv, EntryInv, RunFits, ResetFits, InTime, NEW t \in Threads,
           NEW rnd \in Randoms, OfBase(t, rnd),
           ScanSocketBound(t, "scan", my_port'[t], rnd)
    PROVE  Entered(t)' /\ RunEntry(t)'
  <1>1. /\ pc[t] = "scan"
        /\ pc'[t] = IF made[t] + 1 = ScanRange THEN "punch" ELSE "scan"
        /\ UNCHANGED <<base_port, second>>
    BY GotoFacts, ScanBoundFacts DEF ScanSocketBound
  <1>2. base_port[t] # 0 /\ call[t] = "none" /\ UNCHANGED <<clock, call>>
    BY FromBaseFrame
  <1>3. Entered(t)' BY <1>1, <1>2 DEF Entered
  <1>4. CASE CrossesTop(t) BY <1>1, <1>3, <1>4 DEF RunEntry, CrossesTop
  <1>5. CASE ~CrossesTop(t)
    <2>1. PICK b : b = base_port[t] OBVIOUS
    <2>2. /\ b \in Nat /\ b + Reserved <= PortSpace
          /\ Reserved \in Nat /\ PortSpace \in Nat /\ ScanRange \in Nat
      BY <1>1, <1>2, <1>5, <2>1, BaseFacts, Sizes
    <2>3. PICK cur \in Nat, n \in Nat, off \in Nat :
             ScansNext(t, b, cur, n, off)
      BY <1>5, <2>1, ScanSocketPort
    <2>4. PICK port \in Nat : port = cur + off OBVIOUS
    <2>5. /\ port + 1 + ScanRange <= b + Reserved + n + 1
          /\ n < ScanRange /\ cur <= port /\ b < cur
      BY <2>3, <2>4 DEF ScansNext
    <2>6. scanned'[t] \subseteq b .. port /\ {second[t]} \ {0} \subseteq b .. port
      <3>1. /\ \/ scanned'[t] = scanned[t] \cup {port}
               \/ scanned'[t] = scanned[t]
            /\ {second[t]} \ {0} \subseteq b .. cur - 1
            /\ scanned[t] \subseteq b .. cur - 1
        BY <2>3, <2>4 DEF ScansNext
      <3>2. b .. cur - 1 \subseteq b .. port /\ port \in b .. port
        BY <2>2, <2>5
      <3> QED BY <3>1, <3>2
    <2>7. made[t] = n /\ made'[t] = n + 1 BY <2>3 DEF ScansNext
    <2>8. base_port'[t] = b /\ second'[t] = second[t] BY <1>1, <2>1
    <2>9. CASE n + 1 = ScanRange
      <3>1. pc'[t] = "punch" BY <1>1, <2>7, <2>9
      <3>2. b .. port \subseteq b .. b + Reserved - 1 BY <2>2, <2>5, <2>9
      <3> QED BY <1>3, <2>6, <2>8, <3>1, <3>2 DEF RunEntry
    <2>10. CASE n + 1 # ScanRange
      <3>1. pc'[t] = "scan" BY <1>1, <2>7, <2>10
      <3>2. port + 1 < PortSpace /\ n + 1 < ScanRange
        BY <2>2, <2>5, <2>10
      <3>3. /\ port_map'[b].current_port = port + 1
            /\ b \in DOMAIN port_map'
            /\ Rate = 0 \/ port_map'[b].timestamp_ms = clock
        BY <2>3, <2>4, <3>2 DEF ScansNext
      <3>4. port_map'[b].current_port - 1 = port BY <2>4, <3>3
      <3>6. ScanEntry(b, port_map'[b], second[t], scanned'[t], made'[t])
        <4>1. /\ {second[t]} \ {0} \subseteq b .. port_map'[b].current_port - 1
              /\ scanned'[t] \subseteq b .. port_map'[b].current_port - 1
          BY <2>6, <3>4
        <4>2. /\ made'[t] < ScanRange /\ made'[t] # 0
              /\ port_map'[b].current_port + ScanRange
                    <= b + Reserved + made'[t]
              /\ b < port_map'[b].current_port
          BY <2>2, <2>5, <2>7, <3>2, <3>3
        <4> QED BY <3>3, <4>1, <4>2 DEF ScanEntry
      <3>7. ScanEntry(base_port[t], port_map[base_port[t]], second[t],
                      scanned[t], made[t])'
        BY <1>2, <2>8, <3>6 DEF ScanEntry
      <3> QED BY <1>3, <2>8, <3>1, <3>3, <3>7 DEF RunEntry
    <2> QED BY <2>9, <2>10
  <1> QED BY <1>4, <1>5

LEMMA OwnEntry ==
    ASSUME RangeInv, EntryInv, RunFits, ResetFits, InTime, NEW t \in Threads,
           Step(t)
    PROVE  Entered(t)' /\ RunEntry(t)'
  <1>a. /\ pc \in [Threads -> Pcs] /\ call \in [Threads -> Calls]
        /\ base_port \in [Threads -> PortNumbers]
        /\ my_port[t] \in PortNumbers
        /\ RunShape(t) /\ Entered(t) /\ RunEntry(t)
    BY DEF RangeInv, TypeOK, PortTypeOK, EntryInv
  <1>1. ASSUME AssignNext(t), base_port'[t] = 0
        PROVE  Entered(t)' /\ RunEntry(t)'
    <2>1. call'[t] \in {"reset", "find"}
      BY <1>1, <1>a DEF AssignNext, GotoCall
    <2> QED BY <1>1, <2>1 DEF Entered, RunEntry
  <1>2. CASE Begin(t)
    <2>1. pc[t] = "idle" BY <1>2, GotoFacts DEF Begin
    <2>2. base_port'[t] = 0 BY <1>2, <1>a, <2>1 DEF Begin, RunShape
    <2> QED BY <1>1, <1>2, <2>2 DEF Begin
  <1>3. CASE Assigning(t) BY <1>3, AssigningEntry
  <1>4. CASE BindFirst(t)
    <2>1. /\ pc[t] = "bind" /\ pc'[t] = "second" /\ call[t] = "none"
          /\ UNCHANGED <<call, my_port, port_map>>
      BY <1>4, GotoFacts DEF BindFirst, portVars
    <2>1a. base_port'[t] = my_port[t] \/ base_port'[t] = 0
      <3>1. PICK p \in Bound(t, my_port[t]) :
               base_port' = [base_port EXCEPT ![t] = p]
        BY <1>4 DEF BindFirst
      <3> QED BY <1>a, <3>1, BoundFacts
    <2>2. Entered(t)' BY <2>1 DEF Entered
    <2>3. /\ my_port[t] \in DOMAIN port_map
          /\ port_map[my_port[t]].current_port = Advance(my_port[t], 1)
      BY <1>a, <2>1 DEF Entered
    <2>4. my_port[t] \in Nat /\ Reserved \in Nat /\ PortSpace \in Nat
          /\ Reserved > 1
      BY <1>a, PortSpaceFacts, Sizes DEF PortNumbers, RunFits
    <2>5. my_port[t] + Reserved <= PortSpace
          => Advance(my_port[t], 1) = my_port[t] + 1
      BY <2>4, AdvanceFacts
    <2>6. RunEntry(t)'
      <3>1. CASE base_port'[t] = 0 BY <3>1 DEF RunEntry
      <3>2. CASE base_port'[t] = my_port[t]
        <4>1. ~CrossesTop(t)' => my_port[t] + Reserved <= PortSpace
          BY <2>4, <3>2 DEF CrossesTop
        <4> QED BY <2>1, <2>3, <2>5, <3>2, <4>1 DEF RunEntry
      <3> QED BY <2>1a, <3>1, <3>2
    <2> QED BY <2>2, <2>6
  <1>5. CASE GetSecond(t)
    <2>1. CASE OfNewRange(t, "second", "bind2")
      BY <1>1, <2>1 DEF OfNewRange
    <2> QED BY <1>5, <2>1, SecondEntry DEF GetSecond
  <1>6. CASE BindSecond(t)
    <2>1. /\ pc[t] = "bind2" /\ pc'[t] = "scan" /\ call'[t] = "none"
          /\ base_port' = base_port
      BY <1>6, <1>a, GotoFacts DEF BindSecond, SecondRegistered, portVars
    <2> QED BY <1>a, <2>1 DEF RunShape, Binding, Entered, RunEntry
  <1>7. CASE GetScan(t)
    <2>1. CASE OfNewRange(t, "scan", "bind_scan")
      BY <1>1, <2>1 DEF OfNewRange
    <2> QED BY <1>7, <2>1, ScanSocketEntry DEF GetScan
  <1>8. CASE BindScan(t)
    <2>1. /\ pc[t] = "bind_scan" /\ pc'[t] # "bind" /\ call'[t] = "none"
          /\ base_port' = base_port
      BY <1>8, <1>a, GotoFacts DEF BindScan, ScanSocketBound, portVars
    <2> QED BY <1>a, <2>1 DEF RunShape, Binding, Entered, RunEntry
  <1>9. CASE End(t)
    <2>1. /\ pc[t] \notin Binding /\ pc'[t] = "idle" /\ base_port'[t] = 0
          /\ call' = call
      BY <1>9, <1>a DEF End, portVars, Binding
    <2>2. call'[t] = "none" BY <1>a, <2>1 DEF RunShape
    <2> QED BY <2>1, <2>2 DEF Entered, RunEntry
  <1> QED BY <1>2, <1>3, <1>4, <1>5, <1>6, <1>7, <1>8, <1>9 DEF Step

\* No entry is of the future.
LEMMA TimesStep ==
    ASSUME RangeInv, EntryInv, NEW t \in Threads, Step(t)
    PROVE  Times' /\ clock' = clock
  <1>a. /\ \A b \in DOMAIN port_map : /\ port_map[b] \in PortData
                                      /\ port_map[b].timestamp_ms <= clock
        /\ clock \in Nat
    BY DEF RangeInv, TypeOK, PortTypeOK, EntryInv, Times
  <1>1. CASE UNCHANGED <<clock, port_map>> BY <1>1 DEF EntryInv, Times
  <1>2. CASE Insert(t)
    <2>1. clock' = clock BY <1>2 DEF Insert
    <2>2. CASE my_port[t] \in DOMAIN port_map
      BY <1>2, <1>1, <2>1, <2>2 DEF Insert
    <2>3. CASE my_port[t] \notin DOMAIN port_map
      <3>1. port_map' = Put(port_map, my_port[t],
                            [current_port |-> Advance(my_port[t], 1),
                             timestamp_ms |-> clock])
        BY <1>2, <2>3 DEF Insert
      <3>2. \A b \in DOMAIN port_map' : port_map'[b].timestamp_ms <= clock
        BY <1>a, <3>1 DEF Put
      <3> QED BY <2>1, <3>2 DEF Times
    <2> QED BY <2>2, <2>3
  <1>3. CASE Store(t)
    <2>1. clock' = clock BY <1>3 DEF Store
    <2>2. port_map' = [port_map EXCEPT
                          ![my_port[t]].current_port = Advance(my_port[t], 1)]
      BY <1>3 DEF Store
    <2>3. \A b \in DOMAIN port_map' :
             port_map'[b].timestamp_ms = port_map[b].timestamp_ms
      BY <1>a, <2>2 DEF PortData
    <2> QED BY <1>a, <2>1, <2>2, <2>3 DEF Times
  <1>4. ASSUME NEW rnd \in Randoms, OfBase(t, rnd) PROVE Times' /\ clock' = clock
    <2>1. clock' = clock BY <1>4 DEF OfBase, AssignNextFromBase
    <2>2. PICK b : b = base_port[t] OBVIOUS
    <2>3. CASE port_map' = port_map BY <1>1, <2>1, <2>3
    <2>4. ASSUME NEW offset, NextOfBase(t, b, offset)
          PROVE  Times' /\ clock' = clock
      <3>2. PICK p : port_map' = [port_map EXCEPT ![b] =
               [current_port |-> p,
                timestamp_ms |-> IF Rate = 0 THEN @.timestamp_ms ELSE clock]]
        BY <2>4 DEF NextOfBase
      <3>3. \A x \in DOMAIN port_map' : port_map'[x].timestamp_ms <= clock
        BY <1>a, <3>2
      <3> QED BY <2>1, <3>3 DEF Times
    <2>5. port_map' = port_map \/ \E offset : NextOfBase(t, b, offset)
      BY <1>4, <2>2, Zenon DEF OfBase, AssignNextFromBase
    <2> QED BY <2>3, <2>4, <2>5
  <1>5. \/ Insert(t) \/ Store(t) \/ (\E rnd \in Randoms : OfBase(t, rnd))
        \/ UNCHANGED <<clock, port_map>>
    BY DEF Step, Begin, Assigning, AssignSteps, LockReset, SetToMin,
           FetchAgain, Find, BindFirst, GetSecond, OfNewRange, BindSecond,
           GetScan, BindScan, End, AssignNext, portVars
  <1> QED BY <1>1, <1>2, <1>3, <1>4, <1>5 DEF Insert, Store

\* Time passes, or nothing happens.
LEMMA EntryFrame ==
    ASSUME RangeInv, EntryInv, UNCHANGED <<port_map, call, my_port, runVars>>,
           clock' = clock \/ PassTime
    PROVE  EntryInv'
  <1>1. clock' \in Nat /\ clock \in Nat /\ clock <= clock'
    BY PortScanAssumption DEF PassTime, RangeInv, TypeOK, PortTypeOK
  <1>2. Times'
    <2>1. \A b \in DOMAIN port_map : port_map[b].timestamp_ms \in Nat
      BY DEF RangeInv, TypeOK, PortTypeOK, PortData
    <2> QED BY <1>1, <2>1 DEF EntryInv, Times
  <1>3. \A t \in Threads : Entered(t)' BY DEF EntryInv, Entered, runVars
  <1>4. ASSUME NEW t \in Threads PROVE RunEntry(t)'
    <2>1. RunEntry(t) BY DEF EntryInv
    <2>2. CASE clock' = clock
      BY <2>1, <2>2 DEF RunEntry, ScanEntry, CrossesTop, runVars
    <2>3. CASE PassTime
      <3>1. pc[t] = "scan" => made[t] = 0 BY <2>3 DEF PassTime, Waits
      <3> QED BY <2>1, <3>1 DEF RunEntry, ScanEntry, CrossesTop, runVars
    <2> QED BY <2>2, <2>3
  <1> QED BY <1>2, <1>3, <1>4 DEF EntryInv

LEMMA EntryInit == HInit => EntryInv
BY DEF HInit, Init, PortInit, Nothing, EntryInv, Times, Entered, RunEntry

LEMMA EntryNext ==
    RangeInv /\ EntryInv /\ Laps /\ InTime /\ [HNext]_hvars => EntryInv'
  <1> SUFFICES ASSUME RangeInv, EntryInv, Laps, InTime, [HNext]_hvars
               PROVE  EntryInv'
    OBVIOUS
  <1>1. CASE PassTime BY <1>1, EntryFrame DEF PassTime
  <1>2. ASSUME NEW t \in Threads, Step(t) PROVE EntryInv'
    <2>1. Times' /\ clock' = clock BY <1>2, TimesStep
    <2>2. OthersSame(t) BY <1>2, StepOthers DEF RangeInv
    <2>3. RunFits /\ ResetFits BY DEF Laps
    <2>4. Entered(t)' /\ RunEntry(t)' BY <1>2, <2>3, OwnEntry
    <2>5. \A u \in Threads \ {t} : Entered(u)' /\ RunEntry(u)'
      BY <1>2, <2>1, <2>2, <2>3, OthersEntries
    <2> QED BY <2>1, <2>4, <2>5 DEF EntryInv
  <1>3. CASE UNCHANGED hvars
    BY <1>3, EntryFrame DEF hvars, vars, portVars
  <1> QED BY <1>1, <1>2, <1>3 DEF HNext, Next

----------------------------------------------------------------------------
(* The ports are apart                                                     *)

\* What a thread is given is inside the ranges that it has.
LEMMA GivenInside ==
    ASSUME RangeInv, EntryInv, RunFits, ResetFits, NEW t \in Threads,
           ~CrossesTop(t), NEW p \in Given(t)
    PROVE  \E a \in Ranges(t) : a <= p /\ p < a + Reserved
  <1>1. /\ Reserved \in Nat \ {0}
        /\ RunShape(t) /\ RunEntry(t)
        /\ first[t] \in PortNumbers /\ second[t] \in PortNumbers
        /\ scanned[t] \subseteq PortNumbers
    BY Sizes DEF RangeInv, EntryInv, TypeOK
  <1>2. p \in Nat BY <1>1, PortSpaceFacts DEF Given, PortNumbers
  <1>3. CASE p \in Ranges(t)
    <2>1. p <= p /\ p < p + Reserved BY <1>1, <1>2
    <2> QED BY <1>3, <2>1
  <1>4. CASE p \notin Ranges(t)
    <2>1. /\ base_port[t] # 0 /\ pc[t] \in {"scan", "punch"}
          /\ p = second[t] \/ p \in scanned[t]
      BY <1>1, <1>4 DEF Given, Ranges, RunShape, Binding
    <2>2. base_port[t] \in Ranges(t) BY <2>1, OwnRanges
    <2>3. /\ base_port[t] \in Nat /\ base_port[t] + Reserved <= PortSpace
          /\ PortSpace \in Nat
      BY <2>1, BaseFacts
    <2>4. CASE pc[t] = "punch"
      <3>1. p \in base_port[t] .. base_port[t] + Reserved - 1
        BY <1>1, <2>1, <2>4 DEF RunEntry, Given
      <3>2. base_port[t] <= p /\ p < base_port[t] + Reserved
        BY <1>1, <1>2, <2>3, <3>1
      <3> QED BY <2>2, <3>2
    <2>5. CASE pc[t] = "scan"
      <3> DEFINE b == base_port[t]
                 e == port_map[b]
      <3>1. /\ b \in DOMAIN port_map
            /\ ScanEntry(b, e, second[t], scanned[t], made[t])
        BY <1>1, <2>1, <2>5 DEF RunEntry
      <3> HIDE DEF b
      <3>2. e.current_port \in Nat
        <4>1. e \in PortData BY <3>1 DEF RangeInv, TypeOK, PortTypeOK, e
        <4> QED BY <4>1, PortSpaceFacts DEF PortData, PortNumbers
      <3>3. b <= p /\ p <= e.current_port - 1
        <4>1. p # 0 BY DEF Given
        <4> QED BY <2>1, <3>1, <4>1 DEF ScanEntry
      <3> HIDE DEF e
      <3>4. e.current_port <= b + Reserved
        <4>1. CASE made[t] = 0
          <5>1. PICK d \in 0 .. Longest, rnd \in Randoms :
                   e.current_port = b + PassedOver(d, rnd) + 2
            BY <3>1, <4>1 DEF ScanEntry
          <5>2. d \in Nat /\ rnd \in Nat BY PortAssumption DEF RunFits
          <5>3. PICK off \in Nat : off = PassedOver(d, rnd)
            BY <5>2, PassedOverFacts
          <5>4. off + off + ScanRange + 2 <= Reserved BY <5>3 DEF RunFits
          <5> QED BY <2>3, <5>1, <5>3, <5>4, Sizes DEF b
        <4>2. CASE made[t] # 0
          <5>1. /\ e.current_port + ScanRange <= b + Reserved + made[t]
                /\ made[t] < ScanRange
            BY <3>1, <4>2 DEF ScanEntry
          <5>2. made[t] \in Nat BY DEF RangeInv, TypeOK
          <5> QED BY <2>3, <3>2, <5>1, <5>2, Sizes DEF b
        <4> QED BY <4>1, <4>2
      <3>5. p < b + Reserved BY <1>2, <2>3, <3>2, <3>3, <3>4, Sizes DEF b
      <3> QED BY <2>2, <3>3, <3>5 DEF b
    <2> QED BY <2>1, <2>4, <2>5
  <1> QED BY <1>3, <1>4

LEMMA ExclusiveByRanges ==
    RangeInv /\ EntryInv /\ RunFits /\ ResetFits => PortsExclusive
  <1> SUFFICES ASSUME RangeInv, EntryInv, RunFits, ResetFits,
                      NEW t \in Threads, NEW u \in Threads, t # u,
                      ~CrossesTop(t), ~CrossesTop(u),
                      NEW p \in Given(t), p \in Given(u)
               PROVE  FALSE
    BY DEF PortsExclusive
  <1>1. PICK a \in Ranges(t) : a <= p /\ p < a + Reserved BY GivenInside
  <1>2. PICK b \in Ranges(u) : b <= p /\ p < b + Reserved BY GivenInside
  <1>3. a \in Nat /\ b \in Nat BY RangeTypes DEF RangeInv
  <1>4. p \in Nat
    <2>1. p \in PortNumbers BY DEF Given, RangeInv, TypeOK
    <2> QED BY <2>1, PortSpaceFacts DEF PortNumbers
  <1>5. Apart(a, b) BY DEF RangeInv, RangesApart
  <1> QED BY <1>1, <1>2, <1>3, <1>4, <1>5, Sizes DEF Apart

\* Whatever the number of threads, and however their accesses to the shared
\* counter, its reset and the map are interleaved, no two runs at the same
\* time are given a port twice (port_manager.h:67-133, PortsExclusive), if
\*   - a run's range has room for its ports and for those of the simulated
\*     hosts (RunFits, InTime): the code asks for no other range when one is
\*     used up;
\*   - the first ports of the counter have room for one range of every
\*     thread (ResetFits): a thread that finds the counter below the minimum
\*     moves it on before it waits for the mutex; and
\*   - no run lasts for a whole lap of the counter (NoLap): the code keeps
\*     nothing of which ranges are in use.
THEOREM PortsStayApart ==
    ASSUME RunFits, ResetFits
    PROVE  HSpec /\ [](NoLap /\ InTime) => []PortsExclusive
  <1>1. HInit => RangeInv /\ EntryInv BY RangeInit, EntryInit
  <1>2. RangeInv /\ EntryInv /\ NoLap /\ NoLap' /\ InTime /\ [HNext]_hvars
        => (RangeInv /\ EntryInv)'
    BY RangeNext, EntryNext DEF Laps
  <1>3. RangeInv /\ EntryInv => PortsExclusive BY ExclusiveByRanges
  <1> QED BY <1>1, <1>2, <1>3, PTL DEF HSpec

----------------------------------------------------------------------------
(* The prediction                                                          *)

\* No base port is taken a second time: the code would keep its old time.
NoReuse == \A t \in Threads : call[t] # "store"

\* How long a run waits for its helper, and then for its scan sockets.
Soon ==
    \A t \in Threads : base_port[t] # 0 =>
        /\ pc[t] = "second" => clock - T1[t] <= Longest
        /\ pc[t] = "scan" /\ made[t] = 0 => clock - T2[t] <= Longest

\* Neither the ports nor the times overflow; a NAT that is so busy that the
\* pace of a second leads out of half the scan range is not taken as
\* sequential; and half the scan range has room for the drift, and for the
\* rounding, which counts more the further the partner looks ahead.  With
\* 1000, 250 and 50 for Second, NearPorts and ScanRange, Reach can be 5 and
\* Drift 17.
PredictionFits ==
    /\ PortSpace <= IntLimit
    /\ Longest + Slack + Roundtrip + 1 < TimeSpace
    /\ 2 * NearPorts <= Second
    /\ Drift + 2 <= ScanRange \div 2
    /\ 2 * Drift + 3 * Reach <= 2 * (ScanRange - ScanRange \div 2)

\* An entry has the time of the last socket that the server has seen.
Stamped(t) ==
    /\ pc[t] = "bind" /\ call[t] = "none"
          => port_map[my_port[t]].timestamp_ms = clock
    /\ base_port[t] # 0 =>
          /\ pc[t] \in {"second", "scan"} => base_port[t] \in DOMAIN port_map
          /\ pc[t] = "second" => port_map[base_port[t]].timestamp_ms = T1[t]
          /\ pc[t] = "scan" /\ made[t] = 0 =>
                Rate = 0 \/ port_map[base_port[t]].timestamp_ms = T2[t]

\* The helper's port, and the first scan socket's.
Spaced(t) ==
    \E d \in 0 .. Longest :
        /\ d >= Second /\ T2[t] = T1[t] + d
        /\ helper_rnd[t] \in Randoms
        /\ second[t] = base_port[t] + 1 + PassedOver(d, helper_rnd[t])
FirstScan(t, e) == second[t] + 1 + PassedOver(e, scan_rnd[t])

\* A bind has failed, or the scan sockets' ports are in a row from s.
InRow(t, s) ==
    \/ Cardinality(scanned[t]) < made[t]
    \/ scanned[t] = s .. s + made[t] - 1

Planned(t) ==
    base_port[t] # 0 /\ second[t] # 0 /\ ~CrossesTop(t) =>
        /\ pc[t] \in {"scan", "punch"} => Spaced(t)
        /\ pc[t] = "scan" /\ made[t] = 0 =>
              /\ port_map[base_port[t]].current_port = second[t] + 1
              /\ T2[t] <= clock
        /\ pc[t] = "scan" /\ made[t] # 0 =>
              \E e \in 0 .. Longest :
                  /\ scan_time[t] = T2[t] + e /\ scan_time[t] = clock
                  /\ scan_rnd[t] \in Randoms
                  /\ InRow(t, FirstScan(t, e))
                  /\ \/ Cardinality(scanned[t]) < made[t]
                     \/ port_map[base_port[t]].current_port
                           = FirstScan(t, e) + made[t]
        /\ pc[t] = "punch" =>
              /\ made[t] = ScanRange
              /\ \E e \in 0 .. Longest :
                    /\ scan_time[t] = T2[t] + e
                    /\ scan_rnd[t] \in Randoms
                    /\ InRow(t, FirstScan(t, e))

PlanInv == \A t \in Threads : Stamped(t) /\ Planned(t)

LEMMA PlannedInTime ==
    ASSUME PlanInv, Soon, Longest \in Nat
    PROVE  InTime
BY DEF PlanInv, Stamped, Soon, InTime

LEMMA OthersTimes ==
    ASSUME TypeOK, NEW t \in Threads, Step(t), NEW u \in Threads \ {t}
    PROVE  /\ T1'[u] = T1[u] /\ T2'[u] = T2[u] /\ scan_time'[u] = scan_time[u]
           /\ helper_rnd'[u] = helper_rnd[u] /\ scan_rnd'[u] = scan_rnd[u]
  <1> USE DEF TypeOK
  <1>1. CASE Begin(t) BY <1>1 DEF Begin
  <1>2. CASE Assigning(t) BY <1>2 DEF Assigning, runVars
  <1>3. CASE BindFirst(t) BY <1>3 DEF BindFirst
  <1>4. \A from, to : OfNewRange(t, from, to) =>
           UNCHANGED <<T1, T2, scan_time, helper_rnd, scan_rnd>>
    BY DEF OfNewRange
  <1>5. \A from, port, rnd : SecondRegistered(t, from, port, rnd) =>
           /\ T2'[u] = T2[u] /\ helper_rnd'[u] = helper_rnd[u]
           /\ UNCHANGED <<T1, scan_time, scan_rnd>>
    BY DEF SecondRegistered
  <1>6. \A from, port, rnd : ScanSocketBound(t, from, port, rnd) =>
           /\ scan_time'[u] = scan_time[u] /\ scan_rnd'[u] = scan_rnd[u]
           /\ UNCHANGED <<T1, T2, helper_rnd>>
    BY DEF ScanSocketBound
  <1>7. CASE GetSecond(t) \/ BindSecond(t)
    BY <1>4, <1>5, <1>7 DEF GetSecond, BindSecond
  <1>8. CASE GetScan(t) \/ BindScan(t)
    BY <1>4, <1>6, <1>8 DEF GetScan, BindScan
  <1>9. CASE End(t) BY <1>9 DEF End
  <1> QED BY <1>1, <1>2, <1>3, <1>7, <1>8, <1>9 DEF Step

LEMMA OthersPlanned ==
    ASSUME RangeInv, EntryInv, PlanInv, RunFits, ResetFits,
           NEW t \in Threads, Step(t), NEW u \in Threads \ {t}
    PROVE  Stamped(u)' /\ Planned(u)'
  <1>1. /\ T1'[u] = T1[u] /\ T2'[u] = T2[u] /\ scan_time'[u] = scan_time[u]
        /\ helper_rnd'[u] = helper_rnd[u] /\ scan_rnd'[u] = scan_rnd[u]
        /\ clock' = clock
    BY OthersTimes, TimesStep DEF RangeInv
  <1>2. /\ pc'[u] = pc[u] /\ call'[u] = call[u] /\ my_port'[u] = my_port[u]
        /\ base_port'[u] = base_port[u] /\ first'[u] = first[u]
        /\ second'[u] = second[u] /\ scanned'[u] = scanned[u]
        /\ made'[u] = made[u]
    BY StepOthers DEF OthersSame, RangeInv
  <1>3. Stamped(u) /\ Planned(u) /\ Entered(u) BY DEF PlanInv, EntryInv
  <1>4. \A b \in Ranges(u) :
           b \in DOMAIN port_map
              => b \in DOMAIN port_map' /\ port_map'[b] = port_map[b]
    BY OthersMap
  <1>5. CASE pc[u] = "bind" /\ call[u] = "none"
    <2>1. my_port[u] \in Ranges(u) /\ base_port[u] = 0
      BY <1>5, OwnRanges DEF Pending, Binding, RangeInv, RunShape
    <2>2. my_port[u] \in DOMAIN port_map BY <1>3, <1>5 DEF Entered
    <2> QED BY <1>1, <1>2, <1>3, <1>4, <1>5, <2>1, <2>2 DEF Stamped, Planned
  <1>6. CASE base_port[u] # 0 /\ pc[u] \in {"second", "scan"}
    <2>1. PICK b : b = base_port[u] OBVIOUS
    <2>2. b \in Ranges(u) BY <1>6, <2>1, OwnRanges
    <2>3. b \in DOMAIN port_map BY <1>3, <1>6, <2>1 DEF Stamped
    <2>4. b \in DOMAIN port_map' /\ port_map'[b] = port_map[b]
      BY <1>4, <2>2, <2>3
    <2>5. base_port'[u] = b BY <1>2, <2>1
    <2>6. Stamped(u)' BY <1>1, <1>2, <1>3, <1>6, <2>1, <2>4, <2>5 DEF Stamped
    <2>7. Planned(u)'
      BY <1>1, <1>2, <1>3, <1>6, <2>1, <2>4, <2>5
      DEF Planned, Spaced, FirstScan, InRow, CrossesTop
    <2> QED BY <2>6, <2>7
  <1>7. CASE /\ ~(pc[u] = "bind" /\ call[u] = "none")
             /\ ~(base_port[u] # 0 /\ pc[u] \in {"second", "scan"})
    BY <1>1, <1>2, <1>3, <1>7
    DEF Stamped, Planned, Spaced, FirstScan, InRow, CrossesTop
  <1> QED BY <1>5, <1>6, <1>7

\* assign_next makes a new entry, of this time.
LEMMA AssigningPlanned ==
    ASSUME RangeInv, EntryInv, PlanInv, NoReuse, NEW t \in Threads, Assigning(t)
    PROVE  Stamped(t)' /\ Planned(t)'
  <1>1. /\ UNCHANGED <<pc, base_port, second, scanned>>
        /\ call[t] # "none" /\ call[t] # "store" /\ base_port[t] = 0
        /\ call \in [Threads -> Calls] /\ Entered(t) /\ clock' = clock
    BY DEF Assigning, runVars, RangeInv, TypeOK, PortTypeOK, EntryInv, RunShape,
           NoReuse, AssignSteps, LockReset, SetToMin, FetchAgain, Find, Insert,
           Store, GotoCall
  <1>2. call'[t] = "none" => port_map'[my_port'[t]].timestamp_ms = clock
    <2>1. CASE Insert(t)
      <3>1. my_port[t] \notin DOMAIN port_map /\ my_port' = my_port
        BY <1>1, <2>1 DEF Insert, GotoCall, Entered
      <3>2. port_map' = Put(port_map, my_port[t],
                            [current_port |-> Advance(my_port[t], 1),
                             timestamp_ms |-> clock])
        BY <2>1, <3>1 DEF Insert
      <3>3. port_map'[my_port[t]].timestamp_ms = clock BY <3>2 DEF Put
      <3> QED BY <3>1, <3>3
    <2>2. CASE ~Insert(t)
      BY <1>1, <2>2 DEF Assigning, AssignSteps, LockReset, SetToMin, FetchAgain,
                        Find, Store, GotoCall
    <2> QED BY <2>1, <2>2
  <1> QED BY <1>1, <1>2 DEF Stamped, Planned

LEMMA SecondPlanned ==
    ASSUME RangeInv, EntryInv, PlanInv, RunFits, ResetFits, Soon,
           NEW t \in Threads, clock >= T1[t] + Second,
           NEW rnd \in Randoms, OfBase(t, rnd),
           SecondRegistered(t, "second", my_port'[t], rnd)
    PROVE  Stamped(t)' /\ Planned(t)'
  <1>1. /\ pc[t] = "second" /\ pc'[t] = "scan"
        /\ UNCHANGED <<base_port, scanned, made, T1>>
        /\ T2'[t] = clock /\ helper_rnd'[t] = rnd
        /\ T1[t] \in Nat /\ clock \in Nat
    BY GotoFacts DEF SecondRegistered, RangeInv, TypeOK, PortTypeOK
  <1>1a. second'[t] = my_port'[t] \/ second'[t] = 0
    <2>1. PICK p \in Bound(t, my_port'[t]) : second' = [second EXCEPT ![t] = p]
      BY DEF SecondRegistered
    <2> QED BY <2>1, BoundFacts DEF RangeInv, TypeOK
  <1>2. /\ base_port[t] # 0 /\ UNCHANGED <<clock, call>>
        /\ made[t] = 0
    BY <1>1, FromBaseFrame DEF RangeInv, RunShape
  <1>3. PICK b : b = base_port[t] OBVIOUS
  <1>4. b \in DOMAIN port_map /\ port_map[b].timestamp_ms = T1[t]
    BY <1>1, <1>2, <1>3 DEF PlanInv, Stamped
  <1>5. InTime BY PlannedInTime DEF RunFits
  <1>6. Stamped(t)'
    <2>1. DOMAIN port_map' = DOMAIN port_map
          /\ (Rate = 0 \/ port_map'[b].timestamp_ms = clock)
      <3>1. Rate # 0 => clock - port_map[b].timestamp_ms <= Longest
        BY <1>1, <1>2, <1>3, <1>5 DEF InTime
      <3> QED BY <1>3, <1>4, <3>1, NextPort DEF EntryInv, Follows
    <2> QED BY <1>1, <1>2, <1>3, <1>4, <2>1 DEF Stamped
  <1>7. Planned(t)'
    <2>1. CASE CrossesTop(t) BY <1>1, <2>1 DEF Planned, CrossesTop
    <2>2. CASE second'[t] = 0 BY <2>2 DEF Planned
    <2>3. CASE ~CrossesTop(t) /\ second'[t] # 0
      <3>1. b \in Nat BY <1>3, <1>5, <2>3, SecondPort
      <3>2. PICK e \in 0 .. Longest, off \in Nat :
               /\ off = PassedOver(e, rnd) /\ off = Since(b, rnd)
               /\ b + 1 + off + ScanRange < PortSpace
               /\ my_port'[t] = b + 1 + off
               /\ port_map'[b].current_port = b + off + 2
               /\ Rate = 0 \/ port_map'[b].timestamp_ms = clock
        BY <1>3, <1>5, <2>3, SecondPort
      <3>3. PICK d \in 0 .. Longest : d = clock - T1[t] /\ d >= Second
        <4>1. clock - T1[t] <= Longest BY <1>1, <1>2 DEF Soon
        <4> QED BY <1>1, <4>1, PortSpaceFacts DEF RunFits
      <3>4. off = PassedOver(d, rnd) BY <1>4, <3>2, <3>3 DEF Since
      <3>5. clock = T1[t] + d BY <1>1, <3>3
      <3>6. /\ base_port'[t] = b /\ second'[t] = b + 1 + off
            /\ T2'[t] = clock /\ T1'[t] = T1[t] /\ made'[t] = 0
            /\ clock' = clock
        BY <1>1, <1>1a, <1>2, <1>3, <2>3, <3>2
      <3>7. Spaced(t)' BY <1>1, <3>3, <3>4, <3>5, <3>6 DEF Spaced
      <3>8. port_map'[b].current_port = second'[t] + 1
        BY <3>1, <3>2, <3>6
      <3> QED BY <1>1, <3>6, <3>7, <3>8 DEF Planned
    <2> QED BY <2>1, <2>2, <2>3
  <1> QED BY <1>6, <1>7

\* A socket whose bind has failed does not add to the ports.
LEMMA MoreSockets ==
    ASSUME NEW S, IsFiniteSet(S), NEW p, NEW n \in Nat, Cardinality(S) < n
    PROVE  Cardinality(S) < n + 1 /\ Cardinality(S \cup {p}) < n + 1
  <1>1. Cardinality(S) \in Nat BY FS_CardinalityType
  <1>2. CASE p \in S
    <2>1. S \cup {p} = S BY <1>2
    <2> QED BY <1>1, <2>1
  <1>3. CASE p \notin S
    <2>1. Cardinality(S \cup {p}) = Cardinality(S) + 1 BY <1>3, FS_AddElement
    <2> QED BY <1>1, <2>1
  <1> QED BY <1>2, <1>3

\* The first scan socket's port, ...
LEMMA FirstScanPort ==
    ASSUME RangeInv, EntryInv, PlanInv, RunFits, ResetFits, Soon,
           NEW t \in Threads, pc[t] = "scan", made[t] = 0, base_port[t] # 0,
           second[t] # 0, ~CrossesTop(t), NEW rnd \in Randoms,
           NEW b, b = base_port[t], NEW off \in Nat, off = Since(b, rnd)
    PROVE  \E e \in 0 .. Longest :
              /\ clock = T2[t] + e
              /\ port_map[b].current_port + off = second[t] + 1 + PassedOver(e, rnd)
  <1>1. /\ port_map[b].current_port = second[t] + 1 /\ T2[t] <= clock
        /\ b \in DOMAIN port_map
    BY DEF PlanInv, Planned, Stamped
  <1>2. clock \in Nat /\ T2[t] \in Nat /\ second[t] \in Nat /\ rnd \in Nat
    BY DrawFacts, PortSpaceFacts DEF RangeInv, TypeOK, PortTypeOK, PortNumbers
  <1>3. clock - T2[t] <= Longest BY DEF Soon
  <1>4. PICK e \in 0 .. Longest : e = clock - T2[t]
    BY <1>1, <1>2, <1>3 DEF RunFits
  <1>5. off = PassedOver(e, rnd)
    <2>1. CASE Rate = 0
      <3>1. e \in Nat BY <1>1, <1>2, <1>4
      <3>2. off = PassedOver(clock - port_map[b].timestamp_ms, rnd) BY DEF Since
      <3>3. PassedOver(e, rnd) = 0 BY <1>2, <2>1, <3>1, PassedOverFacts
      <3>4. /\ port_map[b].timestamp_ms \in Nat
            /\ port_map[b].timestamp_ms <= clock
        BY <1>1 DEF EntryInv, Times, RangeInv, TypeOK, PortTypeOK, PortData
      <3>5. PICK x \in Nat : x = clock - port_map[b].timestamp_ms
        BY <1>2, <3>4
      <3>6. PassedOver(x, rnd) = 0 BY <1>2, <2>1, PassedOverFacts
      <3> QED BY <3>2, <3>3, <3>5, <3>6
    <2>2. CASE Rate # 0
      <3>1. port_map[b].timestamp_ms = T2[t] BY <2>2 DEF PlanInv, Stamped
      <3> QED BY <1>4, <3>1 DEF Since
    <2> QED BY <2>1, <2>2
  <1>6. clock = T2[t] + e BY <1>2, <1>4
  <1> QED BY <1>1, <1>5, <1>6

\* ... and the others' in a row after it, if all are bound.
LEMMA ScanSocketPlanned ==
    ASSUME RangeInv, EntryInv, PlanInv, RunFits, ResetFits, Soon,
           NEW t \in Threads, NEW rnd \in Randoms, OfBase(t, rnd),
           ScanSocketBound(t, "scan", my_port'[t], rnd)
    PROVE  Stamped(t)' /\ Planned(t)'
  <1>1. pc[t] = "scan" BY GotoFacts DEF ScanSocketBound
  <1>1a. /\ UNCHANGED <<base_port, second, T1, T2, helper_rnd>>
         /\ made'[t] = made[t] + 1
         /\ scan_time'[t] = clock
         /\ scan_rnd'[t] = IF made[t] = 0 THEN rnd ELSE scan_rnd[t]
         /\ pc'[t] = IF made[t] + 1 = ScanRange THEN "punch" ELSE "scan"
    BY ScanBoundFacts
  <1>1b. clock \in Nat /\ T2[t] \in Nat /\ second[t] \in Nat /\ made[t] \in Nat
    BY PortSpaceFacts DEF RangeInv, TypeOK, PortTypeOK, PortNumbers
  <1>2. base_port[t] # 0 /\ UNCHANGED <<clock, call>> BY FromBaseFrame
  <1>3. PICK b : b = base_port[t] OBVIOUS
  <1>4. b \in DOMAIN port_map BY <1>1, <1>2, <1>3 DEF PlanInv, Stamped
  <1>5. InTime BY PlannedInTime DEF RunFits
  <1>6. Stamped(t)'
    <2>1. DOMAIN port_map' = DOMAIN port_map
      BY <1>3, <1>4 DEF OfBase, AssignNextFromBase, NextOfBase
    <2> QED BY <1>1a, <1>1b, <1>3, <1>4, <2>1 DEF Stamped
  <1>7. Planned(t)'
    <2>1. CASE CrossesTop(t) BY <1>1a, <2>1 DEF Planned, CrossesTop
    <2>2. CASE second[t] = 0 BY <1>1a, <2>2 DEF Planned
    <2>3. CASE ~CrossesTop(t) /\ second[t] # 0
      <3>1. PICK cur \in Nat, n \in Nat, off \in Nat :
               off = Since(b, rnd) /\ ScansNext(t, b, cur, n, off)
        BY <1>3, <1>5, <2>3, ScanSocketPort
      <3>2. PICK port \in Nat : port = cur + off OBVIOUS
      <3>3. /\ cur = port_map[b].current_port /\ n = made[t] /\ made'[t] = n + 1
            /\ \/ scanned'[t] = scanned[t] \cup {port}
               \/ scanned'[t] = scanned[t]
            /\ n < ScanRange /\ (n = 0 => scanned[t] = {})
        BY <3>1, <3>2 DEF ScansNext
      <3>b. b \in Nat /\ b + Reserved <= PortSpace /\ PortSpace \in Nat
            /\ Reserved \in Nat /\ ScanRange \in Nat
        BY <1>1, <1>2, <1>3, <2>3, BaseFacts, Sizes
      <3>c. IsFiniteSet(scanned[t])
        <4>1. scanned[t] \subseteq b .. cur - 1 BY <3>1 DEF ScansNext
        <4>2. b \in Int /\ cur - 1 \in Int BY <3>b
        <4>3. IsFiniteSet(b .. cur - 1) BY <4>2, FS_Interval
        <4> QED BY <4>1, <4>3, FS_Subset
      <3>4. PICK e \in 0 .. Longest :
               /\ clock = T2[t] + e
               /\ scan_rnd'[t] \in Randoms
               /\ \/ Cardinality(scanned'[t]) < n + 1
                  \/ /\ port = second[t] + 1 + PassedOver(e, scan_rnd'[t]) + n
                     /\ scanned'[t] = port - n .. port
        <4>1. CASE n = 0
          <5>1. PICK e \in 0 .. Longest :
                   /\ clock = T2[t] + e
                   /\ cur + off = second[t] + 1 + PassedOver(e, rnd)
            <6>1. /\ pc[t] = "scan" /\ made[t] = 0 /\ base_port[t] # 0
                  /\ second[t] # 0 /\ ~CrossesTop(t) /\ b = base_port[t]
                  /\ off \in Nat /\ off = Since(b, rnd)
              BY <1>1, <1>2, <1>3, <2>3, <3>1, <3>3, <4>1
            <6>2. \E e \in 0 .. Longest :
                     /\ clock = T2[t] + e
                     /\ port_map[b].current_port + off
                           = second[t] + 1 + PassedOver(e, rnd)
              BY <6>1, FirstScanPort
            <6> QED BY <3>3, <6>2
          <5>2. scan_rnd'[t] = rnd BY <1>1a, <3>3, <4>1
          <5>3. port = second[t] + 1 + PassedOver(e, rnd) + n
            BY <3>2, <4>1, <5>1
          <5>4. Cardinality({}) < n + 1 BY <4>1, FS_EmptySet
          <5>5. {port} = port - n .. port BY <4>1
          <5> QED BY <3>3, <4>1, <5>1, <5>2, <5>3, <5>4, <5>5
        <4>2. CASE n # 0
          <5>1. PICK e \in 0 .. Longest :
                   /\ scan_time[t] = T2[t] + e /\ scan_time[t] = clock
                   /\ scan_rnd[t] \in Randoms
                   /\ InRow(t, FirstScan(t, e))
                   /\ \/ Cardinality(scanned[t]) < n
                      \/ cur = FirstScan(t, e) + n
            BY <1>1, <1>2, <1>3, <2>3, <3>3, <4>2 DEF PlanInv, Planned
          <5>2. port = cur /\ scan_rnd'[t] = scan_rnd[t]
            BY <1>1a, <3>1, <3>2, <3>3, <4>2 DEF ScansNext
          <5>3. CASE Cardinality(scanned[t]) < n
            BY <1>1b, <3>3, <3>c, <5>1, <5>2, <5>3, MoreSockets
          <5>4. CASE /\ ~(Cardinality(scanned[t]) < n)
                     /\ cur = FirstScan(t, e) + n
            <6>1. e \in Nat /\ scan_rnd[t] \in Nat
              BY <5>1, DrawFacts, WaitFacts
            <6>2. PICK k \in Nat : k = PassedOver(e, scan_rnd[t])
              BY <6>1, PassedOverFacts
            <6>3. PICK s \in Nat : s = second[t] + 1 + k BY <1>1b, <6>2
            <6>4. FirstScan(t, e) = s BY <6>2, <6>3 DEF FirstScan
            <6>5. scanned[t] = s .. s + n - 1
              BY <3>3, <5>1, <5>4, <6>4 DEF InRow
            <6>6. Cardinality(scanned[t]) = n
              <7>1. s \in Int /\ s + n - 1 \in Int /\ s <= s + n - 1 BY <4>2
              <7>2. Cardinality(s .. s + n - 1) = s + n - 1 - s + 1
                BY <7>1, FS_Interval
              <7> QED BY <6>5, <7>2
            <6>7. port = s + n /\ port - n = s BY <5>2, <5>4, <6>4
            <6>8. (s .. s + n - 1) \cup {port} = port - n .. port BY <6>7
            <6>9. port = second[t] + 1 + PassedOver(e, scan_rnd'[t]) + n
              BY <5>2, <6>2, <6>3, <6>7
            <6>10. \/ Cardinality(scanned'[t]) < n + 1
                   \/ scanned'[t] = port - n .. port
              <7>1. CASE scanned'[t] = scanned[t] \cup {port}
                BY <6>5, <6>8, <7>1, Zenon
              <7>2. CASE scanned'[t] = scanned[t]
                <8>1. Cardinality(scanned'[t]) = n BY <6>6, <7>2, Zenon
                <8> QED BY <8>1
              <7> QED BY <3>3, <7>1, <7>2
            <6>11. e \in 0 .. Longest /\ clock = T2[t] + e BY <5>1
            <6>12. scan_rnd'[t] \in Randoms BY <5>1, <5>2
            <6>13. \/ Cardinality(scanned'[t]) < n + 1
                   \/ /\ port = second[t] + 1 + PassedOver(e, scan_rnd'[t]) + n
                      /\ scanned'[t] = port - n .. port
              BY <6>9, <6>10, Zenon
            <6> QED BY <6>11, <6>12, <6>13, Zenon
          <5> QED BY <5>1, <5>3, <5>4
        <4> QED BY <4>1, <4>2
      <3>5. PICK s : s = second[t] + 1 + PassedOver(e, scan_rnd'[t]) OBVIOUS
      <3>6. s \in Nat
        <4>1. e \in Nat /\ scan_rnd'[t] \in Nat BY <3>4, DrawFacts, WaitFacts
        <4>2. PassedOver(e, scan_rnd'[t]) \in Nat BY <4>1, PassedOverFacts
        <4> QED BY <1>1b, <3>5, <4>2
      <3>7. FirstScan(t, e)' = s BY <1>1a, <3>5 DEF FirstScan
      <3>8. InRow(t, s)'
        <4>1. CASE Cardinality(scanned'[t]) < n + 1 BY <3>3, <4>1 DEF InRow
        <4>2. CASE port = s + n /\ scanned'[t] = port - n .. port
          <5>1. s + (n + 1) - 1 = port /\ port - n = s BY <3>6, <4>2
          <5> QED BY <3>3, <4>2, <5>1 DEF InRow
        <4> QED BY <3>4, <3>5, <4>1, <4>2
      <3>9. Spaced(t) BY <1>1, <1>2, <2>3 DEF PlanInv, Planned
      <3>10. /\ Spaced(t)' /\ scan_time'[t] = T2'[t] + e
             /\ base_port'[t] = b /\ clock' = clock /\ scan_time'[t] = clock
        BY <1>1a, <1>2, <1>3, <3>4, <3>9 DEF Spaced
      <3>11. CASE n + 1 = ScanRange
        <4>1. pc'[t] = "punch" /\ made'[t] = ScanRange BY <1>1a, <3>3, <3>11
        <4>2. InRow(t, FirstScan(t, e))' BY <3>7, <3>8 DEF InRow
        <4> QED BY <3>4, <3>10, <4>1, <4>2 DEF Planned
      <3>12. CASE n + 1 # ScanRange
        <4>1. pc'[t] = "scan" /\ made'[t] # 0 BY <1>1a, <3>3, <3>12
        <4>2. port + 1 + ScanRange <= b + Reserved + n + 1
          BY <3>1, <3>2 DEF ScansNext
        <4>3. port + 1 < PortSpace BY <3>3, <3>12, <3>b, <4>2
        <4>4. port_map'[b].current_port = port + 1
          BY <3>1, <3>2, <4>3 DEF ScansNext
        <4>5. \/ Cardinality(scanned'[t]) < made'[t]
              \/ port_map'[b].current_port = s + made'[t]
          <5>1. CASE Cardinality(scanned'[t]) < n + 1 BY <3>3, <5>1
          <5>2. CASE port = s + n BY <3>3, <3>6, <4>4, <5>2
          <5> QED BY <3>4, <3>5, <5>1, <5>2
        <4>6. InRow(t, FirstScan(t, e))' BY <3>7, <3>8 DEF InRow
        <4> QED BY <3>4, <3>7, <3>10, <4>1, <4>5, <4>6 DEF Planned
      <3> QED BY <3>11, <3>12
    <2> QED BY <2>1, <2>2, <2>3
  <1> QED BY <1>6, <1>7

LEMMA OwnPlanned ==
    ASSUME RangeInv, EntryInv, PlanInv, RunFits, ResetFits, Soon,
           NoReuse, NEW t \in Threads, Step(t)
    PROVE  Stamped(t)' /\ Planned(t)'
  <1>a. /\ pc \in [Threads -> Pcs] /\ call \in [Threads -> Calls]
        /\ base_port \in [Threads -> PortNumbers]
        /\ T1 \in [Threads -> Nat]
        /\ RunShape(t) /\ Entered(t) /\ Stamped(t)
    BY DEF RangeInv, TypeOK, PortTypeOK, EntryInv, PlanInv
  <1>1. ASSUME AssignNext(t), base_port'[t] = 0
        PROVE  Stamped(t)' /\ Planned(t)'
    <2>1. call'[t] \in {"reset", "find"}
      BY <1>1, <1>a DEF AssignNext, GotoCall
    <2> QED BY <1>1, <2>1 DEF Stamped, Planned
  <1>2. CASE Begin(t)
    <2>1. pc[t] = "idle" BY <1>2, GotoFacts DEF Begin
    <2>2. base_port'[t] = 0 BY <1>2, <1>a, <2>1 DEF Begin, RunShape
    <2> QED BY <1>1, <1>2, <2>2 DEF Begin
  <1>3. CASE Assigning(t) BY <1>3, AssigningPlanned
  <1>4. CASE BindFirst(t)
    <2>1. /\ pc[t] = "bind" /\ pc'[t] = "second" /\ call[t] = "none"
          /\ port_map' = port_map
          /\ T1'[t] = clock
      BY <1>4, <1>a, GotoFacts DEF BindFirst, portVars
    <2>1a. base_port'[t] = my_port[t] \/ base_port'[t] = 0
      <3>1. PICK p \in Bound(t, my_port[t]) :
               base_port' = [base_port EXCEPT ![t] = p]
        BY <1>4 DEF BindFirst
      <3> QED BY <1>a, <3>1, BoundFacts
    <2>2. /\ my_port[t] \in DOMAIN port_map
          /\ port_map[my_port[t]].timestamp_ms = clock
      BY <1>a, <2>1 DEF Entered, Stamped
    <2> QED BY <2>1, <2>1a, <2>2 DEF Stamped, Planned
  <1>5. CASE GetSecond(t)
    <2>1. CASE OfNewRange(t, "second", "bind2")
      BY <1>1, <2>1 DEF OfNewRange
    <2> QED BY <1>5, <2>1, SecondPlanned DEF GetSecond
  <1>6. CASE BindSecond(t)
    <2>1. /\ pc[t] = "bind2" /\ pc'[t] = "scan" /\ base_port' = base_port
      BY <1>6, <1>a, GotoFacts DEF BindSecond, SecondRegistered
    <2> QED BY <1>a, <2>1 DEF RunShape, Binding, Stamped, Planned
  <1>7. CASE GetScan(t)
    <2>1. CASE OfNewRange(t, "scan", "bind_scan")
      BY <1>1, <2>1 DEF OfNewRange
    <2> QED BY <1>7, <2>1, ScanSocketPlanned DEF GetScan
  <1>8. CASE BindScan(t)
    <2>1. /\ pc[t] = "bind_scan" /\ pc'[t] # "bind" /\ base_port' = base_port
      BY <1>8, <1>a, GotoFacts DEF BindScan, ScanSocketBound
    <2> QED BY <1>a, <2>1 DEF RunShape, Binding, Stamped, Planned
  <1>9. CASE End(t)
    <2>1. pc'[t] = "idle" /\ base_port'[t] = 0
      BY <1>9, <1>a DEF End
    <2> QED BY <2>1 DEF Stamped, Planned
  <1> QED BY <1>2, <1>3, <1>4, <1>5, <1>6, <1>7, <1>8, <1>9 DEF Step

LEMMA PlanFrame ==
    ASSUME RangeInv, PlanInv, UNCHANGED <<port_map, call, my_port, runVars>>,
           clock' = clock \/ PassTime
    PROVE  PlanInv'
  <1> SUFFICES ASSUME NEW t \in Threads PROVE Stamped(t)' /\ Planned(t)'
    BY DEF PlanInv
  <1>1. Stamped(t) /\ Planned(t) BY DEF PlanInv
  <1>2. CASE clock' = clock
    BY <1>1, <1>2
    DEF Stamped, Planned, Spaced, FirstScan, InRow, CrossesTop, runVars
  <1>3. CASE PassTime
    <2>1. /\ pc[t] # "bind" /\ (pc[t] = "scan" => made[t] = 0)
          /\ clock \in Nat /\ clock' \in Nat /\ clock <= clock'
          /\ T2[t] \in Nat
      BY <1>3, PortScanAssumption
      DEF PassTime, Waits, RangeInv, TypeOK, PortTypeOK
    <2>2. Stamped(t)' BY <1>1, <2>1 DEF Stamped, runVars
    <2>3. T2[t] <= clock => T2[t] <= clock' BY <2>1
    <2>4. Planned(t)'
      BY <1>1, <2>1, <2>3
      DEF Planned, Spaced, FirstScan, InRow, CrossesTop, runVars
    <2> QED BY <2>2, <2>4
  <1> QED BY <1>2, <1>3

LEMMA PlanInit == HInit => PlanInv
BY DEF HInit, Init, PortInit, Nothing, PlanInv, Stamped, Planned

LEMMA PlanNext ==
    RangeInv /\ EntryInv /\ PlanInv /\ RunFits /\ ResetFits
        /\ Soon /\ NoReuse /\ [HNext]_hvars => PlanInv'
  <1> SUFFICES ASSUME RangeInv, EntryInv, PlanInv, RunFits, ResetFits,
                      Soon, NoReuse, [HNext]_hvars
               PROVE  PlanInv'
    OBVIOUS
  <1>1. CASE PassTime BY <1>1, PlanFrame DEF PassTime
  <1>2. ASSUME NEW t \in Threads, Step(t) PROVE PlanInv'
    <2>1. Stamped(t)' /\ Planned(t)' BY <1>2, OwnPlanned
    <2>2. \A u \in Threads \ {t} : Stamped(u)' /\ Planned(u)'
      BY <1>2, OthersPlanned
    <2> QED BY <2>1, <2>2 DEF PlanInv
  <1>3. CASE UNCHANGED hvars
    BY <1>3, PlanFrame DEF hvars, vars, portVars
  <1> QED BY <1>1, <1>2, <1>3 DEF HNext, Next

LEMMA DivisionFacts ==
    ASSUME NEW x \in Nat, NEW y \in Nat \ {0}
    PROVE  /\ x \div y \in Nat
           /\ y * (x \div y) <= x /\ x < y * (x \div y) + y
BY SMT

LEMMA TimesMonotone ==
    ASSUME NEW s \in Nat, NEW a \in Int, NEW b \in Int
    PROVE  /\ a <= b => s * a <= s * b
           /\ s * a < s * b => a < b
           /\ s * a \in Int
  <1>1. s = 0 \/ s > 0 OBVIOUS
  <1>2. a <= b => s * a <= s * b BY SMT
  <1>3. b <= a => s * b <= s * a BY SMT
  <1>4. s * a \in Int /\ s * b \in Int OBVIOUS
  <1> QED BY <1>2, <1>3, <1>4

\* n ports in d at the pace u, k ports for w: if what the pace gives in the
\* time past is no more than w and drift, the extrapolation of n + 1 ports in
\* d + 1 to that time is not far above k, ...
LEMMA PaceAbove ==
    ASSUME NEW S \in Nat \ {0}, NEW d \in Nat, NEW u \in Nat, NEW w \in Nat,
           NEW n \in Nat, NEW k \in Nat, NEW past \in Nat, NEW ext \in Nat,
           NEW drift \in Nat, NEW reach \in Nat,
           2 * S * n <= 2 * (d * u) + S,
           2 * w < 2 * S * k + S,
           (d + 1) * ext <= past * (n + 1),
           past * u <= w + drift * S,
           past <= reach * (d + 1)
    PROVE  2 * ext <= 2 * k + 2 * drift + 3 * reach
  <1> DEFINE D == d + 1
             P == past * u
  <1>a. D \in Nat \ {0} /\ P \in Nat OBVIOUS
  <1>1. 2 * S * (D * ext) <= 2 * S * (past * (n + 1))
    BY TimesMonotone
  <1>2. 2 * S * (past * (n + 1)) = past * (2 * S * n + 2 * S)
    BY SMT
  <1>3. past * (2 * S * n + 2 * S) <= past * (2 * (d * u) + 3 * S)
    <2>1. 2 * S * n + 2 * S <= 2 * (d * u) + 3 * S
      <3>1. 2 * S * n \in Int /\ d * u \in Int OBVIOUS
      <3> QED BY <3>1
    <2>2. 2 * S * n + 2 * S \in Int /\ 2 * (d * u) + 3 * S \in Int OBVIOUS
    <2> QED BY <2>1, <2>2, TimesMonotone
  <1>4. past * (2 * (d * u) + 3 * S) = 2 * (d * P) + 3 * (S * past)
    BY SMT
  <1>5. d * P <= D * P
    <2>1. D * P = d * P + P BY SMT
    <2>2. d * P \in Int OBVIOUS
    <2> QED BY <1>a, <2>1, <2>2
  <1>6. D * P <= D * (w + drift * S)
    BY <1>a, TimesMonotone
  <1>7. S * past <= S * (reach * D)
    <2>1. reach * D \in Int OBVIOUS
    <2> QED BY <2>1, TimesMonotone
  <1>8. S * (reach * D) = D * (S * reach) BY SMT
  <1>9. D * (2 * w) < D * (2 * S * k + S)
    <2>1. 2 * w + 1 <= 2 * S * k + S /\ 2 * S * k + S \in Int OBVIOUS
    <2>2. D * (2 * w + 1) <= D * (2 * S * k + S)
      BY <1>a, <2>1, TimesMonotone
    <2>3. D * (2 * w + 1) = D * (2 * w) + D BY SMT
    <2> QED BY <1>a, <2>1, <2>2, <2>3
  <1>10. 2 * (D * (w + drift * S)) = D * (2 * w) + D * (2 * drift * S) BY SMT
  <1>11. /\ 2 * S * (D * ext) \in Int /\ d * P \in Int /\ D * P \in Int
         /\ S * past \in Int /\ D * (S * reach) \in Int /\ D * (2 * w) \in Int
         /\ D * (2 * S * k + S) \in Int /\ D * (2 * drift * S) \in Int
         /\ D * (w + drift * S) \in Int
    OBVIOUS
  <1> HIDE DEF D, P
  <1>12. 2 * S * (D * ext)
            < D * (2 * S * k + S) + D * (2 * drift * S) + 3 * (D * (S * reach))
    BY <1>1, <1>2, <1>3, <1>4, <1>5, <1>6, <1>7, <1>8, <1>9, <1>10, <1>11
  <1>13. /\ 2 * S * (D * ext) = (D * S) * (2 * ext)
         /\ D * (2 * S * k + S) + D * (2 * drift * S) + 3 * (D * (S * reach))
              = (D * S) * (2 * k + 1 + 2 * drift + 3 * reach)
    BY <1>a, SMT
  <1>14. D * S \in Nat BY <1>a
  <1>15. 2 * ext < 2 * k + 1 + 2 * drift + 3 * reach
    BY <1>12, <1>13, <1>14, TimesMonotone
  <1> QED BY <1>15

\* ... and if it is no less, not far below it.
LEMMA PaceBelow ==
    ASSUME NEW S \in Nat \ {0}, NEW d \in Nat, NEW u \in Nat, NEW w \in Nat,
           NEW n \in Nat, NEW k \in Nat, NEW past \in Nat, NEW ext \in Nat,
           NEW drift \in Nat, 2 * u <= S,
           2 * (d * u) + S < 2 * S * n + 2 * S,
           2 * S * k <= 2 * w + S,
           past * (n + 1) < (d + 1) * ext + (d + 1),
           w <= past * u + drift * S
    PROVE  k <= ext + 1 + drift
  <1> DEFINE D == d + 1
             P == past * u
  <1>a. D \in Nat \ {0} /\ P \in Nat OBVIOUS
  <1>1. 2 * S * (past * (n + 1)) < 2 * S * (D * (ext + 1))
    <2>1. past * (n + 1) + 1 <= D * (ext + 1)
      <3>1. D * (ext + 1) = D * ext + D BY SMT
      <3>2. past * (n + 1) \in Int /\ D * ext \in Int OBVIOUS
      <3> QED BY <3>1, <3>2
    <2>2. past * (n + 1) + 1 \in Int /\ D * (ext + 1) \in Int OBVIOUS
    <2>3. 2 * S * (past * (n + 1) + 1) <= 2 * S * (D * (ext + 1))
      BY <2>1, <2>2, TimesMonotone
    <2>4. 2 * S * (past * (n + 1) + 1) = 2 * S * (past * (n + 1)) + 2 * S BY SMT
    <2>5. 2 * S * (past * (n + 1)) \in Int /\ 2 * S * (D * (ext + 1)) \in Int
      OBVIOUS
    <2> QED BY <2>3, <2>4, <2>5
  <1>2. 2 * S * (past * (n + 1)) = past * (2 * S * n + 2 * S)
    BY SMT
  <1>3. past * (2 * (d * u) + 2 * u) <= past * (2 * S * n + 2 * S)
    <2>1. 2 * (d * u) + 2 * u <= 2 * S * n + 2 * S
      <3>1. 2 * S * n \in Int /\ d * u \in Int OBVIOUS
      <3> QED BY <3>1
    <2>2. 2 * S * n + 2 * S \in Int /\ 2 * (d * u) + 2 * u \in Int OBVIOUS
    <2> QED BY <2>1, <2>2, TimesMonotone
  <1>4. past * (2 * (d * u) + 2 * u) = D * (2 * P)
    BY SMT
  <1>5. D * (2 * w) <= D * (2 * P + 2 * drift * S)
    <2>1. 2 * w <= 2 * P + 2 * drift * S
      <3>1. drift * S \in Int /\ 2 * drift * S = 2 * (drift * S) BY SMT
      <3> QED BY <1>a, <3>1
    <2>2. 2 * P + 2 * drift * S \in Int OBVIOUS
    <2> QED BY <1>a, <2>1, <2>2, TimesMonotone
  <1>6. D * (2 * P + 2 * drift * S) = D * (2 * P) + (D * S) * (2 * drift) BY SMT
  <1>7. D * (2 * S * k) <= D * (2 * w + S)
    <2>1. 2 * S * k \in Int OBVIOUS
    <2> QED BY <1>a, <2>1, TimesMonotone
  <1>8. D * (2 * w + S) = D * (2 * w) + D * S BY SMT
  <1>9. /\ D * (2 * S * k) = (D * S) * (2 * k)
        /\ 2 * S * (D * (ext + 1)) = (D * S) * (2 * ext + 2)
    BY SMT
  <1>10. D * S \in Nat /\ D * (2 * P) \in Int /\ D * (2 * w) \in Int
         /\ past * (2 * S * n + 2 * S) \in Int
         /\ (D * S) * (2 * k) \in Int /\ (D * S) * (2 * ext + 2) \in Int
         /\ (D * S) * (2 * drift) \in Int
    OBVIOUS
  <1> HIDE DEF D, P
  <1>11. (D * S) * (2 * k) < (D * S) * (2 * ext + 2) + D * S + (D * S) * (2 * drift)
    <2>1. D * (2 * P) < (D * S) * (2 * ext + 2)
      BY <1>1, <1>2, <1>3, <1>4, <1>9, <1>10
    <2>2. D * (2 * w) <= D * (2 * P) + (D * S) * (2 * drift) BY <1>5, <1>6
    <2>3. (D * S) * (2 * k) <= D * (2 * w) + D * S BY <1>7, <1>8, <1>9
    <2> QED BY <1>10, <2>1, <2>2, <2>3
  <1>12. (D * S) * (2 * ext + 2) + D * S + (D * S) * (2 * drift)
            = (D * S) * (2 * ext + 3 + 2 * drift)
    BY <1>a, SMT
  <1>13. 2 * k < 2 * ext + 3 + 2 * drift
    BY <1>10, <1>11, <1>12, TimesMonotone
  <1> QED BY <1>13

LEMMA PassedOverBounds ==
    ASSUME NEW d \in Nat, NEW rnd \in Nat, NEW S, S = Second * Scale,
           NEW u, u = Rate * rnd, NEW n, n = PassedOver(d, rnd)
    PROVE  /\ S \in Nat \ {0} /\ u \in Nat /\ n \in Nat
           /\ 2 * S * n <= 2 * (d * u) + S
           /\ 2 * (d * u) + S < 2 * S * n + 2 * S
  <1>1. S \in Nat \ {0} /\ u \in Nat BY PortSpaceFacts
  <1>2. n \in Nat BY PassedOverFacts
  <1> DEFINE x == 2 * (d * u) + S
             y == 2 * S
  <1>3. x \in Nat /\ y \in Nat \ {0} BY <1>1
  <1>4. n = x \div y
    <2>1. 2 * d * Rate * rnd = 2 * (d * u) /\ 2 * Second * Scale = 2 * S
      BY PortSpaceFacts, SMT
    <2> QED BY <2>1 DEF PassedOver
  <1> HIDE DEF x, y
  <1>5. y * n <= x /\ x < y * n + y BY <1>3, <1>4, DivisionFacts
  <1>6. 2 * S * n <= x /\ x < 2 * S * n + 2 * S BY <1>5 DEF y
  <1> QED BY <1>1, <1>2, <1>6 DEF x

\* A partner that looks at a NAT that keeps its pace finds the middle of the
\* scan sockets, give or take half of them.
LEMMA PaceHits ==
    ASSUME RunFits, ResetFits, PredictionFits,
           NEW d \in Nat, d >= Second, NEW e \in Nat,
           NEW rnd \in Nat, NEW rnd2 \in Nat,
           NEW n, n = PassedOver(d, rnd), NEW k, k = PassedOver(e, rnd2),
           n + 1 < NearPorts,
           NEW late \in -Slack .. Slack, e + late >= 0,
           NEW allowed, allowed = Drift * Second * Scale
                                     - (Slack + Roundtrip) * (Rate * rnd),
           e * (Rate * rnd) - e * Rate * rnd2 \in -allowed .. allowed,
           e + Slack + Roundtrip <= Reach * (d + 1),
           NEW ext, ext = ((e + late + Roundtrip) * (n + 1)) \div (d + 1)
    PROVE  /\ ext \in Nat
           /\ k + 1 <= ext + ScanRange \div 2
           /\ ext + ScanRange \div 2 <= k + ScanRange
  <1>1. PICK S \in Nat \ {0}, u \in Nat, v \in Nat, w \in Nat :
           /\ S = Second * Scale /\ u = Rate * rnd /\ v = Rate * rnd2
           /\ w = e * v
    BY PortSpaceFacts
  <1>2. /\ n \in Nat /\ 2 * S * n <= 2 * (d * u) + S
        /\ 2 * (d * u) + S < 2 * S * n + 2 * S
    BY <1>1, PassedOverBounds
  <1>3. /\ k \in Nat /\ 2 * S * k <= 2 * w + S
        /\ 2 * w + S < 2 * S * k + 2 * S
    BY <1>1, PassedOverBounds
  <1>4. /\ Slack \in Nat /\ Roundtrip \in Nat /\ Drift \in Nat /\ Reach \in Nat
        /\ ScanRange \in Nat /\ NearPorts \in Nat /\ Second \in Nat \ {0}
    BY PredictionAssumption, PortScanAssumption, PortSpaceFacts
  <1>5. PICK past \in Nat : past = e + late + Roundtrip BY <1>4
  <1>6. past <= Reach * (d + 1)
    <2>1. past <= e + Slack + Roundtrip BY <1>4, <1>5
    <2>2. Reach * (d + 1) \in Int BY <1>4
    <2> QED BY <1>4, <1>5, <2>1, <2>2
  <1>7. past * u <= w + Drift * S /\ w <= past * u + Drift * S
    <2> DEFINE more == (Slack + Roundtrip) * u
               x == (late + Roundtrip) * u
    <2>1. allowed = Drift * S - more
      <3>1. Drift * Second * Scale = Drift * S BY <1>1, <1>4, PortSpaceFacts, SMT
      <3> QED BY <1>1, <3>1
    <2>2. e * u - w \in -allowed .. allowed
      <3>1. e * Rate * rnd2 = w BY <1>1, PortSpaceFacts, SMT
      <3> QED BY <1>1, <3>1
    <2>3. /\ past * u = e * u + x
          /\ x \in Int /\ more \in Int /\ e * u \in Int /\ Drift * S \in Int
      BY <1>4, <1>5, SMT
    <2>4. x <= more /\ -more <= x
      <3>1. /\ late + Roundtrip <= Slack + Roundtrip
            /\ -(Slack + Roundtrip) <= late + Roundtrip
            /\ late + Roundtrip \in Int /\ Slack + Roundtrip \in Int
            /\ -(Slack + Roundtrip) \in Int
        BY <1>4
      <3>2. u * (late + Roundtrip) <= u * (Slack + Roundtrip)
        BY <3>1, TimesMonotone
      <3>3. u * (-(Slack + Roundtrip)) <= u * (late + Roundtrip)
        BY <3>1, TimesMonotone
      <3>4. /\ u * (late + Roundtrip) = x /\ u * (Slack + Roundtrip) = more
            /\ u * (-(Slack + Roundtrip)) = -more
        BY <1>4, SMT
      <3> QED BY <3>2, <3>3, <3>4
    <2> HIDE DEF x, more
    <2> QED BY <2>1, <2>2, <2>3, <2>4
  <1>8. /\ ext \in Nat /\ (d + 1) * ext <= past * (n + 1)
        /\ past * (n + 1) < (d + 1) * ext + (d + 1)
    <2>1. past * (n + 1) \in Nat /\ d + 1 \in Nat \ {0} BY <1>2
    <2> QED BY <1>5, <2>1, DivisionFacts
  <1>9. 2 * u <= S
    <2> SUFFICES ASSUME S + 1 <= 2 * u PROVE FALSE
      BY <1>1
    <2>1. d * S <= d * (2 * u) BY TimesMonotone
    <2>2. S * (2 * NearPorts) <= S * d
      <3>1. 2 * NearPorts <= d /\ 2 * NearPorts \in Int
        BY <1>4 DEF PredictionFits
      <3> QED BY <3>1, TimesMonotone
    <2>3. S * (2 * (n + 2)) <= S * (2 * NearPorts)
      <3>1. 2 * (n + 2) <= 2 * NearPorts BY <1>2, <1>4
      <3>2. 2 * (n + 2) \in Int /\ 2 * NearPorts \in Int BY <1>2, <1>4
      <3> QED BY <3>1, <3>2, TimesMonotone
    <2>4. /\ S * (2 * (n + 2)) = 2 * S * n + 4 * S
          /\ S * d = d * S /\ d * (2 * u) = 2 * (d * u)
      BY <1>2, SMT
    <2>5. /\ 2 * S * n \in Int /\ d * S \in Int /\ d * u \in Int
          /\ S * (2 * NearPorts) \in Int
      BY <1>2, <1>4
    <2> QED BY <1>2, <2>1, <2>2, <2>3, <2>4, <2>5
  <1>10. 2 * ext <= 2 * k + 2 * Drift + 3 * Reach
    <2>1. 2 * w < 2 * S * k + S
      <3>1. 2 * S * k \in Int BY <1>3
      <3> QED BY <1>3, <3>1
    <2> QED BY <1>2, <1>3, <1>4, <1>6, <1>7, <1>8, <2>1, PaceAbove
  <1>11. k <= ext + 1 + Drift
    BY <1>2, <1>3, <1>4, <1>7, <1>8, <1>9, PaceBelow
  <1>12. PICK half \in Nat : half = ScanRange \div 2 BY <1>4
  <1>13. Drift + 2 <= half /\ 2 * Drift + 3 * Reach <= 2 * (ScanRange - half)
    BY <1>12 DEF PredictionFits
  <1>14. k + 1 <= ext + half /\ ext + half <= k + ScanRange
    BY <1>3, <1>4, <1>8, <1>10, <1>11, <1>13
  <1> QED BY <1>8, <1>12, <1>14

\* What determine_target_port computes from two sockets of a run, when
\* nothing overflows.
LEMMA PredictedPort ==
    ASSUME RunFits, ResetFits, PredictionFits, NEW b \in Nat, NEW start \in Nat,
           NEW d \in 0 .. Longest, NEW e \in 0 .. Longest, d >= Second,
           NEW rnd \in Nat, NEW rnd2 \in Nat, NEW now \in Nat,
           now >= start + d, now - (start + d + e) \in -Slack .. Slack,
           NEW sec \in Nat, sec = b + 1 + PassedOver(d, rnd),
           Sequential(b, sec),
           NEW allowed, allowed = Drift * Second * Scale
                                     - (Slack + Roundtrip) * (Rate * rnd),
           e * (Rate * rnd) - e * Rate * rnd2 \in -allowed .. allowed,
           e + Slack + Roundtrip <= Reach * (d + 1),
           sec + PassedOver(e, rnd2) + ScanRange < PortSpace
    PROVE  determine_target_port(b, sec, start, start + d, now)
              \in sec + 1 + PassedOver(e, rnd2)
                  .. sec + PassedOver(e, rnd2) + ScanRange
  <1>1. /\ d \in Nat /\ e \in Nat /\ d <= Longest /\ e <= Longest
        /\ Longest \in Nat
        /\ PortSpace \in Nat \ {0} /\ TimeSpace \in Nat /\ Roundtrip \in Nat
        /\ Slack \in Nat /\ ScanRange \in Nat \ {0} /\ NearPorts \in Nat
        /\ IntLimit \in Nat
    BY PortAssumption, PredictionAssumption, PortScanAssumption, PortSpaceFacts,
       Sizes DEF RunFits
  <1>2. PICK n \in Nat : n = PassedOver(d, rnd) BY <1>1, PassedOverFacts
  <1>3. PICK k \in Nat : k = PassedOver(e, rnd2) BY <1>1, PassedOverFacts
  <1>4. PICK late \in -Slack .. Slack : late = now - (start + d + e) OBVIOUS
  <1>5. PICK wait \in Nat : wait = e + late /\ wait = now - (start + d)
    BY <1>1, <1>4
  <1> DEFINE ext == ((wait + Roundtrip) * (n + 1)) \div (d + 1)
             half == ScanRange \div 2
  <1>14. n + 1 < NearPorts /\ b # sec
    BY <1>1, <1>2 DEF Sequential
  <1>6. /\ ext \in Nat
        /\ k + 1 <= ext + half /\ ext + half <= k + ScanRange
    <2>1. wait + Roundtrip = e + late + Roundtrip BY <1>5
    <2>2. ext = ((e + late + Roundtrip) * (n + 1)) \div (d + 1) BY <2>1
    <2>3. e + late >= 0 BY <1>5
    <2> HIDE DEF ext
    <2> QED BY <1>1, <1>2, <1>3, <1>14, <2>2, <2>3, PaceHits
  <1>7. (sec - b) % PortSpace = n + 1
    <2>1. sec - b = n + 1 /\ n + 1 < PortSpace /\ n + 1 \in Nat
      BY <1>1, <1>2, <1>3
    <2> QED BY <1>1, <2>1
  <1>8. ((start + d) - start + 1) % TimeSpace = d + 1
    <2>1. (start + d) - start + 1 = d + 1 /\ d + 1 < TimeSpace /\ d + 1 \in Nat
      BY <1>1 DEF PredictionFits
    <2> QED BY <1>1, <2>1
  <1>9. (((now - (start + d)) % TimeSpace) + Roundtrip) % TimeSpace
           = wait + Roundtrip
    <2>1. wait <= Longest + Slack BY <1>1, <1>5
    <2>2. wait + Roundtrip < TimeSpace /\ wait < TimeSpace
      BY <1>1, <2>1 DEF PredictionFits
    <2>3. wait % TimeSpace = wait BY <1>1, <2>2
    <2>4. (wait + Roundtrip) % TimeSpace = wait + Roundtrip BY <1>1, <2>2
    <2> QED BY <1>5, <2>3, <2>4
  <1>10. Extrapolated(n + 1, start, start + d, now) = ext
    <2>1. PICK gap : gap = ((start + d) - start + 1) % TimeSpace OBVIOUS
    <2>2. PICK past :
             past = (((now - (start + d)) % TimeSpace) + Roundtrip) % TimeSpace
      OBVIOUS
    <2>3. Extrapolated(n + 1, start, start + d, now) = (past * (n + 1)) \div gap
      BY <2>1, <2>2, Zenon DEF Extrapolated
    <2>4. gap = d + 1 /\ past = wait + Roundtrip BY <1>8, <1>9, <2>1, <2>2, Zenon
    <2> QED BY <2>3, <2>4, Zenon
  <1>11. half \in Nat BY <1>1
  <1> HIDE DEF ext, half
  <1>12. sec + ext + half < PortSpace /\ sec + ext + half \in Nat
    BY <1>1, <1>3, <1>6, <1>11
  <1>13. ToPort(sec + ext + half) = sec + ext + half
    <2>1. sec + ext + half < IntLimit BY <1>1, <1>12 DEF PredictionFits
    <2>2. (sec + ext + half) % PortSpace = sec + ext + half BY <1>1, <1>12
    <2> QED BY <2>1, <2>2 DEF ToPort
  <1>15. determine_target_port(b, sec, start, start + d, now)
            = sec + ext + half
    BY <1>7, <1>10, <1>13, <1>14 DEF determine_target_port, half
  <1> QED BY <1>1, <1>3, <1>6, <1>11, <1>12, <1>15

LEMMA PredictedByPlan ==
    RangeInv /\ EntryInv /\ PlanInv /\ RunFits /\ ResetFits /\ PredictionFits
        => PredictedIsPunched
  <1> SUFFICES ASSUME RangeInv, EntryInv, PlanInv, RunFits, ResetFits,
                      PredictionFits, NEW t \in Threads, pc[t] = "punch",
                      AllBound(t), ~CrossesTop(t),
                      Sequential(first[t], second[t]), Steady(t),
                      NEW now \in T2[t] .. MaxTime + Slack,
                      now - scan_time[t] \in -Slack .. Slack
               PROVE  determine_target_port(first[t], second[t], T1[t], T2[t], now)
                         \in scanned[t]
    BY DEF PredictedIsPunched
  <1>0. /\ base_port[t] # 0 /\ second[t] # 0
        /\ Cardinality(scanned[t]) = ScanRange
    BY DEF AllBound
  <1>1. /\ T1[t] \in Nat /\ T2[t] \in Nat /\ scan_time[t] \in Nat
        /\ second[t] \in PortNumbers /\ first[t] = base_port[t]
        /\ MaxTime \in Nat /\ Slack \in Nat
    BY <1>0, PortScanAssumption DEF RangeInv, TypeOK, RunShape
  <1>2. now \in Nat /\ now >= T2[t] BY <1>1
  <1>3. PICK b \in Nat : b = base_port[t] /\ b + Reserved <= PortSpace
    BY <1>0, BaseFacts
  <1>4. PICK sec \in Nat : sec = second[t]
    BY <1>1, PortSpaceFacts DEF PortNumbers
  <1>5. PICK start \in Nat : start = T1[t] BY <1>1
  <1>5a. PICK rnd, rnd2 : rnd = helper_rnd[t] /\ rnd2 = scan_rnd[t] OBVIOUS
  <1>6. PICK d \in 0 .. Longest :
           /\ d >= Second /\ T2[t] = start + d /\ rnd \in Randoms
           /\ sec = b + 1 + PassedOver(d, rnd)
    BY <1>0, <1>3, <1>4, <1>5, <1>5a DEF PlanInv, Planned, Spaced
  <1>7. PICK e \in 0 .. Longest :
           /\ scan_time[t] = T2[t] + e /\ rnd2 \in Randoms
           /\ made[t] = ScanRange
           /\ InRow(t, FirstScan(t, e))
    BY <1>0, <1>5a DEF PlanInv, Planned
  <1>8. /\ e \in Nat /\ d \in Nat /\ rnd \in Nat /\ rnd2 \in Nat
        /\ ScanRange \in Nat \ {0} /\ Reserved \in Nat /\ PortSpace \in Nat
    BY <1>6, <1>7, DrawFacts, WaitFacts, Sizes
  <1>9. PICK k \in Nat : k = PassedOver(e, rnd2) BY <1>8, PassedOverFacts
  <1>10. scanned[t] = sec + 1 + k .. sec + k + ScanRange
    <2>1. FirstScan(t, e) = sec + 1 + k BY <1>4, <1>5a, <1>9 DEF FirstScan
    <2>2. scanned[t] = sec + 1 + k .. sec + 1 + k + ScanRange - 1
      BY <1>0, <1>7, <1>8, <2>1 DEF InRow
    <2>3. sec + 1 + k + ScanRange - 1 = sec + k + ScanRange BY <1>8
    <2> QED BY <2>2, <2>3
  <1>11. sec + k + ScanRange < PortSpace
    <2>1. scanned[t] \subseteq b .. b + Reserved - 1
      BY <1>0, <1>3 DEF EntryInv, RunEntry
    <2>2. sec + k + ScanRange \in sec + 1 + k .. sec + k + ScanRange
      BY <1>8
    <2>3. sec + k + ScanRange \in b .. b + Reserved - 1
      BY <1>10, <2>1, <2>2, Zenon
    <2> QED BY <1>3, <1>8, <2>3
  <1>12. now - (start + d + e) \in -Slack .. Slack BY <1>6, <1>7
  <1>13. PICK allowed :
            /\ allowed = Drift * Second * Scale
                            - (Slack + Roundtrip) * (Rate * rnd)
            /\ e * (Rate * rnd) - e * Rate * rnd2 \in -allowed .. allowed
            /\ e + Slack + Roundtrip <= Reach * (d + 1)
    <2>1. scan_time[t] - T2[t] = e /\ T2[t] - T1[t] = d
      BY <1>1, <1>5, <1>6, <1>7, <1>8
    <2> QED BY <1>5a, <2>1 DEF Steady
  <1>14. Sequential(b, sec) BY <1>1, <1>3, <1>4
  <1>15. determine_target_port(b, sec, start, start + d, now)
            \in sec + 1 + PassedOver(e, rnd2)
                .. sec + PassedOver(e, rnd2) + ScanRange
    <2>1. /\ RunFits /\ ResetFits /\ PredictionFits
          /\ d \in 0 .. Longest /\ e \in 0 .. Longest /\ d >= Second
          /\ rnd \in Nat /\ rnd2 \in Nat
          /\ now \in Nat /\ now >= start + d
          /\ now - (start + d + e) \in -Slack .. Slack
          /\ sec = b + 1 + PassedOver(d, rnd)
      BY <1>2, <1>6, <1>7, <1>8, <1>12
    <2>2. sec + PassedOver(e, rnd2) + ScanRange < PortSpace BY <1>9, <1>11
    <2> QED BY <1>13, <1>14, <2>1, <2>2, PredictedPort
  <1>16. determine_target_port(b, sec, start, start + d, now) \in scanned[t]
    BY <1>9, <1>10, <1>15
  <1>17. first[t] = b /\ second[t] = sec /\ T1[t] = start /\ T2[t] = start + d
    BY <1>1, <1>3, <1>4, <1>5, <1>6
  <1> QED BY <1>16, <1>17

\* Whatever the other threads do, the port that the partner predicts is one
\* of the ports that the scan sockets have (p2p_ps_connector.h:403-440 with
\* port_manager.h:71-92, PredictedIsPunched): no step of another thread, no
\* wrap of the counter and no reset moves a port of the run, and the two
\* roundings, of the code and of the simulated hosts, and a partner that is
\* late or early, stay inside half the scan range as long as the hosts keep
\* their pace.  PredictionFits is about the constants alone; NoReuse is needed
\* because a base port that is used again keeps its old time.
THEOREM PredictionHits ==
    ASSUME RunFits, ResetFits, PredictionFits
    PROVE  HSpec /\ [](NoLap /\ NoReuse /\ Soon) => []PredictedIsPunched
  <1>1. HInit => RangeInv /\ EntryInv /\ PlanInv
    BY RangeInit, EntryInit, PlanInit
  <1>2. /\ RangeInv /\ EntryInv /\ PlanInv
        /\ NoLap /\ NoLap' /\ NoReuse /\ Soon /\ [HNext]_hvars
        => (RangeInv /\ EntryInv /\ PlanInv)'
    <2> SUFFICES ASSUME RangeInv, EntryInv, PlanInv, NoLap, NoLap', NoReuse,
                        Soon, [HNext]_hvars
                 PROVE  RangeInv' /\ EntryInv' /\ PlanInv'
      OBVIOUS
    <2>1. InTime BY PlannedInTime DEF PredictionFits, RunFits
    <2>2. Laps BY DEF Laps
    <2> QED BY <2>1, <2>2, RangeNext, EntryNext, PlanNext
  <1>3. RangeInv /\ EntryInv /\ PlanInv => PredictedIsPunched
    BY PredictedByPlan
  <1> QED BY <1>1, <1>2, <1>3, PTL DEF HSpec
=============================================================================
