------------------------- MODULE ClientProcessProofs -------------------------
(***************************************************************************)
(* Proofs about a client process, for any number of threads and runs and   *)
(* any width of the scan.                                                  *)
(***************************************************************************)
EXTENDS ClientProcess, FiniteSetTheorems, TLAPS

Ran == {t \in Threads : InRun(t)}
Done == {t \in Threads : pc[t] = "done"}

\* The run numbers given out beyond the last run have each ended a thread,
\* so that the counter does not come around.
IdsBounded == current_transaction_id <= RunCount + Cardinality(Done)

\* A file is the file of a socket of the thread that opened it.
FilesHeld ==
    \A h \in Handles : \A t \in Threads :
        file[h] = t => \E s \in Slots : handle[t][s] = h

\* Which sockets a thread does not have yet, or no longer.
NoSocketYet ==
    \A t \in Threads :
        /\ pc[t] \in {"take", "open", "done"} =>
              \A s \in Slots : handle[t][s] = NoHandle
        /\ pc[t] \in {"connect", "register", "close"} =>
              \A s \in Slots \ {Conn} : handle[t][s] = NoHandle

----------------------------------------------------------------------------
(* Types                                                                   *)

LEMMA SlotFacts ==
    /\ Conn \in Slots /\ Helper \in Slots /\ Scans \subseteq Slots
    /\ Conn # Helper /\ Conn \notin Scans /\ Helper \notin Scans
    /\ NoHandle \notin Handles /\ NoThread \notin Threads
    /\ ScanRange \in Nat \ {0}
BY HandleAssumption, SMT DEF Conn, Helper, Scans, Slots, Handles

LEMMA PutType ==
    ASSUME HandleTypeOK, NEW t \in Threads, NEW s \in Slots,
           NEW h \in Handles \cup {NoHandle}, Put(t, s, h)
    PROVE  handle' \in [Threads -> [Slots -> Handles \cup {NoHandle}]]
BY DEF HandleTypeOK, Put

LEMMA OpensType ==
    ASSUME HandleTypeOK, NEW t \in Threads, NEW s \in Slots, Opens(t, s)
    PROVE  HandleTypeOK'
  <1>1. PICK h \in Handles : file' = [file EXCEPT ![h] = t] /\ Put(t, s, h)
    BY DEF Opens
  <1>2. handle' \in [Threads -> [Slots -> Handles \cup {NoHandle}]]
    BY <1>1, PutType
  <1> QED BY <1>1, <1>2 DEF HandleTypeOK

LEMMA FailsType ==
    ASSUME HandleTypeOK, NEW t \in Threads, NEW s \in Slots, FailsToOpen(t, s)
    PROVE  HandleTypeOK'
  <1>1. Put(t, s, NoHandle) /\ file' = file BY DEF FailsToOpen
  <1>2. handle' \in [Threads -> [Slots -> Handles \cup {NoHandle}]]
    BY <1>1, PutType
  <1> QED BY <1>1, <1>2 DEF HandleTypeOK

\* A socket that cannot be made had no handle, and has none.
LEMMA FailsChangesNothing ==
    ASSUME HandleTypeOK, NEW t \in Threads, NEW s \in Slots,
           handle[t][s] = NoHandle, FailsToOpen(t, s)
    PROVE  UNCHANGED handleVars
  <1>1. handle' = [handle EXCEPT ![t] = [@ EXCEPT ![s] = NoHandle]]
    BY DEF FailsToOpen, Put
  <1>2. [handle[t] EXCEPT ![s] = NoHandle] = handle[t] BY DEF HandleTypeOK
  <1>3. handle' = handle BY <1>1, <1>2 DEF HandleTypeOK
  <1> QED BY <1>3 DEF FailsToOpen, handleVars

LEMMA DestroysType ==
    ASSUME HandleTypeOK, NEW t \in Threads, NEW s \in Slots, Destroys(t, s)
    PROVE  HandleTypeOK'
  <1>1. Put(t, s, NoHandle) BY DEF Destroys
  <1>2. handle' \in [Threads -> [Slots -> Handles \cup {NoHandle}]]
    BY <1>1, PutType
  <1>3. file' \in [Handles -> Threads \cup {NoThread}]
    BY DEF HandleTypeOK, Destroys, CloseNumber
  <1> QED BY <1>2, <1>3 DEF HandleTypeOK

LEMMA SwapsType ==
    ASSUME HandleTypeOK, NEW t \in Threads, NEW s \in Scans, Swaps(t, s)
    PROVE  HandleTypeOK'
  <1>1. file' \in [Handles -> Threads \cup {NoThread}]
    BY DEF HandleTypeOK, Swaps, CloseNumber
  <1>2. handle' \in [Threads -> [Slots -> Handles \cup {NoHandle}]]
    BY SlotFacts DEF HandleTypeOK, Swaps
  <1> QED BY <1>1, <1>2 DEF HandleTypeOK

LEMMA NextIdType ==
    ASSUME TypeOK, NextId
    PROVE  current_transaction_id' \in 0 .. IdSpace - 1
  <1>1. IdSpace \in Nat \ {0}
    BY ProcessAssumption, FS_CardinalityType, SMT
  <1> QED BY <1>1, SMT DEF TypeOK, NextId

\* Where a thread goes is a place in the code.
LEMMA PcType ==
    ASSUME TypeOK, NEW t \in Threads, NEW to \in Pcs, pc' = [pc EXCEPT ![t] = to]
    PROVE  pc' \in [Threads -> Pcs]
BY DEF TypeOK

LEMMA EndsType ==
    ASSUME TypeOK, NEW t \in Threads, NEW from, NEW r \in Results, Ends(t, from, r)
    PROVE  /\ pc' \in [Threads -> Pcs]
           /\ result' \in [Threads -> Results \cup {"none"}]
BY DEF TypeOK, Ends, Goto, Pcs

LEMMA TypeStep ==
    ASSUME TypeOK, NEW t \in Threads, Step(t)
    PROVE  TypeOK'
  <1> USE DEF counters
  <1>1. CASE TakeId(t)
    <2>1. pc' \in [Threads -> Pcs]
      BY <1>1 DEF TypeOK, TakeId, Goto, Pcs
    <2>2. current_transaction_id' \in 0 .. IdSpace - 1
      BY <1>1, NextIdType DEF TakeId
    <2> QED BY <1>1, <2>1, <2>2 DEF TypeOK, TakeId, HandleTypeOK, handleVars
  <1>2. CASE OpenConnection(t)
    <2>1. CASE Opens(t, Conn) /\ result' = result
               /\ Goto(t, "open", IF mode = "snr" THEN "connect" ELSE "register")
      <3>1. HandleTypeOK' BY <2>1, SlotFacts, OpensType DEF TypeOK
      <3>2. pc' \in [Threads -> Pcs] BY <2>1 DEF TypeOK, Goto, Pcs
      <3> QED BY <1>2, <2>1, <3>1, <3>2 DEF TypeOK, OpenConnection
    <2>2. CASE FailsToOpen(t, Conn) /\ Ends(t, "open", "connection_error")
      <3>1. HandleTypeOK' BY <2>2, SlotFacts, FailsType DEF TypeOK
      <3> QED BY <1>2, <2>2, <3>1, EndsType DEF TypeOK, OpenConnection, Results
    <2> QED BY <1>2, <2>1, <2>2 DEF OpenConnection
  <1>3. CASE BasicConnect(t)
    <2>1. PICK r \in Results : Ends(t, "connect", r) BY <1>3 DEF BasicConnect
    <2> QED BY <1>3, <2>1, EndsType DEF TypeOK, BasicConnect, HandleTypeOK, handleVars
  <1>4. CASE DestroyNext(t)
    <2>1. PICK s \in Slots : Destroys(t, s) BY <1>4 DEF DestroyNext, ToDestroy
    <2>2. HandleTypeOK' BY <2>1, DestroysType DEF TypeOK
    <2> QED BY <1>4, <2>2 DEF TypeOK, DestroyNext
  <1>5. CASE Count(t)
    <2>1. pc' \in [Threads -> Pcs] BY <1>5 DEF TypeOK, Count, Goto, Pcs
    <2>2. /\ successfull_runs' \in Nat
          /\ failed_runs' \in Nat
          /\ programm_mistakes' \in Nat
      BY <1>5 DEF TypeOK, Count
    <2> QED BY <1>5, <2>1, <2>2 DEF TypeOK, Count, HandleTypeOK, handleVars
  <1>6. CASE CloseConnection(t)
    <2>1. pc' \in [Threads -> Pcs]
      BY <1>6 DEF TypeOK, CloseConnection, Goto, Pcs
    <2>2. HandleTypeOK'
      <3>1. CASE handle[t][Conn] = NoHandle
        BY <1>6, <3>1 DEF TypeOK, CloseConnection, HandleTypeOK, handleVars
      <3>2. CASE handle[t][Conn] # NoHandle
        BY <1>6, <3>2, SlotFacts, DestroysType DEF TypeOK, CloseConnection
      <3> QED BY <3>1, <3>2
    <2> QED BY <1>6, <2>1, <2>2 DEF TypeOK, CloseConnection
  <1>7. CASE RegisterFails(t)
    <2>1. PICK from \in {"register", "registered"} : Ends(t, from, "connection_error")
      BY <1>7 DEF RegisterFails
    <2> QED BY <1>7, <2>1, EndsType
            DEF TypeOK, RegisterFails, HandleTypeOK, handleVars, Results
  <1>8. CASE OpenHelper(t)
    <2>1. CASE Opens(t, Helper) /\ Goto(t, "register", "registered") /\ result' = result
      <3>1. HandleTypeOK' BY <2>1, SlotFacts, OpensType DEF TypeOK
      <3>2. pc' \in [Threads -> Pcs] BY <2>1 DEF TypeOK, Goto, Pcs
      <3> QED BY <1>8, <2>1, <3>1, <3>2 DEF TypeOK, OpenHelper
    <2>2. CASE FailsToOpen(t, Helper) /\ Ends(t, "register", "connection_error")
      <3>1. HandleTypeOK' BY <2>2, SlotFacts, FailsType DEF TypeOK
      <3> QED BY <1>8, <2>2, <3>1, EndsType DEF TypeOK, OpenHelper, Results
    <2> QED BY <1>8, <2>1, <2>2 DEF OpenHelper
  <1>9. CASE ConnectEnds(t)
    <2>1. PICK r \in Results : Ends(t, Registered(t), r) BY <1>9 DEF ConnectEnds
    <2> QED BY <1>9, <2>1, EndsType DEF TypeOK, ConnectEnds, HandleTypeOK, handleVars
  <1>10. CASE BeginScan(t)
    BY <1>10 DEF TypeOK, BeginScan, Goto, Pcs, HandleTypeOK, handleVars
  <1>11. CASE OpenScan(t)
    <2>1. ASSUME NEW i \in Scans, Opens(t, i), result' = result,
                 Goto(t, "scan", IF i = ScanRange THEN "select" ELSE "scan")
          PROVE  TypeOK'
      <3>1. HandleTypeOK' BY <2>1, SlotFacts, OpensType DEF TypeOK
      <3>2. pc' \in [Threads -> Pcs] BY <2>1 DEF TypeOK, Goto, Pcs
      <3> QED BY <1>11, <2>1, <3>1, <3>2 DEF TypeOK, OpenScan
    <2>2. ASSUME NEW i \in Scans, FailsToOpen(t, i),
                 Ends(t, "scan", "connection_failed")
          PROVE  TypeOK'
      <3>1. HandleTypeOK' BY <2>2, SlotFacts, FailsType DEF TypeOK
      <3> QED BY <1>11, <2>2, <3>1, EndsType DEF TypeOK, OpenScan, Results
    <2> QED BY <1>11, <2>1, <2>2 DEF OpenScan
  <1>12. CASE NothingHeard(t)
    BY <1>12, EndsType DEF TypeOK, NothingHeard, HandleTypeOK, handleVars, Results
  <1>13. CASE Heard(t)
    <2>1. PICK i \in Scans : Swaps(t, i) BY <1>13 DEF Heard
    <2>2. HandleTypeOK' BY <2>1, SwapsType DEF TypeOK
    <2>3. PICK r \in Results : Ends(t, "select", r) BY <1>13 DEF Heard, Results
    <2> QED BY <1>13, <2>2, <2>3, EndsType DEF TypeOK, Heard
  <1> QED BY <1>1, <1>2, <1>3, <1>4, <1>5, <1>6, <1>7, <1>8, <1>9, <1>10,
             <1>11, <1>12, <1>13 DEF Step

\* Every variable of a client process keeps its type (main.cpp:35-131,
\* 179-293, udp_socket.h:27-47, p2p_ps_connector.h:295-400).
THEOREM TypeCorrect == Spec => []TypeOK
  <1>1. Init => TypeOK
    <2> SUFFICES ASSUME Init PROVE TypeOK OBVIOUS
    <2>1. 0 \in 0 .. IdSpace - 1
      BY ProcessAssumption, FS_CardinalityType, SMT
    <2> QED BY <2>1 DEF Init, TypeOK, HandleInit, HandleTypeOK, Pcs
  <1>2. TypeOK /\ [Next]_vars => TypeOK'
    <2> SUFFICES ASSUME TypeOK, [Next]_vars PROVE TypeOK' OBVIOUS
    <2>1. CASE Next BY <2>1, TypeStep DEF Next
    <2>2. CASE UNCHANGED vars
      BY <2>2 DEF vars, counters, handleVars, TypeOK, HandleTypeOK
    <2> QED BY <2>1, <2>2
  <1> QED BY <1>1, <1>2, PTL DEF Spec

----------------------------------------------------------------------------
(* The counters                                                            *)

LEMMA SetsFinite ==
    /\ IsFiniteSet(Ran) /\ Cardinality(Ran) \in Nat
    /\ IsFiniteSet(Done) /\ Cardinality(Done) \in Nat
    /\ IsFiniteSet(Ran') /\ Cardinality(Ran') \in Nat
    /\ IsFiniteSet(Done') /\ Cardinality(Done') \in Nat
  <1>1. /\ Ran \in SUBSET Threads /\ Ran' \in SUBSET Threads
        /\ Done \in SUBSET Threads /\ Done' \in SUBSET Threads
    BY DEF Ran, Done
  <1>2. IsFiniteSet(Threads) BY ProcessAssumption
  <1>3. \A S \in SUBSET Threads : IsFiniteSet(S) /\ Cardinality(S) \in Nat
    BY <1>2, FS_Subset, FS_CardinalityType
  <1> QED BY <1>1, <1>3

\* A thread that is about to take a number is not yet done.
LEMMA DoneIsFew ==
    ASSUME NEW t \in Threads, t \notin Done
    PROVE  Cardinality(Done) < Cardinality(Threads)
  <1>1. IsFiniteSet(Threads) BY ProcessAssumption
  <1>2. Done \in SUBSET Threads /\ Done # Threads BY DEF Done
  <1>3. Cardinality(Done) <= Cardinality(Threads)
        /\ Cardinality(Done) # Cardinality(Threads)
    BY <1>1, <1>2, FS_Subset
  <1>4. Cardinality(Threads) \in Nat BY <1>1, FS_CardinalityType
  <1> QED BY <1>3, <1>4, SetsFinite, SMT

\* A step within a run, or within what is not one.
LEMMA SameRuns ==
    ASSUME TypeOK, NEW t \in Threads, NEW to \in Pcs \ {"done"},
           pc' = [pc EXCEPT ![t] = to], pc[t] # "done",
           InRun(t) <=> to \notin {"take", "close", "done"}
    PROVE  Ran' = Ran /\ Done' = Done
BY DEF TypeOK, Ran, Done, InRun

CountInv == RunsCounted /\ IdsBounded

LEMMA CountUnchanged ==
    ASSUME CountInv, Ran' = Ran, Done' = Done, UNCHANGED counters,
           UNCHANGED current_transaction_id
    PROVE  CountInv'
BY DEF CountInv, RunsCounted, IdsBounded, counters, Ran

LEMMA EndsCounts ==
    ASSUME TypeOK, CountInv, NEW t \in Threads, NEW r,
           NEW from \in Pcs \ {"take", "close", "done"}, Ends(t, from, r),
           UNCHANGED counters, UNCHANGED current_transaction_id
    PROVE  CountInv'
  <1>1. Ran' = Ran /\ Done' = Done
    BY SameRuns DEF Ends, Goto, InRun, Pcs
  <1> QED BY <1>1, CountUnchanged

LEMMA GotoCounts ==
    ASSUME TypeOK, CountInv, NEW t \in Threads,
           NEW from \in Pcs \ {"take", "close", "done"},
           NEW to \in Pcs \ {"take", "close", "done"}, Goto(t, from, to),
           UNCHANGED counters, UNCHANGED current_transaction_id
    PROVE  CountInv'
  <1>1. Ran' = Ran /\ Done' = Done
    BY SameRuns DEF Goto, InRun, Pcs
  <1> QED BY <1>1, CountUnchanged

LEMMA TakeIdCounts ==
    ASSUME TypeOK, CountInv, NEW t \in Threads, TakeId(t)
    PROVE  CountInv'
  <1>1. /\ current_transaction_id \in Nat /\ RunCount \in Nat /\ IdSpace \in Nat
        /\ successfull_runs \in Nat /\ failed_runs \in Nat /\ programm_mistakes \in Nat
    BY ProcessAssumption, SMT DEF TypeOK
  <1>2. UNCHANGED <<successfull_runs, failed_runs, programm_mistakes>>
    BY DEF TakeId, counters
  <1>3. t \notin Done /\ t \notin Ran BY DEF TakeId, Goto, Done, Ran, InRun
  <1>4. current_transaction_id' = current_transaction_id + 1
    <2>1. Cardinality(Threads) \in Nat /\ Cardinality(Done) \in Nat
      BY ProcessAssumption, FS_CardinalityType, SetsFinite
    <2>2. Cardinality(Done) < Cardinality(Threads) BY <1>3, DoneIsFew
    <2>3. current_transaction_id + 1 < IdSpace
      BY <1>1, <2>1, <2>2, ProcessAssumption, SMT DEF CountInv, IdsBounded
    <2> QED BY <1>1, <2>3, SMT DEF TakeId, NextId
  <1>5. successfull_runs + failed_runs + programm_mistakes + Cardinality(Ran)
        = IF current_transaction_id < RunCount THEN current_transaction_id
          ELSE RunCount
    BY DEF CountInv, RunsCounted, Ran
  <1>6. current_transaction_id <= RunCount + Cardinality(Done)
    BY DEF CountInv, IdsBounded
  <1>7. CASE current_transaction_id < RunCount
    <2>1. pc' = [pc EXCEPT ![t] = "open"] BY <1>7 DEF TakeId, Goto
    <2>2. Ran' = Ran \cup {t} /\ Done' = Done
      BY <2>1, <1>3 DEF TypeOK, Ran, Done, InRun
    <2>3. Cardinality(Ran') = Cardinality(Ran) + 1
      BY <2>2, <1>3, SetsFinite, FS_AddElement
    <2>4. successfull_runs' + failed_runs' + programm_mistakes' + Cardinality(Ran')
          = IF current_transaction_id' < RunCount THEN current_transaction_id'
            ELSE RunCount
      BY <1>1, <1>2, <1>4, <1>5, <1>7, <2>3, SetsFinite, SMT
    <2>5. current_transaction_id' <= RunCount + Cardinality(Done')
      BY <1>1, <1>4, <1>7, <2>2, SetsFinite, SMT
    <2> QED BY <2>4, <2>5 DEF CountInv, RunsCounted, IdsBounded, Ran
  <1>8. CASE ~(current_transaction_id < RunCount)
    <2>1. pc' = [pc EXCEPT ![t] = "done"] BY <1>8 DEF TakeId, Goto
    <2>2. Ran' = Ran /\ Done' = Done \cup {t}
      BY <2>1, <1>3 DEF TypeOK, Ran, Done, InRun
    <2>3. Cardinality(Done') = Cardinality(Done) + 1
      BY <2>2, <1>3, SetsFinite, FS_AddElement
    <2>4. successfull_runs' + failed_runs' + programm_mistakes' + Cardinality(Ran')
          = IF current_transaction_id' < RunCount THEN current_transaction_id'
            ELSE RunCount
      BY <1>1, <1>2, <1>4, <1>5, <1>8, <2>2, SetsFinite, SMT
    <2>5. current_transaction_id' <= RunCount + Cardinality(Done')
      BY <1>1, <1>4, <1>6, <2>3, SetsFinite, SMT
    <2> QED BY <2>4, <2>5 DEF CountInv, RunsCounted, IdsBounded, Ran
  <1> QED BY <1>7, <1>8

LEMMA CountCounts ==
    ASSUME TypeOK, CountInv, NEW t \in Threads, Count(t)
    PROVE  CountInv'
  <1>1. /\ successfull_runs \in Nat /\ failed_runs \in Nat /\ programm_mistakes \in Nat
    BY DEF TypeOK
  <1>2. pc' = [pc EXCEPT ![t] = "close"] /\ t \in Ran
    BY DEF Count, Goto, Ran, InRun
  <1>3. Ran' = Ran \ {t} /\ Done' = Done
    BY <1>2 DEF TypeOK, Ran, Done, InRun
  <1>4. Cardinality(Ran') = Cardinality(Ran) - 1
    BY <1>2, <1>3, SetsFinite, FS_RemoveElement
  <1>5. successfull_runs' + failed_runs' + programm_mistakes'
        = successfull_runs + failed_runs + programm_mistakes + 1
    BY <1>1, SMT DEF Count
  <1>6. successfull_runs + failed_runs + programm_mistakes + Cardinality(Ran)
        = successfull_runs' + failed_runs' + programm_mistakes' + Cardinality(Ran')
    BY <1>1, <1>4, <1>5, SetsFinite, SMT
  <1>7. UNCHANGED current_transaction_id BY DEF Count
  <1> QED BY <1>3, <1>6, <1>7 DEF CountInv, RunsCounted, IdsBounded, Ran

LEMMA CountStep ==
    ASSUME TypeOK, CountInv, NEW t \in Threads, Step(t)
    PROVE  CountInv'
  <1>1. CASE TakeId(t) BY <1>1, TakeIdCounts
  <1>2. CASE Count(t) BY <1>2, CountCounts
  <1>3. CASE CloseConnection(t)
    <2>1. Ran' = Ran /\ Done' = Done
      BY <1>3, SameRuns DEF CloseConnection, Goto, InRun, Pcs
    <2> QED BY <1>3, <2>1, CountUnchanged DEF CloseConnection
  <1>4. CASE DestroyNext(t)
    BY <1>4, CountUnchanged DEF DestroyNext, Ran, Done, InRun
  <1>5. CASE OpenConnection(t)
    <2>1. CASE Goto(t, "open", IF mode = "snr" THEN "connect" ELSE "register")
      BY <1>5, <2>1, GotoCounts DEF OpenConnection, Pcs
    <2>2. CASE Ends(t, "open", "connection_error")
      BY <1>5, <2>2, EndsCounts DEF OpenConnection, Pcs
    <2> QED BY <1>5, <2>1, <2>2 DEF OpenConnection
  <1>6. CASE BasicConnect(t) BY <1>6, EndsCounts DEF BasicConnect, Pcs
  <1>7. CASE RegisterFails(t) BY <1>7, EndsCounts DEF RegisterFails, Pcs
  <1>8. CASE OpenHelper(t)
    <2>1. CASE Goto(t, "register", "registered")
      BY <1>8, <2>1, GotoCounts DEF OpenHelper, Pcs
    <2>2. CASE Ends(t, "register", "connection_error")
      BY <1>8, <2>2, EndsCounts DEF OpenHelper, Pcs
    <2> QED BY <1>8, <2>1, <2>2 DEF OpenHelper
  <1>9. CASE ConnectEnds(t) BY <1>9, EndsCounts DEF ConnectEnds, Registered, Pcs
  <1>10. CASE BeginScan(t) BY <1>10, GotoCounts DEF BeginScan, Pcs
  <1>11. CASE OpenScan(t)
    <2>1. CASE \E i \in Scans :
                  Goto(t, "scan", IF i = ScanRange THEN "select" ELSE "scan")
      BY <1>11, <2>1, GotoCounts DEF OpenScan, Pcs
    <2>2. CASE Ends(t, "scan", "connection_failed")
      BY <1>11, <2>2, EndsCounts DEF OpenScan, Pcs
    <2> QED BY <1>11, <2>1, <2>2 DEF OpenScan
  <1>12. CASE NothingHeard(t) BY <1>12, EndsCounts DEF NothingHeard, Pcs
  <1>13. CASE Heard(t) BY <1>13, EndsCounts DEF Heard, Pcs
  <1> QED BY <1>1, <1>2, <1>3, <1>4, <1>5, <1>6, <1>7, <1>8, <1>9, <1>10,
             <1>11, <1>12, <1>13 DEF Step

\* Every run started is counted once when it is over, whatever the number of
\* threads and runs (main.cpp:88-115, 244-276).
THEOREM RunsAreCounted == Spec => []RunsCounted
  <1>1. Init => CountInv
    <2> SUFFICES ASSUME Init PROVE CountInv OBVIOUS
    <2>1. Ran = {} BY DEF Init, Ran, InRun
    <2>2. Cardinality(Ran) = 0 BY <2>1, FS_EmptySet
    <2>3. RunsCounted BY <2>2, ProcessAssumption, SMT DEF Init, RunsCounted, Ran
    <2>4. IdsBounded BY SetsFinite, ProcessAssumption, SMT DEF Init, IdsBounded
    <2> QED BY <2>3, <2>4 DEF CountInv
  <1>2. TypeOK /\ CountInv /\ [Next]_vars => CountInv'
    <2> SUFFICES ASSUME TypeOK, CountInv, [Next]_vars PROVE CountInv' OBVIOUS
    <2>1. CASE Next BY <2>1, CountStep DEF Next
    <2>2. CASE UNCHANGED vars
      BY <2>2, CountUnchanged DEF vars, Ran, Done, InRun
    <2> QED BY <2>1, <2>2
  <1>3. CountInv => RunsCounted BY DEF CountInv
  <1> QED BY <1>1, <1>2, <1>3, TypeCorrect, PTL DEF Spec

----------------------------------------------------------------------------
(* The handles                                                             *)

FilesFit == HandlesFit /\ FilesHeld

\* One socket's handle is set, the others' stay.
LEMMA PutFacts ==
    ASSUME HandleTypeOK, NEW t \in Threads, NEW s \in Slots, NEW h, Put(t, s, h)
    PROVE  /\ handle'[t][s] = h
           /\ \A r \in Slots : r # s => handle'[t][r] = handle[t][r]
           /\ \A u \in Threads : u # t => handle'[u] = handle[u]
BY DEF HandleTypeOK, Put

LEMMA SwapFacts ==
    ASSUME HandleTypeOK, NEW t \in Threads, NEW s \in Scans, Swaps(t, s)
    PROVE  /\ handle'[t][Conn] = handle[t][s] /\ handle'[t][s] = handle[t][Conn]
           /\ \A r \in Slots : r # s /\ r # Conn => handle'[t][r] = handle[t][r]
           /\ \A u \in Threads : u # t => handle'[u] = handle[u]
BY SlotFacts DEF HandleTypeOK, Swaps

\* What close does, whatever number it is called with.
LEMMA CloseFacts ==
    ASSUME HandleTypeOK, NEW h, CloseNumber(h)
    PROVE  \A g \in Handles : \/ g # h /\ file'[g] = file[g]
                              \/ g = h /\ file'[g] = NoThread
BY DEF HandleTypeOK, CloseNumber

\* The kernel has the lowest free number because every lower one is some
\* other socket's: all of them are fewer than the threads have sockets.
LEMMA LowestIsLow ==
    ASSUME HandleTypeOK, FilesHeld, NEW t \in Threads, NEW s \in Slots,
           handle[t][s] = NoHandle, NEW h \in Handles, LowestFree(h)
    PROVE  h < Cardinality(Threads) * (ScanRange + 2)
  <1> DEFINE Sockets == Threads \X Slots
             Others == Sockets \ {<<t, s>>}
             Lower == 0 .. h - 1
             Holders == {p \in Others : handle[p[1]][p[2]] \in Lower}
             LowerOf == [p \in Holders |-> handle[p[1]][p[2]]]
  <1>1. h \in Nat /\ ScanRange \in Nat BY HandleAssumption, SMT DEF Handles
  <1>2. IsFiniteSet(Slots) /\ Cardinality(Slots) = ScanRange + 2
    BY <1>1, FS_Interval, SMT DEF Slots
  <1>3. IsFiniteSet(Threads) /\ Cardinality(Threads) \in Nat
    BY ProcessAssumption, FS_CardinalityType
  <1>4. /\ IsFiniteSet(Sockets)
        /\ Cardinality(Sockets) = Cardinality(Threads) * (ScanRange + 2)
    BY <1>2, <1>3, FS_Product
  <1>5. <<t, s>> \in Sockets OBVIOUS
  <1>6. IsFiniteSet(Others) /\ Cardinality(Others) = Cardinality(Sockets) - 1
    BY <1>4, <1>5, FS_RemoveElement
  <1>7. IsFiniteSet(Holders) /\ Cardinality(Holders) <= Cardinality(Others)
    <2>1. Holders \in SUBSET Others OBVIOUS
    <2> QED BY <2>1, <1>6, FS_Subset
  <1>8. \A g \in Lower : \E p \in Holders : handle[p[1]][p[2]] = g
    <2> SUFFICES ASSUME NEW g \in Lower
                 PROVE  \E p \in Holders : handle[p[1]][p[2]] = g
      OBVIOUS
    <2>1. g \in Handles /\ g < h BY <1>1, HandleAssumption, SMT DEF Handles
    <2>2. IsOpen(g) BY <2>1 DEF LowestFree
    <2>3. file[g] \in Threads BY <2>1, <2>2 DEF IsOpen, HandleTypeOK
    <2>4. PICK r \in Slots : handle[file[g]][r] = g
      BY <2>1, <2>3 DEF FilesHeld
    <2>5. <<file[g], r>> # <<t, s>> BY <2>1, <2>4, SlotFacts
    <2>6. <<file[g], r>> \in Holders BY <2>3, <2>4, <2>5
    <2> QED BY <2>4, <2>6
  <1>9. LowerOf \in Surjection(Holders, Lower)
    <2>1. LowerOf \in [Holders -> Lower] OBVIOUS
    <2>2. \A g \in Lower : \E p \in Holders : LowerOf[p] = g BY <1>8
    <2> QED BY <2>1, <2>2 DEF Surjection
  <1>10. Cardinality(Lower) <= Cardinality(Holders)
    <2> HIDE DEF LowerOf, Lower, Holders
    <2> QED BY <1>7, <1>9, FS_Surjection
  <1>11. Cardinality(Lower) = h
    <2> HIDE DEF Lower
    <2>1. h - 1 \in Int /\ Lower = 0 .. h - 1 BY <1>1, SMT DEF Lower
    <2>2. Cardinality(0 .. h - 1) = IF 0 > h - 1 THEN 0 ELSE h - 1 - 0 + 1
      BY <2>1, FS_Interval
    <2> QED BY <1>1, <2>1, <2>2, SMT
  <1>12. Cardinality(Holders) \in Nat /\ Cardinality(Others) \in Nat
         /\ Cardinality(Sockets) \in Nat
    BY <1>4, <1>6, <1>7, FS_CardinalityType
  <1> HIDE DEF Sockets, Others, Lower, Holders
  <1>13. h <= Cardinality(Sockets) - 1
    BY <1>1, <1>6, <1>7, <1>10, <1>11, <1>12, SMT
  <1>14. h < Cardinality(Sockets) BY <1>1, <1>12, <1>13, SMT
  <1> QED BY <1>4, <1>14

LEMMA OpensFits ==
    ASSUME HandleTypeOK, FilesFit, NEW t \in Threads, NEW s \in Slots,
           handle[t][s] = NoHandle, Opens(t, s)
    PROVE  FilesFit'
  <1>1. PICK h \in Handles :
            LowestFree(h) /\ file' = [file EXCEPT ![h] = t] /\ Put(t, s, h)
    BY DEF Opens
  <1>2. \A g \in Handles : g # h => file'[g] = file[g]
    BY <1>1 DEF HandleTypeOK
  <1>3. file'[h] = t BY <1>1 DEF HandleTypeOK
  <1>4. HandlesFit'
    <2>1. h < Cardinality(Threads) * (ScanRange + 2)
      BY <1>1, LowestIsLow DEF FilesFit
    <2> QED BY <1>2, <2>1 DEF FilesFit, HandlesFit, IsOpen
  <1>5. FilesHeld'
    <2> SUFFICES ASSUME NEW g \in Handles, NEW u \in Threads, file'[g] = u
                 PROVE  \E r \in Slots : handle'[u][r] = g
      BY DEF FilesHeld
    <2>1. CASE g = h BY <1>1, <1>3, <2>1, PutFacts
    <2>2. CASE g # h
      <3>1. PICK r \in Slots : handle[u][r] = g
        BY <1>2, <2>2 DEF FilesFit, FilesHeld
      <3>2. u # t \/ r # s BY <3>1, SlotFacts
      <3> QED BY <1>1, <3>1, <3>2, PutFacts
    <2> QED BY <2>1, <2>2
  <1> QED BY <1>4, <1>5 DEF FilesFit

LEMMA DestroysFits ==
    ASSUME HandleTypeOK, FilesFit, NEW t \in Threads, NEW s \in Slots,
           Destroys(t, s)
    PROVE  FilesFit'
  <1>1. \A g \in Handles : \/ g # handle[t][s] /\ file'[g] = file[g]
                           \/ g = handle[t][s] /\ file'[g] = NoThread
    BY CloseFacts DEF Destroys
  <1>2. HandlesFit' BY <1>1 DEF FilesFit, HandlesFit, IsOpen
  <1>3. FilesHeld'
    <2> SUFFICES ASSUME NEW g \in Handles, NEW u \in Threads, file'[g] = u
                 PROVE  \E r \in Slots : handle'[u][r] = g
      BY DEF FilesHeld
    <2>1. g # handle[t][s] /\ file[g] = u BY <1>1, SlotFacts
    <2>2. PICK r \in Slots : handle[u][r] = g BY <2>1 DEF FilesFit, FilesHeld
    <2>3. Put(t, s, NoHandle) BY DEF Destroys
    <2> QED BY <2>1, <2>2, <2>3, PutFacts
  <1> QED BY <1>2, <1>3 DEF FilesFit

LEMMA SwapsFits ==
    ASSUME HandleTypeOK, FilesFit, NEW t \in Threads, NEW s \in Scans, Swaps(t, s)
    PROVE  FilesFit'
  <1>1. \A g \in Handles : \/ g # handle[t][Conn] /\ file'[g] = file[g]
                           \/ g = handle[t][Conn] /\ file'[g] = NoThread
    BY CloseFacts DEF Swaps
  <1>2. HandlesFit' BY <1>1 DEF FilesFit, HandlesFit, IsOpen
  <1>3. FilesHeld'
    <2> SUFFICES ASSUME NEW g \in Handles, NEW u \in Threads, file'[g] = u
                 PROVE  \E r \in Slots : handle'[u][r] = g
      BY DEF FilesHeld
    <2>1. g # handle[t][Conn] /\ file[g] = u BY <1>1, SlotFacts
    <2>2. PICK r \in Slots : handle[u][r] = g BY <2>1 DEF FilesFit, FilesHeld
    <2>3. CASE u = t /\ r = s BY <2>2, <2>3, SwapFacts, SlotFacts
    <2>4. CASE ~(u = t /\ r = s) BY <2>1, <2>2, <2>4, SwapFacts
    <2> QED BY <2>3, <2>4
  <1> QED BY <1>2, <1>3 DEF FilesFit

LEMMA HandlesSame ==
    ASSUME FilesFit, UNCHANGED handleVars
    PROVE  FilesFit'
BY DEF FilesFit, HandlesFit, FilesHeld, IsOpen, handleVars

\* A step of t leaves the other threads' sockets alone.
LEMMA SocketsYet ==
    ASSUME TypeOK, NoSocketYet, NEW t \in Threads, NEW to \in Pcs,
           pc' = [pc EXCEPT ![t] = to],
           \A u \in Threads : u # t => handle'[u] = handle[u],
           to \in {"take", "open", "done"} =>
              \A s \in Slots : handle'[t][s] = NoHandle,
           to \in {"connect", "register", "close"} =>
              \A s \in Slots \ {Conn} : handle'[t][s] = NoHandle
    PROVE  NoSocketYet'
BY DEF TypeOK, NoSocketYet

\* connect ends with the sockets it has.
LEMMA EndsSockets ==
    ASSUME TypeOK, NoSocketYet, NEW t \in Threads, NEW from, NEW r, Ends(t, from, r),
           \A u \in Threads : u # t => handle'[u] = handle[u]
    PROVE  NoSocketYet'
BY SocketsYet DEF Ends, Goto, Pcs

LEMMA EndsUnchanged ==
    ASSUME TypeOK, NoSocketYet, FilesFit, NEW t \in Threads, NEW from, NEW r,
           Ends(t, from, r), UNCHANGED handleVars
    PROVE  FilesFit' /\ NoSocketYet'
BY EndsSockets, HandlesSame DEF handleVars

\* A socket that is opened had no handle.
LEMMA OpensSockets ==
    ASSUME TypeOK, NoSocketYet, FilesFit, NEW t \in Threads, NEW s \in Slots,
           handle[t][s] = NoHandle, Opens(t, s), NEW to \in Pcs,
           pc' = [pc EXCEPT ![t] = to], to \notin {"take", "open", "done", "close"},
           to \in {"connect", "register"} => pc[t] = "open" /\ s = Conn
    PROVE  FilesFit' /\ NoSocketYet'
  <1>1. FilesFit' BY OpensFits DEF TypeOK
  <1>2. PICK h \in Handles : Put(t, s, h) BY DEF Opens
  <1>3. /\ \A r \in Slots : r # s => handle'[t][r] = handle[t][r]
        /\ \A u \in Threads : u # t => handle'[u] = handle[u]
    BY <1>2, PutFacts DEF TypeOK
  <1>4. to \in {"connect", "register", "close"} =>
            \A r \in Slots \ {Conn} : handle'[t][r] = NoHandle
    BY <1>3 DEF NoSocketYet
  <1>5. NoSocketYet' BY <1>3, <1>4, SocketsYet
  <1> QED BY <1>1, <1>5

LEMMA DestroyNextHandles ==
    ASSUME TypeOK, NoSocketYet, FilesFit, NEW t \in Threads, DestroyNext(t)
    PROVE  FilesFit' /\ NoSocketYet'
  <1>1. PICK s \in Slots : Destroys(t, s) BY DEF DestroyNext, ToDestroy
  <1>2. FilesFit' BY <1>1, DestroysFits DEF TypeOK
  <1>3. Put(t, s, NoHandle) BY <1>1 DEF Destroys
  <1>4. \A u \in Threads : u # t => handle'[u] = handle[u]
    BY <1>3, PutFacts DEF TypeOK
  <1>5. pc[t] = "destroy" /\ pc' = pc BY DEF DestroyNext
  <1> QED BY <1>2, <1>4, <1>5 DEF NoSocketYet

LEMMA CloseConnectionHandles ==
    ASSUME TypeOK, NoSocketYet, FilesFit, NEW t \in Threads, CloseConnection(t)
    PROVE  FilesFit' /\ NoSocketYet'
  <1>1. pc[t] = "close" /\ pc' = [pc EXCEPT ![t] = "take"]
    BY DEF CloseConnection, Goto
  <1>2. \A s \in Slots \ {Conn} : handle[t][s] = NoHandle BY <1>1 DEF NoSocketYet
  <1>3. CASE handle[t][Conn] = NoHandle
    <2>1. UNCHANGED handleVars BY <1>3 DEF CloseConnection
    <2>2. \A s \in Slots : handle'[t][s] = NoHandle
      BY <1>2, <1>3, <2>1 DEF handleVars
    <2>3. NoSocketYet' BY <1>1, <2>1, <2>2, SocketsYet DEF Pcs, handleVars
    <2> QED BY <2>1, <2>3, HandlesSame
  <1>4. CASE handle[t][Conn] # NoHandle
    <2>1. Destroys(t, Conn) BY <1>4 DEF CloseConnection
    <2>2. FilesFit' BY <2>1, DestroysFits, SlotFacts DEF TypeOK
    <2>3. Put(t, Conn, NoHandle) BY <2>1 DEF Destroys
    <2>4. /\ \A s \in Slots : handle'[t][s] = NoHandle
          /\ \A u \in Threads : u # t => handle'[u] = handle[u]
      BY <1>2, <2>3, PutFacts, SlotFacts DEF TypeOK
    <2>5. NoSocketYet' BY <1>1, <2>4, SocketsYet DEF Pcs
    <2> QED BY <2>2, <2>5
  <1> QED BY <1>3, <1>4

LEMMA HandleStep ==
    ASSUME TypeOK, NoSocketYet, FilesFit, NEW t \in Threads, Step(t)
    PROVE  FilesFit' /\ NoSocketYet'
  <1>1. CASE TakeId(t)
    <2>1. pc[t] = "take" /\ UNCHANGED handleVars BY <1>1 DEF TakeId, Goto
    <2>2. PICK to \in {"open", "done"} : pc' = [pc EXCEPT ![t] = to]
      BY <1>1 DEF TakeId, Goto
    <2>3. \A s \in Slots : handle[t][s] = NoHandle BY <2>1 DEF NoSocketYet
    <2>4. NoSocketYet' BY <2>1, <2>2, <2>3, SocketsYet DEF Pcs, handleVars
    <2> QED BY <2>1, <2>4, HandlesSame
  <1>2. CASE OpenConnection(t)
    <2>1. CASE /\ Opens(t, Conn)
               /\ Goto(t, "open", IF mode = "snr" THEN "connect" ELSE "register")
      <3>1. handle[t][Conn] = NoHandle
        BY <2>1, SlotFacts DEF Goto, NoSocketYet
      <3> QED BY <2>1, <3>1, OpensSockets, SlotFacts DEF Goto, Pcs
    <2>2. CASE FailsToOpen(t, Conn) /\ Ends(t, "open", "connection_error")
      <3>1. handle[t][Conn] = NoHandle
        BY <2>2, SlotFacts DEF Ends, Goto, NoSocketYet
      <3>2. UNCHANGED handleVars
        BY <2>2, <3>1, SlotFacts, FailsChangesNothing DEF TypeOK
      <3> QED BY <2>2, <3>2, EndsUnchanged
    <2> QED BY <1>2, <2>1, <2>2 DEF OpenConnection
  <1>3. CASE BasicConnect(t) BY <1>3, EndsUnchanged DEF BasicConnect
  <1>4. CASE DestroyNext(t) BY <1>4, DestroyNextHandles
  <1>5. CASE Count(t)
    <2>1. UNCHANGED handleVars /\ pc' = [pc EXCEPT ![t] = "close"]
      BY <1>5 DEF Count, Goto
    <2>2. \A s \in Slots \ {Conn} : handle[t][s] = NoHandle
      BY <1>5 DEF Count, ToDestroy
    <2>3. NoSocketYet' BY <2>1, <2>2, SocketsYet DEF Pcs, handleVars
    <2> QED BY <2>1, <2>3, HandlesSame
  <1>6. CASE CloseConnection(t) BY <1>6, CloseConnectionHandles
  <1>7. CASE RegisterFails(t) BY <1>7, EndsUnchanged DEF RegisterFails
  <1>8. CASE OpenHelper(t)
    <2>1. CASE Opens(t, Helper) /\ Goto(t, "register", "registered")
      <3>1. handle[t][Helper] = NoHandle BY <2>1, SlotFacts DEF Goto, NoSocketYet
      <3> QED BY <2>1, <3>1, OpensSockets, SlotFacts DEF Goto, Pcs
    <2>2. CASE FailsToOpen(t, Helper) /\ Ends(t, "register", "connection_error")
      <3>1. handle[t][Helper] = NoHandle
        BY <2>2, SlotFacts DEF Ends, Goto, NoSocketYet
      <3>2. UNCHANGED handleVars
        BY <2>2, <3>1, SlotFacts, FailsChangesNothing DEF TypeOK
      <3> QED BY <2>2, <3>2, EndsUnchanged
    <2> QED BY <1>8, <2>1, <2>2 DEF OpenHelper
  <1>9. CASE ConnectEnds(t) BY <1>9, EndsUnchanged DEF ConnectEnds
  <1>10. CASE BeginScan(t)
    <2>1. UNCHANGED handleVars /\ pc' = [pc EXCEPT ![t] = "scan"]
      BY <1>10 DEF BeginScan, Goto
    <2>2. NoSocketYet' BY <2>1, SocketsYet DEF Pcs, handleVars
    <2> QED BY <2>1, <2>2, HandlesSame
  <1>11. CASE OpenScan(t)
    <2>1. ASSUME NEW i \in Scans, NextScan(t, i), Opens(t, i),
                 Goto(t, "scan", IF i = ScanRange THEN "select" ELSE "scan")
          PROVE  FilesFit' /\ NoSocketYet'
      <3>1. handle[t][i] = NoHandle /\ i \in Slots
        BY <2>1, SlotFacts DEF NextScan
      <3> QED BY <2>1, <3>1, OpensSockets DEF Goto, Pcs
    <2>2. ASSUME NEW i \in Scans, NextScan(t, i), FailsToOpen(t, i),
                 Ends(t, "scan", "connection_failed")
          PROVE  FilesFit' /\ NoSocketYet'
      <3>1. handle[t][i] = NoHandle /\ i \in Slots
        BY <2>2, SlotFacts DEF NextScan
      <3>2. UNCHANGED handleVars
        BY <2>2, <3>1, FailsChangesNothing DEF TypeOK
      <3> QED BY <2>2, <3>2, EndsUnchanged
    <2> QED BY <1>11, <2>1, <2>2 DEF OpenScan
  <1>12. CASE NothingHeard(t) BY <1>12, EndsUnchanged DEF NothingHeard
  <1>13. CASE Heard(t)
    <2>1. PICK i \in Scans : Swaps(t, i) BY <1>13 DEF Heard
    <2>2. FilesFit' BY <2>1, SwapsFits DEF TypeOK
    <2>3. \A u \in Threads : u # t => handle'[u] = handle[u]
      BY <2>1, SwapFacts DEF TypeOK
    <2>4. PICK r \in Results : Ends(t, "select", r) BY <1>13 DEF Heard, Results
    <2>5. NoSocketYet' BY <2>3, <2>4, EndsSockets
    <2> QED BY <2>2, <2>5
  <1> QED BY <1>1, <1>2, <1>3, <1>4, <1>5, <1>6, <1>7, <1>8, <1>9, <1>10,
             <1>11, <1>12, <1>13 DEF Step

LEMMA HandleInvariant == Spec => [](FilesFit /\ NoSocketYet)
  <1>1. Init => FilesFit /\ NoSocketYet
    BY SlotFacts
    DEF Init, HandleInit, FilesFit, HandlesFit, FilesHeld, NoSocketYet, IsOpen
  <1>2. TypeOK /\ FilesFit /\ NoSocketYet /\ [Next]_vars => (FilesFit /\ NoSocketYet)'
    <2> SUFFICES ASSUME TypeOK, FilesFit, NoSocketYet, [Next]_vars
                 PROVE  FilesFit' /\ NoSocketYet'
      OBVIOUS
    <2>1. CASE Next BY <2>1, HandleStep DEF Next
    <2>2. CASE UNCHANGED vars
      <3>1. UNCHANGED handleVars /\ UNCHANGED pc BY <2>2 DEF vars
      <3> QED BY <3>1, HandlesSame DEF NoSocketYet, handleVars
    <2> QED BY <2>1, <2>2
  <1> QED BY <1>1, <1>2, TypeCorrect, PTL DEF Spec

\* Between its runs a thread has no open file, however often a copied handle
\* was closed twice, by itself or by another thread
\* (udp_socket.h:27-34, p2p_ps_connector.h:320-366).
THEOREM NoHandleLeaks == Spec => []NoLeak
  <1>1. TypeOK /\ FilesFit /\ NoSocketYet => NoLeak
    <2> SUFFICES ASSUME FilesFit, NoSocketYet, NEW t \in Threads,
                        pc[t] \in {"take", "done"}, NEW h \in Handles, file[h] = t
                 PROVE  FALSE
      BY DEF NoLeak
    <2>1. PICK s \in Slots : handle[t][s] = h BY DEF FilesFit, FilesHeld
    <2> QED BY <2>1, SlotFacts DEF NoSocketYet
  <1> QED BY <1>1, TypeCorrect, HandleInvariant, PTL

\* No handle exceeds what the sockets of all threads need at once: 16 threads
\* with 52 sockets stay below FD_SETSIZE (p2p_ps_connector.h:339-345).
THEOREM HandlesAlwaysFit == Spec => []HandlesFit
  <1>1. FilesFit => HandlesFit BY DEF FilesFit
  <1> QED BY <1>1, HandleInvariant, PTL
=============================================================================
