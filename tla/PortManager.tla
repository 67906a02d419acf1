---------------------------- MODULE PortManager ----------------------------
(***************************************************************************)
(* client/src/connection/port_manager.h: base ports are taken from an      *)
(* atomic 16-bit counter that every thread of the process adds to; each    *)
(* base port has a counter of its own for the ports that follow it.  One   *)
(* action is one atomic access to what the threads share, with the locks   *)
(* taken before it and released after it.  insert holds the map's lock     *)
(* alone and does nothing else, so that it is one step.                    *)
(***************************************************************************)
EXTENDS Integers, FiniteSets

CONSTANTS
    Threads,
    NoThread,
    PortSpace,      \* 2^16
    MinPort,        \* min_port_: 5000
    Reserved,       \* reserved_port_range_per_alloc_: 75, or what is set
    Starts,         \* where the counter can start: MinPort .. 65000
    Rate,           \* simulated_normal_allocs_per_second_
    Second,         \* how much the clock moves on in a second: 1000
    Randoms,        \* what the normal distribution gives, in parts of Scale:
    Scale           \* 1.0 is Scale, and what is below 0 is taken as 0

ASSUME PortAssumption ==
    /\ NoThread \notin Threads
    /\ PortSpace \in Nat /\ MinPort \in Nat /\ Reserved \in Nat
    /\ MinPort < PortSpace
    /\ Starts \subseteq MinPort .. PortSpace - 1
    /\ Rate \in Nat
    /\ Second \in Nat \ {0}
    /\ Randoms \subseteq Nat
    /\ Scale \in Nat \ {0}

VARIABLES
    clock,          \* get_time_in_ms
    current_port,   \* the counter of base ports
    port_map,       \* port_res_port_map: base port -> its counter and time
    readers,        \* the threads that share map_change_lock
    reset_owner,    \* who has port_reset_mutex
    call,           \* where in assign_next a thread is, or "none"
    my_port         \* the port a thread was given, or is about to be

portVars == <<clock, current_port, port_map, readers, reset_owner, call,
              my_port>>

PortNumbers == 0 .. PortSpace - 1
PortData == [current_port : PortNumbers, timestamp_ms : Nat]
Calls == {"none", "reset", "set", "refetch", "find", "insert", "store"}

PortTypeOK ==
    /\ clock \in Nat
    /\ current_port \in PortNumbers
    /\ DOMAIN port_map \subseteq PortNumbers
    /\ \A b \in DOMAIN port_map : port_map[b] \in PortData
    /\ readers \subseteq Threads
    /\ reset_owner \in Threads \cup {NoThread}
    /\ call \in [Threads -> Calls]
    /\ my_port \in [Threads -> PortNumbers]

PortInit ==
    /\ clock = 0
    /\ current_port \in Starts
    /\ port_map = [b \in {} |-> 0]
    /\ readers = {}
    /\ reset_owner = NoThread
    /\ call = [t \in Threads |-> "none"]
    /\ my_port = [t \in Threads |-> 0]

\* fetch_add on an atomic uint16_t: the counter wraps.
\* (Mutation: as if it were wider.)
AdvanceWide(p, n) == p + n
Advance(p, n) == (p + n) % PortSpace

Put(f, k, v) == [x \in DOMAIN f \cup {k} |-> IF x = k THEN v ELSE f[x]]

GotoCall(t, from, to) ==
    /\ call[t] = from
    /\ call' = [call EXCEPT ![t] = to]

\* The thread takes the counter's value and moves it on by a range.
TakeRange(t) ==
    /\ my_port' = [my_port EXCEPT ![t] = current_port]
    /\ current_port' = Advance(current_port, Reserved)

----------------------------------------------------------------------------
(* assign_next                                                             *)

AssignNext(t) ==
    /\ GotoCall(t, "none", IF current_port < MinPort THEN "reset" ELSE "find")
    /\ TakeRange(t)
    /\ readers' = readers \cup {t}
    /\ UNCHANGED <<clock, port_map, reset_owner>>

\* The counter has wrapped, and nobody has reset it meanwhile.
\* (Mutation: whoever waited for the mutex resets it once more.)
NeedsResetAlways == TRUE
NeedsReset == current_port < MinPort

LockReset(t) ==
    /\ reset_owner = NoThread
    /\ reset_owner' = t
    /\ GotoCall(t, "reset", IF NeedsReset THEN "set" ELSE "refetch")
    /\ UNCHANGED <<clock, current_port, port_map, readers, my_port>>

SetToMin(t) ==
    /\ GotoCall(t, "set", "refetch")
    /\ current_port' = MinPort
    /\ UNCHANGED <<clock, port_map, readers, reset_owner, my_port>>

FetchAgain(t) ==
    /\ GotoCall(t, "refetch", "find")
    /\ TakeRange(t)
    /\ reset_owner' = NoThread
    /\ UNCHANGED <<clock, port_map, readers>>

\* Mutation: the shared lock is still held when the other is asked for.
FindKeepsLock(t) ==
    /\ GotoCall(t, "find",
           IF my_port[t] \in DOMAIN port_map THEN "store" ELSE "insert")
    /\ UNCHANGED <<clock, current_port, port_map, readers, reset_owner, my_port>>

\* The end of the scope of the shared lock.
Find(t) ==
    /\ GotoCall(t, "find",
           IF my_port[t] \in DOMAIN port_map THEN "store" ELSE "insert")
    /\ readers' = readers \ {t}
    /\ UNCHANGED <<clock, current_port, port_map, reset_owner, my_port>>

\* insert leaves an entry alone that has come meanwhile.
Insert(t) ==
    /\ GotoCall(t, "insert", "none")
    /\ readers = {}
    /\ port_map' = IF my_port[t] \in DOMAIN port_map THEN port_map
                   ELSE Put(port_map, my_port[t],
                            [current_port |-> Advance(my_port[t], 1),
                             timestamp_ms |-> clock])
    /\ UNCHANGED <<clock, current_port, readers, reset_owner, my_port>>

\* Without a lock: a base port that is used again.  Its time stays.
Store(t) ==
    /\ GotoCall(t, "store", "none")
    /\ port_map' = [port_map EXCEPT
                       ![my_port[t]].current_port = Advance(my_port[t], 1)]
    /\ UNCHANGED <<clock, current_port, readers, reset_owner, my_port>>

AssignSteps(t) ==
    \/ LockReset(t) \/ SetToMin(t) \/ FetchAgain(t)
    \/ Find(t) \/ Insert(t) \/ Store(t)

----------------------------------------------------------------------------
(* assign_next_from_base                                                   *)

\* The ports that simulated hosts take from the NAT in the time since this
\* base port was last used: the product of time, rate and a random factor,
\* rounded.  The threads share the generator of rnd.
Simulated(since, rnd) ==
    (2 * (clock - since) * Rate * rnd + Second * Scale) \div (2 * Second * Scale)

\* A port below the minimum is one of a range that has wrapped.
Lifted(p) == IF p < MinPort THEN Advance(p, MinPort) ELSE p

\* Mutation: the simulated hosts' ports are not passed over.
NextOfBaseLate(t, base, offset) ==
    /\ my_port' = [my_port EXCEPT ![t] = Lifted(port_map[base].current_port)]
    /\ port_map' = [port_map EXCEPT ![base] =
           [current_port |-> Advance(@.current_port, offset + 1),
            timestamp_ms |-> IF Rate = 0 THEN @.timestamp_ms ELSE clock]]
NextOfBase(t, base, offset) ==
    /\ my_port' = [my_port EXCEPT ![t] =
           Lifted(Advance(port_map[base].current_port, offset))]
    /\ port_map' = [port_map EXCEPT ![base] =
           [current_port |-> Advance(@.current_port, offset + 1),
            timestamp_ms |-> IF Rate = 0 THEN @.timestamp_ms ELSE clock]]

AssignNextFromBase(t, base, rnd) ==
    /\ call[t] = "none"
    /\ \/ /\ base \notin DOMAIN port_map
          /\ my_port' = [my_port EXCEPT ![t] = 0]
          /\ UNCHANGED port_map
       \/ /\ base \in DOMAIN port_map
          /\ NextOfBase(t, base,
                 Simulated(port_map[base].timestamp_ms, rnd) % PortSpace)
    /\ UNCHANGED <<clock, current_port, readers, reset_owner, call>>
=============================================================================
