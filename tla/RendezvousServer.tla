-------------------------- MODULE RendezvousServer --------------------------
(***************************************************************************)
(* server/src/udp_p2p_server.h: the server at which two clients of the     *)
(* same transaction find each other.  One thread reads one datagram at a   *)
(* time and handles it to the end, so every case of its switch is one      *)
(* action.  bind_request serves basic hole punching, ps_bind_request the   *)
(* port-scanning variant, in which each client registers two sockets.      *)
(***************************************************************************)
EXTENDS Network, Functions

CONSTANTS
    Expiry,         \* age in ms beyond which a ps transaction is replaced
    MaxTime         \* bound on the clock

ASSUME ServerAssumption == Expiry \in Nat /\ MaxTime \in Nat

VARIABLES
    now,                        \* get_time_in_ms()
    running,                    \* start() is in its receive loop
    transaction_client_map,     \* transaction id -> address
    ps_transaction_client_map   \* transaction id -> ps_transaction_t

serverVars == <<now, running, transaction_client_map,
                ps_transaction_client_map>>

PsTransaction ==
    [cl1_sk1 : SockAddr, cl1_sk2 : SockAddr, cl1_ts1 : Nat, cl1_ts2 : Nat,
     cl2_sk1 : SockAddr, cl2_sk2 : SockAddr, cl2_ts1 : Nat, cl2_ts2 : Nat]

ServerTypeOK ==
    /\ now \in Nat
    /\ running \in BOOLEAN
    /\ DOMAIN transaction_client_map \subseteq Nat
    /\ \A t \in DOMAIN transaction_client_map :
          transaction_client_map[t] \in SockAddr
    /\ DOMAIN ps_transaction_client_map \subseteq Nat
    /\ \A t \in DOMAIN ps_transaction_client_map :
          ps_transaction_client_map[t] \in PsTransaction
    /\ net \subseteq Datagram

EmptyMap == [t \in {} |-> NoAddr]

\* A std::map after an insertion, or an assignment through it->second, and
\* after an erase.  (Mutation: an erase that is forgotten.)
Put(map, t, v) == [s \in DOMAIN map \cup {t} |-> IF s = t THEN v ELSE map[s]]
WithoutForgotten(map, t) == map
Without(map, t) == Restrict(map, DOMAIN map \ {t})

ServerInit ==
    /\ now = 0
    /\ running = TRUE
    /\ transaction_client_map = EmptyMap
    /\ ps_transaction_client_map = EmptyMap

----------------------------------------------------------------------------
(* Basic hole punching                                                     *)

\* The handler reads the id through a reference into the message buffer,
\* after memset has cleared the buffer for the ack: the id is always 0.
BindRequestTid(m) == 0

\* Mutations of Introduce: only the newcomer is told; each is told its own
\* address.
IntroduceToNewcomer(a, b) == {BindReply(ServerSock(1), a, b)}
IntroduceToSelf(a, b) ==
    {BindReply(ServerSock(1), a, a), BindReply(ServerSock(1), b, b)}

\* What the server sends when a second client has come: the address of each
\* to the other.
Introduce(a, b) ==
    {BindReply(ServerSock(1), a, b), BindReply(ServerSock(1), b, a)}

\* The first client of the id is remembered and acknowledged; the second is
\* introduced to the first and the entry is gone.  All answers leave from
\* the first socket.
OnBindRequest(m) ==
    LET t == BindRequestTid(m)
        copeer == transaction_client_map[t]
        ack == Empty("ack", ServerSock(1), m.src)
    IN
    /\ m.type = "bind_request"
    /\ \/ /\ t \notin DOMAIN transaction_client_map
          /\ transaction_client_map' = Put(transaction_client_map, t, m.src)
          /\ Exchange(m, {ack})
       \/ /\ t \in DOMAIN transaction_client_map
          /\ transaction_client_map' = Without(transaction_client_map, t)
          /\ Exchange(m, {ack} \cup Introduce(m.src, copeer))
    /\ UNCHANGED <<now, running, ps_transaction_client_map>>

----------------------------------------------------------------------------
(* Hole punching with port scanning                                        *)

\* Mutation: the timestamp is off by one.
NewTransactionEarly(a) ==
    [cl1_sk1 |-> a, cl1_sk2 |-> NoAddr, cl1_ts1 |-> now - 1, cl1_ts2 |-> 0,
     cl2_sk1 |-> NoAddr, cl2_sk2 |-> NoAddr, cl2_ts1 |-> 0, cl2_ts2 |-> 0]

NewTransaction(a) ==
    [cl1_sk1 |-> a, cl1_sk2 |-> NoAddr, cl1_ts1 |-> now, cl1_ts2 |-> 0,
     cl2_sk1 |-> NoAddr, cl2_sk2 |-> NoAddr, cl2_ts1 |-> 0, cl2_ts2 |-> 0]

\* Mutation: the age is not asked for.
ExpiredNever(tr) == FALSE
Expired(tr) == tr.cl1_ts1 + Expiry < now

\* Mutation: a third client takes the place of the second.
WithClient2Last(tr, a) ==
    IF tr.cl2_sk1.ip = a.ip
    THEN [tr EXCEPT !.cl2_ts2 = now, !.cl2_sk2 = a]
    ELSE [tr EXCEPT !.cl2_ts1 = now, !.cl2_sk1 = a]

\* The transaction after a second client's datagram.  A third client
\* changes nothing.
WithClient2(tr, a) ==
    CASE tr.cl2_sk1.ip = NoIp ->
            [tr EXCEPT !.cl2_ts1 = now, !.cl2_sk1 = a]
      [] tr.cl2_sk1.ip = a.ip ->
            [tr EXCEPT !.cl2_ts2 = now, !.cl2_sk2 = a]
      [] OTHER -> tr

Ready(tr) == tr.cl1_sk2.ip # NoIp /\ tr.cl2_sk2.ip # NoIp

\* Mutation: the addresses are not crossed over.
PsIntroduceToSelf(tr) ==
    {PsBindReply(ServerSock(1), tr.cl1_sk1,
                 tr.cl1_sk1, tr.cl1_sk2, tr.cl1_ts1, tr.cl1_ts2),
     PsBindReply(ServerSock(1), tr.cl2_sk1,
                 tr.cl2_sk1, tr.cl2_sk2, tr.cl2_ts1, tr.cl2_ts2)}

\* What the server sends when a transaction is complete: each client gets
\* the two addresses of the other and the times at which they registered.
\* The answers go from the first socket to the first sockets.
PsIntroduce(tr) ==
    {PsBindReply(ServerSock(1), tr.cl1_sk1,
                 tr.cl2_sk1, tr.cl2_sk2, tr.cl2_ts1, tr.cl2_ts2),
     PsBindReply(ServerSock(1), tr.cl2_sk1,
                 tr.cl1_sk1, tr.cl1_sk2, tr.cl1_ts1, tr.cl1_ts2)}

PsAck(m) == Empty("ack", m.dst, m.src)

PsStore(t, tr) ==
    ps_transaction_client_map' = Put(ps_transaction_client_map, t, tr)

\* Mutation: the transaction is not erased.
PsEraseForgotten(t) == UNCHANGED ps_transaction_client_map

PsErase(t) ==
    ps_transaction_client_map' = Without(ps_transaction_client_map, t)

\* The transaction that m is about, if there is one that has not expired.
PsKnown(m) ==
    /\ m.tid \in DOMAIN ps_transaction_client_map
    /\ ~Expired(ps_transaction_client_map[m.tid])

\* No transaction, or one too old: m starts a new one.
PsFirstClient(m) ==
    /\ ~PsKnown(m)
    /\ PsStore(m.tid, NewTransaction(m.src))
    /\ Exchange(m, {PsAck(m)})

\* A datagram from the first client's host: its second socket, whatever
\* socket it came from.  The handler ends here, ready or not.
PsFirstClientAgain(m) ==
    LET tr == ps_transaction_client_map[m.tid] IN
    /\ PsKnown(m)
    /\ tr.cl1_sk1.ip = m.src.ip
    /\ PsStore(m.tid, [tr EXCEPT !.cl1_ts2 = now, !.cl1_sk2 = m.src])
    /\ Exchange(m, {PsAck(m)})

\* A datagram from any other host: the only case that can complete the
\* transaction.
PsOtherClient(m) ==
    LET tr == ps_transaction_client_map[m.tid]
        new == WithClient2(tr, m.src)
    IN
    /\ PsKnown(m)
    /\ tr.cl1_sk1.ip # m.src.ip
    /\ \/ /\ ~Ready(new)
          /\ PsStore(m.tid, new)
          /\ Exchange(m, {PsAck(m)})
       \/ /\ Ready(new)
          /\ PsErase(m.tid)
          /\ Exchange(m, {PsAck(m)} \cup PsIntroduce(new))

OnPsBindRequest(m) ==
    /\ m.type = "ps_bind_request"
    /\ PsFirstClient(m) \/ PsFirstClientAgain(m) \/ PsOtherClient(m)
    /\ UNCHANGED <<now, running, transaction_client_map>>

----------------------------------------------------------------------------

OnHeartbeat(m) ==
    /\ m.type = "heartbeat"
    /\ Exchange(m, {Empty("ack", ServerSock(1), m.src)})
    /\ UNCHANGED serverVars

\* Mutation: a missing break acknowledges everything.
OnUnexpectedAcked(m) ==
    /\ m.type \notin {"bind_request", "ps_bind_request", "heartbeat"}
    /\ Exchange(m, {Empty("ack", ServerSock(1), m.src)})
    /\ UNCHANGED serverVars

OnUnexpected(m) ==
    /\ m.type \notin {"bind_request", "ps_bind_request", "heartbeat"}
    /\ Exchange(m, {})
    /\ UNCHANGED serverVars

Receive(m) ==
    /\ running
    /\ m.dst \in ServerSocks
    /\ OnBindRequest(m) \/ OnPsBindRequest(m) \/ OnHeartbeat(m) \/ OnUnexpected(m)

\* select or recvfrom fails, or the signal handler ends the process.
Stop ==
    /\ running
    /\ running' = FALSE
    /\ UNCHANGED <<now, transaction_client_map, ps_transaction_client_map, net>>

\* A new process: its maps are empty, the clock has gone on.
Start ==
    /\ ~running
    /\ running' = TRUE
    /\ transaction_client_map' = EmptyMap
    /\ ps_transaction_client_map' = EmptyMap
    /\ UNCHANGED <<now, net>>

Tick ==
    /\ now < MaxTime
    /\ now' = now + 1
    /\ UNCHANGED <<running, transaction_client_map,
                   ps_transaction_client_map, net>>
=============================================================================
