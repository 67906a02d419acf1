----------------------------- MODULE OpenServer -----------------------------
(***************************************************************************)
(* The rendezvous server among clients that may send any request at any    *)
(* time, from any socket, any number of times: what the server does is     *)
(* checked against every order of registrations, retries, duplicates and   *)
(* expiries, not only those that p2p_connector.h produces.                 *)
(***************************************************************************)
EXTENDS RendezvousServer

CONSTANTS
    Sends,          \* the message types that clients send
    MaxInFlight     \* bound on the datagrams in flight when a client sends

vars == <<net, serverVars>>

Requests ==
    [type : Sends \cap TidTypes, src : Addr, dst : ServerSocks, tid : Tids]
    \cup [type : Sends \cap EmptyTypes, src : Addr, dst : ServerSocks]

\* A client sends; any datagrams in flight may have arrived or be lost.
ClientSends ==
    \E m \in Requests, kept \in SUBSET net :
        /\ Cardinality(kept) < MaxInFlight
        /\ net' = kept \cup {m}
        /\ UNCHANGED serverVars

Init == ServerInit /\ net = {}

Next ==
    \/ ClientSends
    \/ \E m \in net : Receive(m)
    \/ Stop
    \/ Start
    \/ Tick

Spec == Init /\ [][Next]_vars

----------------------------------------------------------------------------
(* Properties                                                              *)

PsReplies(N) == {r \in N : r.type = "ps_bind_reply"}
BindReplies(N) == {r \in N : r.type = "bind_reply"}

\* try_start_ps_connection divides by T2 - T1 + 1 and extrapolates from two
\* ports that it takes to be the same host's: every introduction names one
\* host, not the recipient, and its times are in order and in one window.
IntroductionSound(r) ==
    /\ r.addr_one.ip = r.addr_two.ip
    /\ r.addr_one.ip # r.dst.ip
    /\ r.T1 <= r.T2
    /\ r.T2 <= r.T1 + Expiry

PsIntroductionsSound == \A r \in PsReplies(net) : IntroductionSound(r)

\* A ps transaction holds two sockets of one host, or one, and no or one or
\* two sockets of another host; no socket was recorded before the first one
\* of its host, after the present, or after the transaction expired.  The
\* handler asks only for the age of the first socket of client 1 (line 174).
ClientSound(sk1, sk2, ts1, ts2, start) ==
    /\ sk1 \in Addr
    /\ start <= ts1
    /\ ts1 <= now
    /\ ts1 <= start + Expiry
    /\ sk2 # NoAddr =>
          /\ sk2 \in Addr
          /\ sk2.ip = sk1.ip
          /\ ts1 <= ts2
          /\ ts2 <= now
          /\ ts2 <= start + Expiry

TransactionSound(tr) ==
    /\ ClientSound(tr.cl1_sk1, tr.cl1_sk2, tr.cl1_ts1, tr.cl1_ts2, tr.cl1_ts1)
    /\ IF tr.cl2_sk1 = NoAddr THEN tr.cl2_sk2 = NoAddr
       ELSE /\ ClientSound(tr.cl2_sk1, tr.cl2_sk2, tr.cl2_ts1, tr.cl2_ts2,
                           tr.cl1_ts1)
            /\ tr.cl2_sk1.ip # tr.cl1_sk1.ip

TransactionsSound ==
    \A t \in DOMAIN ps_transaction_client_map :
        TransactionSound(ps_transaction_client_map[t])

\* No client learns of another without the other learning of it: bind
\* replies leave the server in pairs that name each other's recipients
\* (lines 214-236 and 274-289 of udp_p2p_server.h).
IntroducedTogether ==
    [][/\ \A r \in PsReplies(net' \ net) :
             \E p \in PsReplies(net') :
                p.dst = r.addr_one /\ p.addr_one = r.dst
       /\ \A r \in BindReplies(net' \ net) :
             \E p \in BindReplies(net') : p.dst = r.addr /\ p.addr = r.dst
      ]_vars

\* A registered client is not forgotten in silence: while the server runs,
\* a waiting client stays, and an unexpired transaction keeps its two first
\* sockets, until the step that introduces them.
TransactionKept(t) ==
    LET tr == ps_transaction_client_map[t]
        new == ps_transaction_client_map'[t]
    IN
    \/ /\ t \in DOMAIN ps_transaction_client_map'
       /\ new.cl1_sk1 = tr.cl1_sk1
       /\ tr.cl2_sk1 # NoAddr => new.cl2_sk1 = tr.cl2_sk1
    \/ /\ \E r \in PsReplies(net') : r.dst = tr.cl1_sk1
       /\ \E r \in PsReplies(net') : r.addr_one = tr.cl1_sk1
    \/ Expired(tr)

WaiterKept(t) ==
    LET a == transaction_client_map[t] IN
    \/ /\ t \in DOMAIN transaction_client_map'
       /\ transaction_client_map'[t] = a
    \/ /\ \E r \in BindReplies(net') : r.dst = a
       /\ \E r \in BindReplies(net') : r.addr = a

RegistrationKept ==
    [][running /\ running' =>
        /\ \A t \in DOMAIN ps_transaction_client_map : TransactionKept(t)
        /\ \A t \in DOMAIN transaction_client_map : WaiterKept(t)
      ]_vars

\* The server logs "RDY" and answers when both clients have registered both
\* sockets (lines 203-209): no complete transaction is left waiting.
CompleteIsAnswered ==
    \A t \in DOMAIN ps_transaction_client_map :
        ~Ready(ps_transaction_client_map[t])

----------------------------------------------------------------------------
(* The server implements the matchmaker                                    *)

PartyOf(t) ==
    IF t \notin DOMAIN ps_transaction_client_map THEN <<>>
    ELSE LET tr == ps_transaction_client_map[t] IN
         IF tr.cl2_sk1 = NoAddr THEN <<tr.cl1_sk1.ip>>
         ELSE <<tr.cl1_sk1.ip, tr.cl2_sk1.ip>>

Offers == {<<r.dst.ip, r.addr_one.ip>> : r \in PsReplies(net)}

M == INSTANCE Matchmaker WITH
        Hosts <- Ips, Transactions <- Tids,
        party <- [t \in Tids |-> PartyOf(t)], offers <- Offers

\* Every step of the server is a step of the matchmaker or invisible to it.
Matchmaking == M!Spec
=============================================================================
