----------------------- MODULE RendezvousServerProofs -----------------------
(***************************************************************************)
(* Lemmas about the rendezvous server, whoever its clients are: what its   *)
(* datagrams and maps are made of, and that its steps keep their types.    *)
(***************************************************************************)
EXTENDS RendezvousServer, TLAPS

\* The three kinds of addresses are apart.
LEMMA AddrFacts ==
    /\ Addr \subseteq SockAddr
    /\ ServerSocks \subseteq SockAddr
    /\ NoAddr \in SockAddr
    /\ NoAddr \notin Addr
    /\ NoAddr.ip = NoIp
    /\ Addr \cap ServerSocks = {}
    /\ \A a \in Addr : a.ip \in Ips /\ a.ip # NoIp
    /\ \A i \in {1, 2} : ServerSock(i) \in ServerSocks
  <1>1. /\ ServerSock(1) = [ip |-> ServerIp, port |-> 3333]
        /\ ServerSock(2) = [ip |-> ServerIp, port |-> 3334]
    BY SMT DEF ServerSock
  <1> QED BY <1>1, NetworkAssumption, SMT
          DEF Addr, SockAddr, ServerSocks, NoAddr

\* What a map has after an erase.
LEMMA WithoutFacts ==
    ASSUME NEW f, NEW t
    PROVE  /\ DOMAIN Without(f, t) = DOMAIN f \ {t}
           /\ \A s \in DOMAIN f \ {t} : Without(f, t)[s] = f[s]
BY DEF Without, Restrict

\* A step that reads m leaves nothing in the network that it does not send.
LEMMA ExchangeFacts ==
    ASSUME NEW m, NEW out, Exchange(m, out)
    PROVE  net' \subseteq net \cup out /\ out \subseteq net'
BY DEF Exchange

\* The constructors make datagrams of their types.
LEMMA DatagramFacts ==
    ASSUME NEW s \in SockAddr, NEW d \in SockAddr, NEW a \in SockAddr,
           NEW b \in SockAddr, NEW t1 \in Nat, NEW t2 \in Nat
    PROVE  /\ Empty("ack", s, d) \in Datagram
           /\ BindReply(s, d, a) \in Datagram
           /\ PsBindReply(s, d, a, b, t1, t2) \in Datagram
BY DEF Empty, BindReply, PsBindReply, Datagram, EmptyTypes

\* What the handler assigns to a transaction keeps its type.
LEMMA UpdateType ==
    ASSUME NEW tr \in PsTransaction, NEW a \in SockAddr, NEW n \in Nat
    PROVE  /\ [tr EXCEPT !.cl1_ts2 = n, !.cl1_sk2 = a] \in PsTransaction
           /\ [tr EXCEPT !.cl2_ts1 = n, !.cl2_sk1 = a] \in PsTransaction
           /\ [tr EXCEPT !.cl2_ts2 = n, !.cl2_sk2 = a] \in PsTransaction
<1>1. /\ [tr EXCEPT !.cl1_ts2 = n] \in PsTransaction
      /\ [tr EXCEPT !.cl2_ts1 = n] \in PsTransaction
      /\ [tr EXCEPT !.cl2_ts2 = n] \in PsTransaction
  BY SMT DEF PsTransaction
<1>2. \A u \in PsTransaction :
         /\ [u EXCEPT !.cl1_sk2 = a] \in PsTransaction
         /\ [u EXCEPT !.cl2_sk1 = a] \in PsTransaction
         /\ [u EXCEPT !.cl2_sk2 = a] \in PsTransaction
  BY SMT DEF PsTransaction
<1> QED BY <1>1, <1>2

----------------------------------------------------------------------------
(* Types                                                                   *)

\* A map after an insertion.
LEMMA PutFacts ==
    ASSUME NEW map, NEW t, NEW v
    PROVE  /\ DOMAIN Put(map, t, v) = DOMAIN map \cup {t}
           /\ Put(map, t, v)[t] = v
           /\ \A s \in DOMAIN map \ {t} : Put(map, t, v)[s] = map[s]
BY DEF Put

\* A map keeps its type over an insertion and over an erase.
LEMMA PutType ==
    ASSUME NEW T, NEW S, NEW map, DOMAIN map \subseteq T,
           \A s \in DOMAIN map : map[s] \in S, NEW t \in T, NEW v \in S
    PROVE  /\ DOMAIN Put(map, t, v) \subseteq T
           /\ \A s \in DOMAIN Put(map, t, v) : Put(map, t, v)[s] \in S
  <1>1. DOMAIN Put(map, t, v) \subseteq T BY DEF Put
  <1>2. ASSUME NEW s \in DOMAIN Put(map, t, v) PROVE Put(map, t, v)[s] \in S
    <2>1. CASE s = t BY <2>1 DEF Put
    <2>2. CASE s # t BY <2>2 DEF Put
    <2> QED BY <2>1, <2>2
  <1> QED BY <1>1, <1>2

LEMMA WithoutType ==
    ASSUME NEW T, NEW S, NEW map, DOMAIN map \subseteq T,
           \A s \in DOMAIN map : map[s] \in S, NEW t
    PROVE  /\ DOMAIN Without(map, t) \subseteq T
           /\ \A s \in DOMAIN Without(map, t) : Without(map, t)[s] \in S
  <1>1. /\ DOMAIN Without(map, t) = DOMAIN map \ {t}
        /\ \A s \in DOMAIN map \ {t} : Without(map, t)[s] = map[s]
    BY WithoutFacts, Zenon
  <1> QED BY <1>1

\* The network keeps its type if what is new in it has it.
LEMMA NetType ==
    ASSUME net \subseteq Datagram, NEW m, NEW out \in SUBSET Datagram,
           Exchange(m, out)
    PROVE  net' \subseteq Datagram
BY ExchangeFacts

LEMMA NewType ==
    ASSUME NEW a \in SockAddr, now \in Nat
    PROVE  NewTransaction(a) \in PsTransaction
BY AddrFacts, SMT DEF NewTransaction, PsTransaction

LEMMA OtherType ==
    ASSUME NEW tr \in PsTransaction, NEW a \in SockAddr, now \in Nat
    PROVE  WithClient2(tr, a) \in PsTransaction
BY UpdateType DEF WithClient2

LEMMA IntroduceType ==
    ASSUME NEW a \in SockAddr, NEW b \in SockAddr
    PROVE  Introduce(a, b) \subseteq Datagram
BY AddrFacts, DatagramFacts, 0 \in Nat DEF Introduce

LEMMA PsIntroduceType ==
    ASSUME NEW tr \in PsTransaction
    PROVE  PsIntroduce(tr) \subseteq Datagram
  <1>1. /\ tr.cl1_sk1 \in SockAddr /\ tr.cl1_sk2 \in SockAddr
        /\ tr.cl2_sk1 \in SockAddr /\ tr.cl2_sk2 \in SockAddr
        /\ tr.cl1_ts1 \in Nat /\ tr.cl1_ts2 \in Nat
        /\ tr.cl2_ts1 \in Nat /\ tr.cl2_ts2 \in Nat
    BY DEF PsTransaction
  <1>2. ServerSock(1) \in SockAddr BY AddrFacts
  <1>3. PsBindReply(ServerSock(1), tr.cl1_sk1,
                    tr.cl2_sk1, tr.cl2_sk2, tr.cl2_ts1, tr.cl2_ts2) \in Datagram
    BY <1>1, <1>2, DatagramFacts
  <1>4. PsBindReply(ServerSock(1), tr.cl2_sk1,
                    tr.cl1_sk1, tr.cl1_sk2, tr.cl1_ts1, tr.cl1_ts2) \in Datagram
    BY <1>1, <1>2, DatagramFacts
  <1> QED BY <1>3, <1>4 DEF PsIntroduce

LEMMA AckType ==
    ASSUME NEW s \in ServerSocks, NEW a \in SockAddr
    PROVE  Empty("ack", s, a) \in Datagram
BY AddrFacts, DatagramFacts, 0 \in Nat

LEMMA BindRequestType ==
    ASSUME ServerTypeOK, NEW m \in net, m.src \in SockAddr, OnBindRequest(m)
    PROVE  ServerTypeOK'
  <1> DEFINE t == BindRequestTid(m)
             copeer == transaction_client_map[t]
             ack == Empty("ack", ServerSock(1), m.src)
  <1>1. t \in Nat /\ ack \in Datagram BY AckType, AddrFacts DEF BindRequestTid
  <1>2. UNCHANGED <<now, running, ps_transaction_client_map>> BY DEF OnBindRequest
  <1>3. CASE /\ transaction_client_map' = Put(transaction_client_map, t, m.src)
             /\ Exchange(m, {ack})
    <2>1. net' \subseteq Datagram
      BY <1>1, <1>3, NetType DEF ServerTypeOK
    <2>2. /\ DOMAIN transaction_client_map' \subseteq Nat
          /\ \A s \in DOMAIN transaction_client_map' :
                transaction_client_map'[s] \in SockAddr
      BY <1>1, <1>3, PutType DEF ServerTypeOK
    <2> QED BY <1>2, <2>1, <2>2 DEF ServerTypeOK
  <1>4. CASE /\ t \in DOMAIN transaction_client_map
             /\ transaction_client_map' = Without(transaction_client_map, t)
             /\ Exchange(m, {ack} \cup Introduce(m.src, copeer))
    <2>1. copeer \in SockAddr BY <1>4 DEF ServerTypeOK
    <2>2. {ack} \cup Introduce(m.src, copeer) \subseteq Datagram
      BY <1>1, <2>1, IntroduceType
    <2>3. net' \subseteq Datagram BY <1>4, <2>2, NetType DEF ServerTypeOK
    <2>4. /\ DOMAIN transaction_client_map' \subseteq Nat
          /\ \A s \in DOMAIN transaction_client_map' :
                transaction_client_map'[s] \in SockAddr
      BY <1>4, WithoutType DEF ServerTypeOK
    <2> QED BY <1>2, <2>3, <2>4 DEF ServerTypeOK
  <1> QED BY <1>3, <1>4 DEF OnBindRequest

LEMMA PsBindRequestType ==
    ASSUME ServerTypeOK, NEW m \in net, m.src \in SockAddr, m.dst \in ServerSocks,
           OnPsBindRequest(m)
    PROVE  ServerTypeOK'
  <1> DEFINE t == m.tid
             tr == ps_transaction_client_map[t]
  <1>1. t \in Nat
    BY DEF OnPsBindRequest, ServerTypeOK, Datagram, TidTypes, EmptyTypes
  <1>2. PsAck(m) \in Datagram BY AckType DEF PsAck
  <1>3. UNCHANGED <<now, running, transaction_client_map>> BY DEF OnPsBindRequest
  <1>4. now \in Nat BY DEF ServerTypeOK
  <1>5. \A new \in PsTransaction :
            PsStore(t, new) /\ Exchange(m, {PsAck(m)}) => ServerTypeOK'
    <2> SUFFICES ASSUME NEW new \in PsTransaction, PsStore(t, new),
                        Exchange(m, {PsAck(m)})
                 PROVE  ServerTypeOK'
      OBVIOUS
    <2>1. net' \subseteq Datagram BY <1>2, NetType DEF ServerTypeOK
    <2>2. ps_transaction_client_map' = Put(ps_transaction_client_map, t, new)
      BY DEF PsStore
    <2>3. /\ DOMAIN ps_transaction_client_map' \subseteq Nat
          /\ \A s \in DOMAIN ps_transaction_client_map' :
                ps_transaction_client_map'[s] \in PsTransaction
      BY <1>1, <2>2, PutType DEF ServerTypeOK
    <2> QED BY <1>3, <2>1, <2>3 DEF ServerTypeOK
  <1>6. PsKnown(m) => tr \in PsTransaction BY DEF PsKnown, ServerTypeOK
  <1>7. CASE PsFirstClient(m)
    BY <1>4, <1>5, <1>7, NewType DEF PsFirstClient
  <1>8. CASE PsFirstClientAgain(m)
    BY <1>4, <1>5, <1>6, <1>8, UpdateType DEF PsFirstClientAgain
  <1>9. CASE PsOtherClient(m)
    <2> DEFINE new == WithClient2(tr, m.src)
    <2>1. new \in PsTransaction BY <1>4, <1>6, <1>9, OtherType DEF PsOtherClient
    <2> HIDE DEF new
    <2>2. CASE PsStore(t, new) /\ Exchange(m, {PsAck(m)})
      BY <1>5, <2>1, <2>2
    <2>3. CASE PsErase(t) /\ Exchange(m, {PsAck(m)} \cup PsIntroduce(new))
      <3>1. {PsAck(m)} \cup PsIntroduce(new) \subseteq Datagram
        BY <1>2, <2>1, PsIntroduceType
      <3>2. net' \subseteq Datagram BY <2>3, <3>1, NetType DEF ServerTypeOK
      <3>3. ps_transaction_client_map' = Without(ps_transaction_client_map, t)
        BY <2>3 DEF PsErase
      <3>4. /\ DOMAIN ps_transaction_client_map' \subseteq Nat
            /\ \A s \in DOMAIN ps_transaction_client_map' :
                  ps_transaction_client_map'[s] \in PsTransaction
        BY <3>3, WithoutType DEF ServerTypeOK
      <3> QED BY <1>3, <3>2, <3>4 DEF ServerTypeOK
    <2> QED BY <1>9, <2>2, <2>3 DEF PsOtherClient, new
  <1> QED BY <1>7, <1>8, <1>9 DEF OnPsBindRequest

\* Every datagram of whatever client keeps the server's types.
LEMMA ReceiveType ==
    ASSUME ServerTypeOK, NEW m \in net, Receive(m)
    PROVE  ServerTypeOK'
  <1>1. m.src \in SockAddr BY DEF ServerTypeOK, Datagram
  <1>2. m.dst \in ServerSocks BY DEF Receive
  <1>3. CASE OnBindRequest(m) BY <1>1, <1>3, BindRequestType
  <1>4. CASE OnPsBindRequest(m) BY <1>1, <1>2, <1>4, PsBindRequestType
  <1>5. CASE OnHeartbeat(m) \/ OnUnexpected(m)
    <2>1. Empty("ack", ServerSock(1), m.src) \in Datagram
      BY <1>1, AddrFacts, AckType
    <2>2. net' \subseteq Datagram
      BY <1>5, <2>1, NetType DEF OnHeartbeat, OnUnexpected, ServerTypeOK
    <2> QED BY <1>5, <2>2 DEF OnHeartbeat, OnUnexpected, serverVars, ServerTypeOK
  <1> QED BY <1>3, <1>4, <1>5 DEF Receive

\* What others put into the network does not touch the server.
LEMMA OthersType ==
    ASSUME ServerTypeOK, net' \subseteq Datagram, UNCHANGED serverVars
    PROVE  ServerTypeOK'
BY DEF ServerTypeOK, serverVars

LEMMA RestartType ==
    ASSUME ServerTypeOK, Stop \/ Start \/ Tick
    PROVE  ServerTypeOK'
  <1>1. CASE Stop BY <1>1 DEF Stop, ServerTypeOK
  <1>2. CASE Start
    <2>1. /\ DOMAIN transaction_client_map' = {}
          /\ DOMAIN ps_transaction_client_map' = {}
      BY <1>2 DEF Start, EmptyMap
    <2> QED BY <1>2, <2>1 DEF Start, ServerTypeOK
  <1>3. CASE Tick
    <2>1. now' \in Nat BY <1>3, SMT DEF Tick, ServerTypeOK
    <2> QED BY <1>3, <2>1 DEF Tick, ServerTypeOK
  <1> QED BY <1>1, <1>2, <1>3
=============================================================================
