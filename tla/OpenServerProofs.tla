-------------------------- MODULE OpenServerProofs --------------------------
(***************************************************************************)
(* Proofs about the rendezvous server among arbitrary clients, for any     *)
(* number of hosts, ports and transactions and any expiry: its invariants, *)
(* what it promises its clients (how a step may change registrations and   *)
(* introductions), and that every step is one of the matchmaker.           *)
(***************************************************************************)
EXTENDS OpenServer, RendezvousServerProofs, Sequences, SequenceTheorems

\* What a client sends to the server comes from a client's address.
FromClients == \A m \in net : m.dst \in ServerSocks => m.src \in Addr

WaitersAreClients ==
    \A t \in DOMAIN transaction_client_map : transaction_client_map[t] \in Addr

NetInv ==
    /\ net \subseteq Datagram
    /\ FromClients
    /\ PsIntroductionsSound

MapInv ==
    /\ DOMAIN transaction_client_map \subseteq Nat
    /\ WaitersAreClients
    /\ DOMAIN ps_transaction_client_map \subseteq Nat
    /\ \A t \in DOMAIN ps_transaction_client_map :
          ps_transaction_client_map[t] \in PsTransaction
    /\ TransactionsSound

\* The inductive invariant.  TransactionsSound is what makes an introduction
\* sound at the step that sends it; the rest says whose addresses these are.
IInv == now \in Nat /\ running \in BOOLEAN /\ MapInv /\ NetInv

----------------------------------------------------------------------------
(* The network                                                             *)

\* The network stays sound if what is new in it is.
LEMMA NetPreserved ==
    ASSUME NetInv, NEW out, net' \subseteq net \cup out,
           \A r \in out :
               /\ r \in Datagram
               /\ r.dst \in ServerSocks => r.src \in Addr
               /\ r.type = "ps_bind_reply" => IntroductionSound(r)
    PROVE  NetInv'
<1>1. \A r \in net' : r \in Datagram BY DEF NetInv
<1>2. FromClients' BY DEF NetInv, FromClients
<1>3. PsIntroductionsSound'
  BY DEF NetInv, PsIntroductionsSound, PsReplies, IntroductionSound
<1> QED BY <1>1, <1>2, <1>3 DEF NetInv

----------------------------------------------------------------------------
(* The steps of ps_bind_request                                            *)

\* A new transaction is sound.
LEMMA NewSound ==
    ASSUME NEW a \in Addr, now \in Nat
    PROVE  /\ NewTransaction(a) \in PsTransaction
           /\ TransactionSound(NewTransaction(a))
<1>1. NewTransaction(a) \in PsTransaction
  BY AddrFacts, SMT DEF NewTransaction, PsTransaction
<1>2. TransactionSound(NewTransaction(a))
  BY AddrFacts, ServerAssumption, SMT
  DEF NewTransaction, TransactionSound, ClientSound
<1> QED BY <1>1, <1>2

\* The second socket of client 1 keeps an unexpired transaction sound.
LEMMA AgainSound ==
    ASSUME NEW tr \in PsTransaction, NEW a \in Addr, now \in Nat,
           TransactionSound(tr), ~Expired(tr), tr.cl1_sk1.ip = a.ip
    PROVE  LET new == [tr EXCEPT !.cl1_ts2 = now, !.cl1_sk2 = a] IN
           new \in PsTransaction /\ TransactionSound(new)
<1> DEFINE new == [tr EXCEPT !.cl1_ts2 = now, !.cl1_sk2 = a]
<1>1. new \in PsTransaction
  BY AddrFacts, UpdateType
<1>2. now <= tr.cl1_ts1 + Expiry
  BY ServerAssumption, SMT DEF Expired, PsTransaction
<1>3. TransactionSound(new)
  BY <1>2, AddrFacts, ServerAssumption, SMT
  DEF TransactionSound, ClientSound, PsTransaction
<1> QED BY <1>1, <1>3

\* So does any socket of another host.
LEMMA OtherSound ==
    ASSUME NEW tr \in PsTransaction, NEW a \in Addr, now \in Nat,
           TransactionSound(tr), ~Expired(tr), tr.cl1_sk1.ip # a.ip
    PROVE  WithClient2(tr, a) \in PsTransaction
           /\ TransactionSound(WithClient2(tr, a))
<1> DEFINE new == WithClient2(tr, a)
<1>1. now <= tr.cl1_ts1 + Expiry
  BY ServerAssumption, SMT DEF Expired, PsTransaction
<1>a. a \in SockAddr
  BY AddrFacts
<1>2. tr.cl2_sk1 = NoAddr <=> tr.cl2_sk1.ip = NoIp
  BY AddrFacts, SMT DEF TransactionSound, ClientSound
<1>b. /\ tr.cl1_ts1 \in Nat /\ tr.cl2_ts1 \in Nat /\ Expiry \in Nat
      /\ a # NoAddr
  BY AddrFacts, ServerAssumption DEF PsTransaction
<1>c. /\ tr.cl1_ts1 <= now
      /\ ClientSound(tr.cl1_sk1, tr.cl1_sk2, tr.cl1_ts1, tr.cl1_ts2, tr.cl1_ts1)
  BY DEF TransactionSound, ClientSound
<1>d. /\ [tr EXCEPT !.cl2_ts1 = now, !.cl2_sk1 = a] \in PsTransaction
      /\ [tr EXCEPT !.cl2_ts2 = now, !.cl2_sk2 = a] \in PsTransaction
  BY <1>a, UpdateType
<1>3. CASE tr.cl2_sk1.ip = NoIp
  <2>1. new = [tr EXCEPT !.cl2_ts1 = now, !.cl2_sk1 = a]
    BY <1>3, AddrFacts DEF WithClient2
  <2>2. new \in PsTransaction BY <1>d, <2>1
  <2>3. /\ new.cl1_sk1 = tr.cl1_sk1 /\ new.cl1_sk2 = tr.cl1_sk2
        /\ new.cl1_ts1 = tr.cl1_ts1 /\ new.cl1_ts2 = tr.cl1_ts2
        /\ new.cl2_sk1 = a /\ new.cl2_sk2 = tr.cl2_sk2 /\ new.cl2_ts1 = now
    BY <2>1 DEF PsTransaction
  <2> HIDE DEF new
  <2>4. tr.cl2_sk1 = NoAddr /\ tr.cl2_sk2 = NoAddr
    BY <1>2, <1>3 DEF TransactionSound
  <2>5. ClientSound(a, NoAddr, now, new.cl2_ts2, tr.cl1_ts1)
    BY <1>1, <1>b, <1>c DEF ClientSound
  <2>6. TransactionSound(new)
    BY <1>b, <1>c, <2>3, <2>4, <2>5 DEF TransactionSound
  <2> QED BY <2>2, <2>6 DEF new
<1>4. CASE tr.cl2_sk1.ip # NoIp /\ tr.cl2_sk1.ip = a.ip
  <2>1. new = [tr EXCEPT !.cl2_ts2 = now, !.cl2_sk2 = a]
    BY <1>4 DEF WithClient2
  <2>2. new \in PsTransaction BY <1>d, <2>1
  <2>3. /\ new.cl1_sk1 = tr.cl1_sk1 /\ new.cl1_sk2 = tr.cl1_sk2
        /\ new.cl1_ts1 = tr.cl1_ts1 /\ new.cl1_ts2 = tr.cl1_ts2
        /\ new.cl2_sk1 = tr.cl2_sk1 /\ new.cl2_ts1 = tr.cl2_ts1
        /\ new.cl2_sk2 = a /\ new.cl2_ts2 = now
    BY <2>1 DEF PsTransaction
  <2> HIDE DEF new
  <2>4. /\ tr.cl2_sk1 # NoAddr /\ tr.cl2_sk1.ip # tr.cl1_sk1.ip
        /\ ClientSound(tr.cl2_sk1, tr.cl2_sk2, tr.cl2_ts1, tr.cl2_ts2,
                       tr.cl1_ts1)
    BY <1>2, <1>4 DEF TransactionSound
  <2>5. ClientSound(tr.cl2_sk1, a, tr.cl2_ts1, now, tr.cl1_ts1)
    BY <1>1, <1>4, <1>b, <2>4 DEF ClientSound
  <2>6. TransactionSound(new)
    BY <1>c, <2>3, <2>4, <2>5 DEF TransactionSound
  <2> QED BY <2>2, <2>6 DEF new
<1>5. CASE tr.cl2_sk1.ip # NoIp /\ tr.cl2_sk1.ip # a.ip
  BY <1>5 DEF WithClient2
<1> QED BY <1>3, <1>4, <1>5

\* A complete and sound transaction makes sound introductions.
LEMMA IntroductionsSound ==
    ASSUME NEW tr \in PsTransaction, TransactionSound(tr), Ready(tr)
    PROVE  \A r \in PsIntroduce(tr) :
               /\ r \in Datagram
               /\ r.dst \notin ServerSocks
               /\ IntroductionSound(r)
<1>1. /\ tr.cl1_sk1 \in Addr /\ tr.cl1_sk2 \in Addr
      /\ tr.cl1_sk2.ip = tr.cl1_sk1.ip
      /\ tr.cl1_ts1 <= tr.cl1_ts2 /\ tr.cl1_ts2 <= tr.cl1_ts1 + Expiry
  BY AddrFacts, SMT DEF TransactionSound, ClientSound, Ready
<1>2. /\ tr.cl2_sk1 \in Addr /\ tr.cl2_sk2 \in Addr
      /\ tr.cl2_sk2.ip = tr.cl2_sk1.ip
      /\ tr.cl2_sk1.ip # tr.cl1_sk1.ip
      /\ tr.cl2_ts1 <= tr.cl2_ts2 /\ tr.cl2_ts2 <= tr.cl1_ts1 + Expiry
      /\ tr.cl1_ts1 <= tr.cl2_ts1
  BY AddrFacts, SMT DEF TransactionSound, ClientSound, Ready
<1>3. /\ tr.cl1_ts1 \in Nat /\ tr.cl1_ts2 \in Nat
      /\ tr.cl2_ts1 \in Nat /\ tr.cl2_ts2 \in Nat
  BY DEF PsTransaction
<1>4. tr.cl2_ts2 <= tr.cl2_ts1 + Expiry
  BY <1>2, <1>3, ServerAssumption, SMT
<1>6. TAKE r \in PsIntroduce(tr)
<1>7. r \in Datagram BY <1>6, PsIntroduceType
<1>8. r.dst \notin ServerSocks
  <2>1. r.dst = tr.cl1_sk1 \/ r.dst = tr.cl2_sk1
    BY <1>6 DEF PsIntroduce, PsBindReply
  <2> QED BY <1>1, <1>2, <2>1, AddrFacts
<1>9. IntroductionSound(r)
  BY <1>1, <1>2, <1>3, <1>4, <1>6, SMT
  DEF PsIntroduce, PsBindReply, IntroductionSound
<1> QED BY <1>7, <1>8, <1>9

----------------------------------------------------------------------------
(* The invariant                                                           *)

\* Storing a sound transaction, or erasing one, keeps the maps sound.
LEMMA MapPreserved ==
    ASSUME IInv, NEW t \in Nat,
           now' = now, transaction_client_map' = transaction_client_map,
           \/ \E tr \in PsTransaction : TransactionSound(tr) /\ PsStore(t, tr)
           \/ PsErase(t)
    PROVE  MapInv'
<1> USE DEF IInv, MapInv
<1>1. WaitersAreClients' BY DEF WaitersAreClients
<1>2. CASE PsErase(t)
  <2> DEFINE map == ps_transaction_client_map'
  <2>1. /\ DOMAIN map = DOMAIN ps_transaction_client_map \ {t}
        /\ \A s \in DOMAIN map : map[s] = ps_transaction_client_map[s]
    BY <1>2, WithoutFacts, Zenon DEF PsErase
  <2>2. \A s \in DOMAIN map :
           map[s] \in PsTransaction /\ TransactionSound(map[s])
    BY <2>1 DEF TransactionsSound
  <2>3. TransactionsSound'
    BY <2>2 DEF TransactionsSound, TransactionSound, ClientSound
  <2> QED BY <1>1, <2>1, <2>2, <2>3
<1>3. ASSUME NEW tr \in PsTransaction, TransactionSound(tr), PsStore(t, tr)
      PROVE  MapInv'
  <2> DEFINE map == ps_transaction_client_map'
  <2>1. /\ DOMAIN map = DOMAIN ps_transaction_client_map \cup {t}
        /\ map[t] = tr
        /\ \A s \in DOMAIN ps_transaction_client_map \ {t} :
              map[s] = ps_transaction_client_map[s]
    <3>1. map = Put(ps_transaction_client_map, t, tr)
      BY <1>3 DEF PsStore
    <3> HIDE DEF map
    <3> QED BY <3>1 DEF Put
  <2>2. \A s \in DOMAIN map : map[s] \in PsTransaction
    BY <1>3, <2>1
  <2>3. \A s \in DOMAIN map : TransactionSound(map[s])
    BY <1>3, <2>1 DEF TransactionsSound
  <2>4. TransactionsSound'
    BY <2>3 DEF TransactionsSound, TransactionSound, ClientSound
  <2> QED BY <1>1, <2>1, <2>2, <2>4
<1> QED BY <1>2, <1>3

\* An ack is a sound datagram.
LEMMA AckSound ==
    ASSUME NEW s \in ServerSocks, NEW a \in Addr
    PROVE  LET r == Empty("ack", s, a) IN
           /\ r \in Datagram
           /\ r.dst \notin ServerSocks
           /\ r.type # "ps_bind_reply"
<1>1. s \in SockAddr /\ a \in SockAddr /\ a \notin ServerSocks
  BY AddrFacts
<1>2. Empty("ack", s, a) \in Datagram
  BY <1>1, DatagramFacts, 0 \in Nat
<1> QED BY <1>1, <1>2 DEF Empty

LEMMA BindRequestInv ==
    ASSUME IInv, NEW m \in net, m.src \in Addr, OnBindRequest(m)
    PROVE  IInv'
<1> DEFINE t == BindRequestTid(m)
           copeer == transaction_client_map[t]
           ack == Empty("ack", ServerSock(1), m.src)
<1>0. t \in Nat /\ ServerSock(1) \in ServerSocks
  BY AddrFacts DEF BindRequestTid
<1>1. /\ ack \in Datagram
      /\ ack.dst \notin ServerSocks
      /\ ack.type # "ps_bind_reply"
  BY <1>0, AckSound
<1>2. TransactionsSound'
  BY DEF OnBindRequest, IInv, MapInv, TransactionsSound, TransactionSound,
         ClientSound
<1>3. CASE /\ transaction_client_map' = Put(transaction_client_map, t, m.src)
           /\ Exchange(m, {ack})
  <2> DEFINE map == transaction_client_map'
  <2>a. /\ DOMAIN map = DOMAIN transaction_client_map \cup {t}
        /\ map[t] = m.src
        /\ \A s \in DOMAIN transaction_client_map \ {t} :
              map[s] = transaction_client_map[s]
    <3>1. map = Put(transaction_client_map, t, m.src)
      BY <1>3
    <3> HIDE DEF map
    <3> QED BY <3>1 DEF Put
  <2>b. \A s \in DOMAIN map : map[s] \in Addr
    BY <2>a DEF IInv, MapInv, WaitersAreClients
  <2>c. UNCHANGED ps_transaction_client_map
    BY DEF OnBindRequest
  <2>1. MapInv'
    <3> HIDE DEF map
    <3>1. /\ transaction_client_map' = map
          /\ t \in Nat
      BY <1>0 DEF map
    <3>2. WaitersAreClients' BY <2>b, <3>1 DEF WaitersAreClients
    <3>3. DOMAIN transaction_client_map' \subseteq Nat
      BY <2>a, <3>1 DEF IInv, MapInv
    <3>4. /\ DOMAIN ps_transaction_client_map' \subseteq Nat
          /\ \A s \in DOMAIN ps_transaction_client_map' :
                ps_transaction_client_map'[s] \in PsTransaction
      BY <2>c DEF IInv, MapInv
    <3> QED BY <1>2, <3>2, <3>3, <3>4 DEF MapInv
  <2>2. NetInv'
    BY <1>1, <1>3, ExchangeFacts, NetPreserved DEF IInv
  <2> QED BY <2>1, <2>2 DEF IInv, OnBindRequest
<1>4. CASE /\ t \in DOMAIN transaction_client_map
           /\ transaction_client_map' = Without(transaction_client_map, t)
           /\ Exchange(m, {ack} \cup Introduce(m.src, copeer))
  <2>1. MapInv'
    <3>1. /\ DOMAIN transaction_client_map' = DOMAIN transaction_client_map \ {t}
          /\ \A s \in DOMAIN transaction_client_map \ {t} :
                transaction_client_map'[s] = transaction_client_map[s]
      BY <1>4, WithoutFacts
    <3>2. /\ WaitersAreClients'
          /\ DOMAIN transaction_client_map' \subseteq Nat
      BY <3>1 DEF IInv, MapInv, WaitersAreClients
    <3>3. /\ DOMAIN ps_transaction_client_map' \subseteq Nat
          /\ \A s \in DOMAIN ps_transaction_client_map' :
                ps_transaction_client_map'[s] \in PsTransaction
      BY DEF IInv, MapInv, OnBindRequest
    <3> QED BY <1>2, <3>2, <3>3 DEF MapInv
  <2>2. \A a, b \in Addr :
           LET r == BindReply(ServerSock(1), a, b) IN
           /\ r \in Datagram
           /\ r.dst \notin ServerSocks
           /\ r.type # "ps_bind_reply"
    <3> SUFFICES ASSUME NEW a \in Addr, NEW b \in Addr
                 PROVE  LET r == BindReply(ServerSock(1), a, b) IN
                        /\ r \in Datagram
                        /\ r.dst \notin ServerSocks
                        /\ r.type # "ps_bind_reply"
      OBVIOUS
    <3>1. /\ a \in SockAddr /\ b \in SockAddr /\ ServerSock(1) \in SockAddr
          /\ a \notin ServerSocks
      BY <1>0, AddrFacts
    <3>2. BindReply(ServerSock(1), a, b) \in Datagram
      BY <3>1, DatagramFacts, 0 \in Nat
    <3> QED BY <3>1, <3>2 DEF BindReply
  <2>3. copeer \in Addr
    BY <1>4 DEF IInv, MapInv, WaitersAreClients
  <2>4. NetInv'
    BY <1>1, <1>4, <2>2, <2>3, ExchangeFacts, NetPreserved
    DEF IInv, Introduce
  <2> QED BY <2>1, <2>4 DEF IInv, OnBindRequest
<1> QED BY <1>3, <1>4 DEF OnBindRequest

LEMMA PsBindRequestInv ==
    ASSUME IInv, NEW m \in net, m.src \in Addr, m.dst \in ServerSocks,
           OnPsBindRequest(m)
    PROVE  IInv'
<1> DEFINE tr == ps_transaction_client_map[m.tid]
           ack == PsAck(m)
<1>1. /\ ack \in Datagram
      /\ ack.dst \notin ServerSocks
      /\ ack.type # "ps_bind_reply"
  BY AckSound DEF PsAck
<1>2. m.tid \in Nat
  BY DEF OnPsBindRequest, IInv, NetInv, Datagram, TidTypes, EmptyTypes
<1>3. /\ now' = now /\ now \in Nat /\ running' = running
      /\ transaction_client_map' = transaction_client_map
  BY DEF OnPsBindRequest, IInv
<1>4. PsKnown(m) =>
        tr \in PsTransaction /\ TransactionSound(tr) /\ ~Expired(tr)
  BY DEF PsKnown, IInv, MapInv, TransactionsSound
<1>5. Exchange(m, {ack}) => NetInv'
  BY <1>1, ExchangeFacts, NetPreserved DEF IInv
<1>6. \A new \in PsTransaction :
         TransactionSound(new) /\ PsStore(m.tid, new) => MapInv'
  BY <1>2, <1>3, MapPreserved
<1>7. CASE PsFirstClient(m)
  BY <1>3, <1>5, <1>6, <1>7, NewSound DEF PsFirstClient, IInv
<1>8. CASE PsFirstClientAgain(m)
  BY <1>3, <1>4, <1>5, <1>6, <1>8, AgainSound DEF PsFirstClientAgain, IInv
<1>9. CASE PsOtherClient(m)
  <2> DEFINE new == WithClient2(tr, m.src)
  <2>1. new \in PsTransaction /\ TransactionSound(new)
    BY <1>3, <1>4, <1>9, OtherSound DEF PsOtherClient
  <2>2. CASE PsStore(m.tid, new) /\ Exchange(m, {ack})
    BY <1>3, <1>5, <1>6, <2>1, <2>2 DEF IInv
  <2>3. CASE /\ Ready(new) /\ PsErase(m.tid)
             /\ Exchange(m, {ack} \cup PsIntroduce(new))
    <3>1. MapInv'
      BY <1>2, <1>3, <2>3, MapPreserved
    <3>2. NetInv'
      BY <1>1, <2>1, <2>3, IntroductionsSound, ExchangeFacts, NetPreserved
      DEF IInv
    <3> QED BY <1>3, <3>1, <3>2 DEF IInv
  <2> QED BY <1>9, <2>2, <2>3 DEF PsOtherClient
<1> QED BY <1>7, <1>8, <1>9 DEF OnPsBindRequest

\* Every datagram that the server can read keeps the invariant.
LEMMA ReceiveInv ==
    ASSUME IInv, NEW m \in net, Receive(m)
    PROVE  IInv'
<1>1. m.src \in Addr /\ m.dst \in ServerSocks
  BY DEF Receive, IInv, NetInv, FromClients
<1>2. CASE OnBindRequest(m)
  BY <1>1, <1>2, BindRequestInv
<1>3. CASE OnPsBindRequest(m)
  BY <1>1, <1>3, PsBindRequestInv
<1>4. serverVars' = serverVars => MapInv'
  BY DEF serverVars, IInv, MapInv, WaitersAreClients, TransactionsSound,
         TransactionSound, ClientSound
<1>5. CASE OnHeartbeat(m)
  <2> DEFINE ack == Empty("ack", ServerSock(1), m.src)
  <2>1. /\ ack \in Datagram
        /\ ack.dst \notin ServerSocks
        /\ ack.type # "ps_bind_reply"
    BY <1>1, AckSound, AddrFacts
  <2>2. NetInv'
    BY <1>5, <2>1, ExchangeFacts, NetPreserved DEF OnHeartbeat, IInv
  <2> QED BY <1>4, <1>5, <2>2 DEF OnHeartbeat, IInv, serverVars
<1>6. CASE OnUnexpected(m)
  <2>1. NetInv'
    BY <1>6, ExchangeFacts, NetPreserved DEF OnUnexpected, IInv
  <2> QED BY <1>4, <1>6, <2>1 DEF OnUnexpected, IInv, serverVars
<1> QED BY <1>2, <1>3, <1>5, <1>6 DEF Receive

LEMMA SendsInv ==
    ASSUME IInv, ClientSends
    PROVE  IInv'
<1>1. PICK m \in Requests, kept \in SUBSET net :
         net' = kept \cup {m} /\ UNCHANGED serverVars
  BY DEF ClientSends
<1>2. m \in Datagram /\ m.src \in Addr /\ m.type # "ps_bind_reply"
  BY AddrFacts, NetworkAssumption
  DEF Requests, Datagram, TidTypes, EmptyTypes
<1>3. NetInv'
  <2> DEFINE out == {m}
  <2>1. net' \subseteq net \cup out
    BY <1>1
  <2>2. \A r \in out :
           /\ r \in Datagram
           /\ r.dst \in ServerSocks => r.src \in Addr
           /\ r.type = "ps_bind_reply" => IntroductionSound(r)
    BY <1>2
  <2> HIDE DEF out
  <2> QED BY <2>1, <2>2, NetPreserved DEF IInv
<1>4. MapInv'
  BY <1>1 DEF serverVars, IInv, MapInv, WaitersAreClients, TransactionsSound,
              TransactionSound, ClientSound
<1> QED BY <1>1, <1>3, <1>4 DEF IInv, serverVars

\* A process that ends or starts, and a clock that goes on.
LEMMA OtherStepsInv ==
    ASSUME IInv, Stop \/ Start \/ Tick \/ UNCHANGED vars
    PROVE  IInv'
<1>1. net' = net
  BY DEF Stop, Start, Tick, vars
<1>2. NetInv'
  BY <1>1 DEF IInv, NetInv, FromClients, PsIntroductionsSound, PsReplies,
              IntroductionSound
<1>3. CASE Stop \/ UNCHANGED vars
  <2>1. MapInv'
    BY <1>3 DEF Stop, vars, serverVars, IInv, MapInv, WaitersAreClients,
                TransactionsSound, TransactionSound, ClientSound
  <2> QED BY <1>2, <1>3, <2>1 DEF Stop, vars, serverVars, IInv
<1>4. CASE Start
  <2>1. MapInv'
    BY <1>4 DEF Start, EmptyMap, IInv, MapInv, WaitersAreClients,
                TransactionsSound
  <2> QED BY <1>2, <1>4, <2>1 DEF Start, IInv
<1>5. CASE Tick
  <2>1. now' \in Nat /\ \A n \in Nat : n <= now => n <= now'
    BY <1>5 DEF Tick, IInv
  <2>2. ASSUME NEW tr \in PsTransaction, TransactionSound(tr)
        PROVE  TransactionSound(tr)'
    BY <2>1, <2>2, SMT DEF TransactionSound, ClientSound, PsTransaction
  <2>3. MapInv'
    BY <1>5, <2>2 DEF Tick, IInv, MapInv, WaitersAreClients, TransactionsSound
  <2> QED BY <1>2, <1>5, <2>1, <2>3 DEF Tick, IInv
<1> QED BY <1>3, <1>4, <1>5

----------------------------------------------------------------------------
(* Theorems                                                                *)

\* The invariant holds initially and every step keeps it.
LEMMA Invariance == Spec => []IInv
<1>1. Init => IInv
  BY DEF Init, ServerInit, EmptyMap, IInv, MapInv, NetInv, WaitersAreClients,
         TransactionsSound, FromClients, PsIntroductionsSound, PsReplies
<1>2. IInv /\ [Next]_vars => IInv'
  BY SendsInv, ReceiveInv, OtherStepsInv DEF Next
<1> QED BY <1>1, <1>2, PTL DEF Spec

\* Whatever clients send, the server's maps and datagrams have their types.
THEOREM TypeCorrect == Spec => []ServerTypeOK
<1>1. IInv => ServerTypeOK
  <2>1. IInv => \A t \in DOMAIN transaction_client_map :
                   transaction_client_map[t] \in SockAddr
    BY AddrFacts DEF IInv, MapInv, WaitersAreClients
  <2> QED BY <2>1 DEF IInv, MapInv, NetInv, ServerTypeOK
<1> QED BY <1>1, Invariance, PTL

\* Every ps transaction is sound: two hosts, two sockets each, recorded in
\* order and within the expiry of the first.
THEOREM TransactionsAreSound == Spec => []TransactionsSound
<1>1. IInv => TransactionsSound
  BY DEF IInv, MapInv
<1> QED BY <1>1, Invariance, PTL

\* Every introduction on its way names two sockets of one host that is not
\* the recipient's, with times in order and within the expiry.
THEOREM IntroductionsAreSound == Spec => []PsIntroductionsSound
<1>1. IInv => PsIntroductionsSound
  BY DEF IInv, NetInv
<1> QED BY <1>1, Invariance, PTL
----------------------------------------------------------------------------
(* What a step sends                                                       *)

\* The types of what the server makes.
LEMMA TypeFacts ==
    /\ \A s, d : Empty("ack", s, d).type = "ack"
    /\ \A s, d, a : /\ BindReply(s, d, a).type = "bind_reply"
                    /\ BindReply(s, d, a).dst = d
                    /\ BindReply(s, d, a).addr = a
    /\ \A s, d, a, b, t, u :
          /\ PsBindReply(s, d, a, b, t, u).type = "ps_bind_reply"
          /\ PsBindReply(s, d, a, b, t, u).dst = d
          /\ PsBindReply(s, d, a, b, t, u).addr_one = a
BY DEF Empty, BindReply, PsBindReply

\* A step without introductions.
NoNewReplies ==
    /\ PsReplies(net' \ net) = {}
    /\ BindReplies(net' \ net) = {}

\* Introductions of two clients of the basic connector.
NewBindReplies(a, b) ==
    /\ PsReplies(net' \ net) = {}
    /\ BindReplies(net' \ net) \subseteq Introduce(a, b)
    /\ Introduce(a, b) \subseteq net'

\* Introductions of the two clients of a transaction.
NewPsReplies(tr) ==
    /\ BindReplies(net' \ net) = {}
    /\ PsReplies(net' \ net) \subseteq PsIntroduce(tr)
    /\ PsIntroduce(tr) \subseteq net'

LEMMA AckOnly ==
    ASSUME NEW m, NEW s, NEW d,
           Exchange(m, {}) \/ Exchange(m, {Empty("ack", s, d)})
    PROVE  NoNewReplies
BY ExchangeFacts, TypeFacts DEF NoNewReplies, PsReplies, BindReplies

LEMMA IntroduceSends ==
    ASSUME NEW m, NEW s, NEW d, NEW a, NEW b,
           Exchange(m, {Empty("ack", s, d)} \cup Introduce(a, b))
    PROVE  NewBindReplies(a, b)
  <1>1. \A r \in Introduce(a, b) : r.type = "bind_reply"
    BY TypeFacts DEF Introduce
  <1>2. /\ net' \subseteq net \cup ({Empty("ack", s, d)} \cup Introduce(a, b))
        /\ Introduce(a, b) \subseteq net'
    BY ExchangeFacts
  <1> QED BY <1>1, <1>2, TypeFacts DEF NewBindReplies, PsReplies, BindReplies

LEMMA PsIntroduceSends ==
    ASSUME NEW m, NEW s, NEW d, NEW tr,
           Exchange(m, {Empty("ack", s, d)} \cup PsIntroduce(tr))
    PROVE  NewPsReplies(tr)
  <1>1. \A r \in PsIntroduce(tr) : r.type = "ps_bind_reply"
    BY TypeFacts DEF PsIntroduce
  <1>2. /\ net' \subseteq net \cup ({Empty("ack", s, d)} \cup PsIntroduce(tr))
        /\ PsIntroduce(tr) \subseteq net'
    BY ExchangeFacts
  <1> QED BY <1>1, <1>2, TypeFacts DEF NewPsReplies, PsReplies, BindReplies

\* What a client sends is no introduction.
LEMMA SendsNoReply ==
    ASSUME ClientSends
    PROVE  NoNewReplies
  <1>1. PICK m \in Requests, kept \in SUBSET net : net' = kept \cup {m}
    BY DEF ClientSends
  <1>2. m.type \notin {"bind_reply", "ps_bind_reply"}
    BY DEF Requests, TidTypes, EmptyTypes
  <1> QED BY <1>1, <1>2 DEF NoNewReplies, PsReplies, BindReplies

LEMMA RestNoReply ==
    ASSUME Stop \/ Start \/ Tick \/ UNCHANGED vars
    PROVE  NoNewReplies
BY DEF Stop, Start, Tick, vars, NoNewReplies, PsReplies, BindReplies

----------------------------------------------------------------------------
(* Introductions                                                           *)

LEMMA TogetherBasic ==
    ASSUME NEW a, NEW b, NewBindReplies(a, b)
    PROVE  \A r \in BindReplies(net' \ net) :
               \E p \in BindReplies(net') : p.dst = r.addr /\ p.addr = r.dst
  <1> SUFFICES ASSUME NEW r \in Introduce(a, b)
               PROVE  \E p \in BindReplies(net') :
                          p.dst = r.addr /\ p.addr = r.dst
    BY DEF NewBindReplies
  <1> DEFINE r1 == BindReply(ServerSock(1), a, b)
             r2 == BindReply(ServerSock(1), b, a)
  <1>1. r1 \in BindReplies(net') /\ r2 \in BindReplies(net')
    BY TypeFacts DEF NewBindReplies, Introduce, BindReplies
  <1>2. /\ r1.dst = a /\ r1.addr = b
        /\ r2.dst = b /\ r2.addr = a
    BY TypeFacts
  <1>3. r = r1 \/ r = r2 BY DEF Introduce
  <1> HIDE DEF r1, r2
  <1> QED BY <1>1, <1>2, <1>3

LEMMA TogetherPs ==
    ASSUME NEW tr, NewPsReplies(tr)
    PROVE  \A r \in PsReplies(net' \ net) :
               \E p \in PsReplies(net') : p.dst = r.addr_one /\ p.addr_one = r.dst
  <1> SUFFICES ASSUME NEW r \in PsIntroduce(tr)
               PROVE  \E p \in PsReplies(net') :
                          p.dst = r.addr_one /\ p.addr_one = r.dst
    BY DEF NewPsReplies
  <1> DEFINE r1 == PsBindReply(ServerSock(1), tr.cl1_sk1,
                       tr.cl2_sk1, tr.cl2_sk2, tr.cl2_ts1, tr.cl2_ts2)
             r2 == PsBindReply(ServerSock(1), tr.cl2_sk1,
                       tr.cl1_sk1, tr.cl1_sk2, tr.cl1_ts1, tr.cl1_ts2)
  <1>1. r1 \in PsReplies(net') /\ r2 \in PsReplies(net')
    BY TypeFacts DEF NewPsReplies, PsIntroduce, PsReplies
  <1>2. /\ r1.dst = tr.cl1_sk1 /\ r1.addr_one = tr.cl2_sk1
        /\ r2.dst = tr.cl2_sk1 /\ r2.addr_one = tr.cl1_sk1
    BY TypeFacts
  <1>3. r = r1 \/ r = r2 BY DEF PsIntroduce
  <1> HIDE DEF r1, r2
  <1> QED BY <1>1, <1>2, <1>3

\* A step has no introductions, those of one pair, or those of one
\* transaction.
LEMMA StepSends ==
    ASSUME [Next]_vars
    PROVE  \/ NoNewReplies
           \/ \E a, b : NewBindReplies(a, b)
           \/ \E tr : NewPsReplies(tr)
  <1>1. ASSUME NEW m \in net, Receive(m)
        PROVE  \/ NoNewReplies
               \/ \E a, b : NewBindReplies(a, b)
               \/ \E tr : NewPsReplies(tr)
    <2>1. CASE OnBindRequest(m)
      BY <2>1, AckOnly, IntroduceSends DEF OnBindRequest
    <2>2. CASE OnPsBindRequest(m)
      BY <2>2, AckOnly, PsIntroduceSends
      DEF OnPsBindRequest, PsFirstClient, PsFirstClientAgain, PsOtherClient, PsAck
    <2>3. CASE OnHeartbeat(m) \/ OnUnexpected(m)
      BY <2>3, AckOnly DEF OnHeartbeat, OnUnexpected
    <2> QED BY <1>1, <2>1, <2>2, <2>3 DEF Receive
  <1> QED BY <1>1, SendsNoReply, RestNoReply DEF Next

\* Whatever clients send, in whatever order, the server introduces two of
\* them to each other or none (udp_p2p_server.h:214-236, 274-289).
THEOREM IntroducedInPairs == Spec => IntroducedTogether
  <1>1. [Next]_vars =>
            /\ \A r \in PsReplies(net' \ net) :
                  \E p \in PsReplies(net') :
                     p.dst = r.addr_one /\ p.addr_one = r.dst
            /\ \A r \in BindReplies(net' \ net) :
                  \E p \in BindReplies(net') : p.dst = r.addr /\ p.addr = r.dst
    <2> SUFFICES ASSUME [Next]_vars
                 PROVE  /\ \A r \in PsReplies(net' \ net) :
                              \E p \in PsReplies(net') :
                                 p.dst = r.addr_one /\ p.addr_one = r.dst
                        /\ \A r \in BindReplies(net' \ net) :
                              \E p \in BindReplies(net') :
                                 p.dst = r.addr /\ p.addr = r.dst
      OBVIOUS
    <2>1. CASE NoNewReplies BY <2>1 DEF NoNewReplies
    <2>2. CASE \E a, b : NewBindReplies(a, b)
      BY <2>2, TogetherBasic DEF NewBindReplies
    <2>3. CASE \E tr : NewPsReplies(tr)
      BY <2>3, TogetherPs DEF NewPsReplies
    <2> QED BY <2>1, <2>2, <2>3, StepSends
  <1> QED BY <1>1, PTL DEF Spec, IntroducedTogether

----------------------------------------------------------------------------
(* Registrations                                                           *)

\* Storing a transaction keeps the others.
LEMMA StoreFacts ==
    ASSUME NEW t, NEW tr, PsStore(t, tr)
    PROVE  /\ DOMAIN ps_transaction_client_map'
                = DOMAIN ps_transaction_client_map \cup {t}
           /\ ps_transaction_client_map'[t] = tr
           /\ \A s \in DOMAIN ps_transaction_client_map \ {t} :
                 ps_transaction_client_map'[s] = ps_transaction_client_map[s]
  <1> DEFINE map == ps_transaction_client_map'
  <1>1. map = Put(ps_transaction_client_map, t, tr) BY DEF PsStore
  <1> HIDE DEF map
  <1>2. /\ DOMAIN map = DOMAIN ps_transaction_client_map \cup {t}
        /\ map[t] = tr
        /\ \A s \in DOMAIN ps_transaction_client_map \ {t} :
              map[s] = ps_transaction_client_map[s]
    BY <1>1 DEF Put
  <1> QED BY <1>2 DEF map

LEMMA EraseFacts ==
    ASSUME NEW t, PsErase(t)
    PROVE  /\ DOMAIN ps_transaction_client_map'
                = DOMAIN ps_transaction_client_map \ {t}
           /\ \A s \in DOMAIN ps_transaction_client_map \ {t} :
                 ps_transaction_client_map'[s] = ps_transaction_client_map[s]
BY WithoutFacts DEF PsErase

\* A sound transaction's second client is there with its host's address.
LEMMA SecondClient ==
    ASSUME NEW tr, TransactionSound(tr)
    PROVE  /\ tr.cl2_sk1 = NoAddr <=> tr.cl2_sk1.ip = NoIp
           /\ tr.cl2_sk1 = NoAddr => tr.cl2_sk2.ip = NoIp
BY AddrFacts DEF TransactionSound, ClientSound

\* What a datagram of another host changes in a transaction.
LEMMA WithClient2Facts ==
    ASSUME NEW tr \in PsTransaction, TransactionSound(tr), NEW a \in Addr
    PROVE  LET new == WithClient2(tr, a) IN
           /\ new.cl1_sk1 = tr.cl1_sk1
           /\ tr.cl2_sk1 = NoAddr =>
                 new.cl2_sk1 = a /\ new.cl2_sk2 = tr.cl2_sk2
           /\ tr.cl2_sk1 # NoAddr => new.cl2_sk1 = tr.cl2_sk1
  <1> DEFINE new == WithClient2(tr, a)
  <1>1. CASE tr.cl2_sk1.ip = NoIp
    <2>1. new = [tr EXCEPT !.cl2_ts1 = now, !.cl2_sk1 = a]
      BY <1>1, AddrFacts DEF WithClient2
    <2>2. /\ new.cl1_sk1 = tr.cl1_sk1
          /\ new.cl2_sk1 = a
          /\ new.cl2_sk2 = tr.cl2_sk2
      BY <2>1 DEF PsTransaction
    <2>3. tr.cl2_sk1 = NoAddr BY <1>1, SecondClient
    <2> HIDE DEF new
    <2> QED BY <2>2, <2>3 DEF new
  <1>2. CASE tr.cl2_sk1.ip # NoIp /\ tr.cl2_sk1.ip = a.ip
    <2>1. new = [tr EXCEPT !.cl2_ts2 = now, !.cl2_sk2 = a]
      BY <1>2 DEF WithClient2
    <2>2. new.cl1_sk1 = tr.cl1_sk1 /\ new.cl2_sk1 = tr.cl2_sk1
      BY <2>1 DEF PsTransaction
    <2>3. tr.cl2_sk1 # NoAddr BY <1>2, SecondClient
    <2> QED BY <2>2, <2>3
  <1>3. CASE tr.cl2_sk1.ip # NoIp /\ tr.cl2_sk1.ip # a.ip
    <2>1. new = tr BY <1>3 DEF WithClient2
    <2> QED BY <1>3, <2>1, SecondClient
  <1> QED BY <1>1, <1>2, <1>3

LEMMA KnownSound ==
    ASSUME IInv, NEW t \in DOMAIN ps_transaction_client_map
    PROVE  /\ ps_transaction_client_map[t] \in PsTransaction
           /\ TransactionSound(ps_transaction_client_map[t])
BY DEF IInv, MapInv, TransactionsSound

LEMMA PsKeeps ==
    ASSUME IInv, NEW m \in net, m.src \in Addr, OnPsBindRequest(m),
           NEW t \in DOMAIN ps_transaction_client_map
    PROVE  TransactionKept(t)
  <1> DEFINE tr == ps_transaction_client_map[m.tid]
  <1>1. CASE t # m.tid
    <2>1. (\E new : PsStore(m.tid, new)) \/ PsErase(m.tid)
      BY DEF OnPsBindRequest, PsFirstClient, PsFirstClientAgain, PsOtherClient
    <2>2. t \in DOMAIN ps_transaction_client_map \ {m.tid} BY <1>1
    <2>3. /\ t \in DOMAIN ps_transaction_client_map'
          /\ ps_transaction_client_map'[t] = ps_transaction_client_map[t]
      BY <2>1, <2>2, StoreFacts, EraseFacts
    <2> QED BY <2>3 DEF TransactionKept
  <1>2. CASE t = m.tid
    <2>1. tr \in PsTransaction /\ TransactionSound(tr) BY <1>2, KnownSound
    <2>2. CASE PsFirstClient(m)
      BY <1>2, <2>2 DEF PsFirstClient, PsKnown, TransactionKept
    <2>3. CASE PsFirstClientAgain(m)
      <3> DEFINE new == [tr EXCEPT !.cl1_ts2 = now, !.cl1_sk2 = m.src]
      <3>1. PsStore(m.tid, new) BY <2>3 DEF PsFirstClientAgain
      <3>2. new.cl1_sk1 = tr.cl1_sk1 /\ new.cl2_sk1 = tr.cl2_sk1
        BY <2>1 DEF PsTransaction
      <3> HIDE DEF new
      <3> QED BY <1>2, <3>1, <3>2, StoreFacts DEF TransactionKept
    <2>4. CASE PsOtherClient(m)
      <3> DEFINE new == WithClient2(tr, m.src)
      <3>1. /\ new.cl1_sk1 = tr.cl1_sk1
            /\ tr.cl2_sk1 # NoAddr => new.cl2_sk1 = tr.cl2_sk1
        BY <2>1, WithClient2Facts
      <3>2. \/ PsStore(m.tid, new)
            \/ Exchange(m, {PsAck(m)} \cup PsIntroduce(new))
        BY <2>4 DEF PsOtherClient
      <3> HIDE DEF new
      <3>3. CASE PsStore(m.tid, new)
        BY <1>2, <3>1, <3>3, StoreFacts DEF TransactionKept
      <3>4. CASE Exchange(m, {PsAck(m)} \cup PsIntroduce(new))
        <4>1. NewPsReplies(new) BY <3>4, PsIntroduceSends DEF PsAck
        <4> DEFINE r1 == PsBindReply(ServerSock(1), new.cl1_sk1,
                       new.cl2_sk1, new.cl2_sk2, new.cl2_ts1, new.cl2_ts2)
                   r2 == PsBindReply(ServerSock(1), new.cl2_sk1,
                       new.cl1_sk1, new.cl1_sk2, new.cl1_ts1, new.cl1_ts2)
        <4>2. r1 \in PsReplies(net') /\ r2 \in PsReplies(net')
          BY <4>1, TypeFacts DEF NewPsReplies, PsIntroduce, PsReplies
        <4>3. r1.dst = tr.cl1_sk1 /\ r2.addr_one = tr.cl1_sk1
          BY <3>1, TypeFacts
        <4> HIDE DEF r1, r2
        <4> QED BY <1>2, <4>2, <4>3 DEF TransactionKept
      <3> QED BY <3>2, <3>3, <3>4
    <2> QED BY <2>2, <2>3, <2>4 DEF OnPsBindRequest
  <1> QED BY <1>1, <1>2

LEMMA BasicKeeps ==
    ASSUME NEW m \in net, OnBindRequest(m),
           NEW t \in DOMAIN transaction_client_map
    PROVE  WaiterKept(t)
  <1> DEFINE u == BindRequestTid(m)
             copeer == transaction_client_map[u]
  <1>1. CASE /\ u \notin DOMAIN transaction_client_map
             /\ transaction_client_map' = Put(transaction_client_map, u, m.src)
    BY <1>1 DEF Put, WaiterKept
  <1>2. CASE /\ u \in DOMAIN transaction_client_map
             /\ transaction_client_map' = Without(transaction_client_map, u)
             /\ Exchange(m, {Empty("ack", ServerSock(1), m.src)}
                               \cup Introduce(m.src, copeer))
    <2>1. CASE t # u BY <1>2, <2>1, WithoutFacts DEF WaiterKept
    <2>2. CASE t = u
      <3>1. NewBindReplies(m.src, copeer) BY <1>2, IntroduceSends
      <3> DEFINE r1 == BindReply(ServerSock(1), m.src, copeer)
                 r2 == BindReply(ServerSock(1), copeer, m.src)
      <3>2. r1 \in BindReplies(net') /\ r2 \in BindReplies(net')
        BY <3>1, TypeFacts DEF NewBindReplies, Introduce, BindReplies
      <3>3. r1.addr = copeer /\ r2.dst = copeer BY TypeFacts
      <3> HIDE DEF r1, r2
      <3> QED BY <2>2, <3>2, <3>3 DEF WaiterKept
    <2> QED BY <2>1, <2>2
  <1> QED BY <1>1, <1>2 DEF OnBindRequest

LEMMA MapsUnchanged ==
    ASSUME UNCHANGED <<transaction_client_map, ps_transaction_client_map>>
    PROVE  /\ \A t \in DOMAIN ps_transaction_client_map : TransactionKept(t)
           /\ \A t \in DOMAIN transaction_client_map : WaiterKept(t)
BY DEF TransactionKept, WaiterKept

LEMMA StepKeeps ==
    ASSUME IInv, [Next]_vars, running, running'
    PROVE  /\ \A t \in DOMAIN ps_transaction_client_map : TransactionKept(t)
           /\ \A t \in DOMAIN transaction_client_map : WaiterKept(t)
  <1>1. ASSUME NEW m \in net, Receive(m)
        PROVE  /\ \A t \in DOMAIN ps_transaction_client_map : TransactionKept(t)
               /\ \A t \in DOMAIN transaction_client_map : WaiterKept(t)
    <2>1. CASE OnBindRequest(m)
      <3>1. UNCHANGED ps_transaction_client_map BY <2>1 DEF OnBindRequest
      <3>2. \A t \in DOMAIN ps_transaction_client_map : TransactionKept(t)
        BY <3>1 DEF TransactionKept
      <3> QED BY <1>1, <2>1, <3>2, BasicKeeps
    <2>2. CASE OnPsBindRequest(m)
      <3>1. UNCHANGED transaction_client_map BY <2>2 DEF OnPsBindRequest
      <3>2. \A t \in DOMAIN transaction_client_map : WaiterKept(t)
        BY <3>1 DEF WaiterKept
      <3>3. m.src \in Addr BY <1>1 DEF Receive, IInv, NetInv, FromClients
      <3> QED BY <1>1, <2>2, <3>2, <3>3, PsKeeps
    <2>3. CASE OnHeartbeat(m) \/ OnUnexpected(m)
      BY <2>3, MapsUnchanged DEF OnHeartbeat, OnUnexpected, serverVars
    <2> QED BY <1>1, <2>1, <2>2, <2>3 DEF Receive
  <1>2. CASE ClientSends \/ Tick \/ UNCHANGED vars
    BY <1>2, MapsUnchanged DEF ClientSends, Tick, vars, serverVars
  <1>3. CASE Stop \/ Start BY <1>3 DEF Stop, Start
  <1> QED BY <1>1, <1>2, <1>3 DEF Next

\* While the server runs, no datagram of whichever client makes it forget
\* another: its first socket stays registered until it is introduced, or
\* until its transaction is too old (udp_p2p_server.h:143-292).
THEOREM RegistrationsKept == Spec => RegistrationKept
  <1>1. IInv /\ [Next]_vars =>
            (running /\ running' =>
               /\ \A t \in DOMAIN ps_transaction_client_map : TransactionKept(t)
               /\ \A t \in DOMAIN transaction_client_map : WaiterKept(t))
    BY StepKeeps
  <1> QED BY <1>1, Invariance, PTL DEF Spec, RegistrationKept

----------------------------------------------------------------------------
(* The matchmaker                                                          *)

\* The parties and the offers that the matchmaker sees.
Party == [t \in Tids |-> PartyOf(t)]

\* Requests name transactions of the matchmaker's.
RequestsKnown == \A m \in net : m.type = "ps_bind_request" => m.tid \in Tids

LEMMA RequestsKnownStep ==
    ASSUME RequestsKnown, [Next]_vars
    PROVE  RequestsKnown'
  <1>1. ASSUME NEW m \in net, Receive(m)
        PROVE  RequestsKnown'
    <2>1. \A s, d : Empty("ack", s, d).type # "ps_bind_request"
      BY TypeFacts
    <2>2. \A a, b : \A r \in Introduce(a, b) : r.type # "ps_bind_request"
      BY TypeFacts DEF Introduce
    <2>3. \A tr : \A r \in PsIntroduce(tr) : r.type # "ps_bind_request"
      BY TypeFacts DEF PsIntroduce
    <2>4. \E out : /\ net' \subseteq net \cup out
                   /\ \A r \in out : r.type # "ps_bind_request"
      <3>1. CASE OnBindRequest(m)
        BY <2>1, <2>2, <3>1, ExchangeFacts DEF OnBindRequest
      <3>2. CASE OnPsBindRequest(m)
        BY <2>1, <2>3, <3>2, ExchangeFacts
        DEF OnPsBindRequest, PsFirstClient, PsFirstClientAgain, PsOtherClient, PsAck
      <3>3. CASE OnHeartbeat(m) \/ OnUnexpected(m)
        BY <2>1, <3>3, ExchangeFacts DEF OnHeartbeat, OnUnexpected
      <3> QED BY <1>1, <3>1, <3>2, <3>3 DEF Receive
    <2> QED BY <2>4 DEF RequestsKnown
  <1>2. CASE ClientSends
    <2>1. PICK m \in Requests, kept \in SUBSET net : net' = kept \cup {m}
      BY <1>2 DEF ClientSends
    <2>2. m.type = "ps_bind_request" => m.tid \in Tids
      BY DEF Requests, EmptyTypes, TidTypes
    <2> QED BY <2>1, <2>2 DEF RequestsKnown
  <1>3. CASE Stop \/ Start \/ Tick \/ UNCHANGED vars
    BY <1>3 DEF Stop, Start, Tick, vars, RequestsKnown
  <1> QED BY <1>1, <1>2, <1>3 DEF Next

\* Without introductions nothing is offered that was not.
LEMMA NoNewOffers ==
    ASSUME PsReplies(net' \ net) = {}
    PROVE  Offers' \subseteq Offers
BY DEF Offers, PsReplies

\* The offers of a complete transaction.
LEMMA NewOffers ==
    ASSUME NEW tr, NewPsReplies(tr)
    PROVE  LET h == tr.cl1_sk1.ip
               g == tr.cl2_sk1.ip
           IN  /\ Offers' \subseteq Offers \cup {<<h, g>>, <<g, h>>}
               /\ {<<h, g>>, <<g, h>>} \subseteq Offers'
  <1> DEFINE r1 == PsBindReply(ServerSock(1), tr.cl1_sk1,
                       tr.cl2_sk1, tr.cl2_sk2, tr.cl2_ts1, tr.cl2_ts2)
             r2 == PsBindReply(ServerSock(1), tr.cl2_sk1,
                       tr.cl1_sk1, tr.cl1_sk2, tr.cl1_ts1, tr.cl1_ts2)
             Offer(r) == <<r.dst.ip, r.addr_one.ip>>
             h == tr.cl1_sk1.ip
             g == tr.cl2_sk1.ip
  <1>1. r1 \in PsReplies(net') /\ r2 \in PsReplies(net')
    BY TypeFacts DEF NewPsReplies, PsIntroduce, PsReplies
  <1>2. PsReplies(net') \subseteq PsReplies(net) \cup {r1, r2}
    BY DEF NewPsReplies, PsIntroduce, PsReplies
  <1>3. Offer(r1) = <<h, g>> /\ Offer(r2) = <<g, h>> BY TypeFacts
  <1>4. Offers = {Offer(r) : r \in PsReplies(net)}
        /\ Offers' = {Offer(r) : r \in PsReplies(net')}
    BY DEF Offers
  <1> HIDE DEF r1, r2, h, g, Offer
  <1>5. /\ Offers' \subseteq Offers \cup {<<h, g>>, <<g, h>>}
        /\ {<<h, g>>, <<g, h>>} \subseteq Offers'
    BY <1>1, <1>2, <1>3, <1>4
  <1> QED BY <1>5 DEF h, g

\* The party of a transaction that is known.
LEMMA KnownParty ==
    ASSUME NEW t \in DOMAIN ps_transaction_client_map
    PROVE  LET tr == ps_transaction_client_map[t] IN
           /\ tr.cl2_sk1 = NoAddr => PartyOf(t) = <<tr.cl1_sk1.ip>>
           /\ tr.cl2_sk1 # NoAddr => PartyOf(t) = <<tr.cl1_sk1.ip, tr.cl2_sk1.ip>>
BY DEF PartyOf

\* The party of a transaction that is stored, and that of the others.
LEMMA StoredParty ==
    ASSUME NEW t \in Tids, NEW tr, PsStore(t, tr)
    PROVE  /\ tr.cl2_sk1 = NoAddr => Party' = [Party EXCEPT ![t] = <<tr.cl1_sk1.ip>>]
           /\ tr.cl2_sk1 # NoAddr =>
                 Party' = [Party EXCEPT ![t] = <<tr.cl1_sk1.ip, tr.cl2_sk1.ip>>]
  <1>1. \A s \in Tids \ {t} : PartyOf(s)' = PartyOf(s)
    BY StoreFacts DEF PartyOf
  <1>2. /\ tr.cl2_sk1 = NoAddr => PartyOf(t)' = <<tr.cl1_sk1.ip>>
        /\ tr.cl2_sk1 # NoAddr => PartyOf(t)' = <<tr.cl1_sk1.ip, tr.cl2_sk1.ip>>
    BY StoreFacts DEF PartyOf
  <1>3. Party' = [s \in Tids |-> PartyOf(s)'] BY DEF Party
  <1> QED BY <1>1, <1>2, <1>3 DEF Party

LEMMA ErasedParty ==
    ASSUME NEW t \in Tids, PsErase(t)
    PROVE  Party' = [Party EXCEPT ![t] = <<>>]
  <1>1. \A s \in Tids \ {t} : PartyOf(s)' = PartyOf(s)
    BY EraseFacts DEF PartyOf
  <1>2. PartyOf(t)' = <<>> BY EraseFacts DEF PartyOf
  <1>3. Party' = [s \in Tids |-> PartyOf(s)'] BY DEF Party
  <1> QED BY <1>1, <1>2, <1>3 DEF Party

LEMMA SameParty ==
    ASSUME UNCHANGED ps_transaction_client_map
    PROVE  Party' = Party
BY DEF Party, PartyOf

\* What a step does to the party and the offers, in the matchmaker's terms.
Opened(t, h) ==
    Party' = [Party EXCEPT ![t] = <<h>>] /\ Offers' \subseteq Offers
Joined(t, h) ==
    /\ Len(Party[t]) = 1
    /\ Party[t][1] # h
    /\ Party' = [Party EXCEPT ![t] = Append(Party[t], h)]
    /\ Offers' \subseteq Offers
Matched(t) ==
    /\ Len(Party[t]) = 2
    /\ Party' = [Party EXCEPT ![t] = <<>>]
    /\ Offers' \subseteq Offers \cup {<<Party[t][1], Party[t][2]>>,
                                      <<Party[t][2], Party[t][1]>>}
    /\ {<<Party[t][1], Party[t][2]>>, <<Party[t][2], Party[t][1]>>}
          \subseteq Offers'
Forgotten == Party' = [t \in Tids |-> <<>>] /\ Offers' \subseteq Offers
Unseen == Party' = Party /\ Offers' \subseteq Offers

MatchmakerStep ==
    \/ \E t \in Tids, h \in Ips : Opened(t, h) \/ Joined(t, h)
    \/ \E t \in Tids : Matched(t)
    \/ Forgotten
    \/ Unseen

\* The second of a party.
LEMMA Appended ==
    ASSUME NEW S, NEW a \in S, NEW b \in S
    PROVE  Append(<<a>>, b) = <<a, b>>
  <1>1. <<a>> \in Seq(S) /\ Len(<<a>>) = 1 /\ <<a>>[1] = a OBVIOUS
  <1>2. /\ <<a, b>> \in Seq(S) /\ Len(<<a, b>>) = 2
        /\ <<a, b>>[1] = a /\ <<a, b>>[2] = b
    OBVIOUS
  <1> DEFINE s == Append(<<a>>, b)
  <1>3. s \in Seq(S) /\ Len(s) = 2 /\ s[1] = a /\ s[2] = b
    BY <1>1, AppendProperties
  <1> HIDE DEF s
  <1>4. \A i \in 1 .. Len(s) : s[i] = <<a, b>>[i] BY <1>2, <1>3
  <1> QED BY <1>2, <1>3, <1>4, SeqEqual DEF s

\* A host other than the first: it joins, is nothing new, or it completes the party.
LEMMA OtherMatches ==
    ASSUME IInv, RequestsKnown, NEW m \in net, m.src \in Addr,
           m.type = "ps_bind_request", PsOtherClient(m)
    PROVE  MatchmakerStep
  <1> DEFINE t == m.tid
             tr == ps_transaction_client_map[t]
             h == tr.cl1_sk1.ip
             new == WithClient2(tr, m.src)
  <1>1. t \in Tids /\ t \in DOMAIN ps_transaction_client_map
    BY DEF RequestsKnown, PsOtherClient, PsKnown
  <1>2. tr \in PsTransaction /\ TransactionSound(tr) BY <1>1, KnownSound
  <1>3. /\ new.cl1_sk1 = tr.cl1_sk1
        /\ tr.cl2_sk1 = NoAddr => new.cl2_sk1 = m.src /\ new.cl2_sk2 = tr.cl2_sk2
        /\ tr.cl2_sk1 # NoAddr => new.cl2_sk1 = tr.cl2_sk1
    BY <1>2, WithClient2Facts
  <1>4. h # m.src.ip /\ m.src # NoAddr /\ m.src.ip \in Ips /\ h \in Ips
    BY <1>2, AddrFacts DEF PsOtherClient, TransactionSound, ClientSound
  <1>5. Party[t] = PartyOf(t) BY <1>1 DEF Party
  <1>6. \/ PsStore(t, new) /\ Exchange(m, {PsAck(m)})
        \/ Ready(new) /\ PsErase(t) /\ Exchange(m, {PsAck(m)} \cup PsIntroduce(new))
    BY DEF PsOtherClient
  <1>7. Exchange(m, {PsAck(m)}) => Offers' \subseteq Offers
    BY AckOnly, NoNewOffers DEF NoNewReplies, PsAck
  <1>8. Exchange(m, {PsAck(m)} \cup PsIntroduce(new)) => NewPsReplies(new)
    BY PsIntroduceSends DEF PsAck
  <1>9. CASE tr.cl2_sk1 = NoAddr
    <2>1. Party[t] = <<h>> BY <1>1, <1>5, <1>9, KnownParty
    <2>2. ~Ready(new) BY <1>2, <1>3, <1>9, SecondClient DEF Ready
    <2> HIDE DEF new, tr
    <2>3. PsStore(t, new) /\ Offers' \subseteq Offers BY <1>6, <1>7, <2>2
    <2>4. new.cl1_sk1.ip = h /\ new.cl2_sk1 = m.src BY <1>3, <1>9
    <2> HIDE DEF h
    <2>5. Party' = [Party EXCEPT ![t] = <<h, m.src.ip>>]
      BY <1>1, <1>4, <2>3, <2>4, StoredParty
    <2>6. Append(<<h>>, m.src.ip) = <<h, m.src.ip>>
      BY <1>4, Appended
    <2>7. Append(Party[t], m.src.ip) = <<h, m.src.ip>> BY <2>1, <2>6
    <2>8. Len(Party[t]) = 1 /\ Party[t][1] # m.src.ip BY <1>4, <2>1
    <2>9. Joined(t, m.src.ip) BY <2>3, <2>5, <2>7, <2>8 DEF Joined
    <2> QED BY <1>1, <1>4, <2>9 DEF MatchmakerStep
  <1>10. CASE tr.cl2_sk1 # NoAddr
    <2> DEFINE g == tr.cl2_sk1.ip
    <2>1. Party[t] = <<h, g>> BY <1>1, <1>5, <1>10, KnownParty
    <2>2. /\ new.cl1_sk1.ip = h /\ new.cl2_sk1.ip = g
          /\ new.cl2_sk1 # NoAddr
      BY <1>3, <1>10
    <2> HIDE DEF new, h, g, tr
    <2>3. CASE PsStore(t, new) /\ Exchange(m, {PsAck(m)})
      <3>1. Party' = [Party EXCEPT ![t] = <<h, g>>]
        BY <1>1, <2>2, <2>3, StoredParty
      <3>2. Party' = Party BY <1>1, <2>1, <3>1 DEF Party
      <3> QED BY <1>7, <2>3, <3>2 DEF MatchmakerStep, Unseen
    <2>4. CASE PsErase(t) /\ Exchange(m, {PsAck(m)} \cup PsIntroduce(new))
      <3>1. Party' = [Party EXCEPT ![t] = <<>>] BY <1>1, <2>4, ErasedParty
      <3>2. /\ Offers' \subseteq Offers \cup {<<h, g>>, <<g, h>>}
            /\ {<<h, g>>, <<g, h>>} \subseteq Offers'
        BY <1>8, <2>2, <2>4, NewOffers
      <3>3. Matched(t) BY <2>1, <3>1, <3>2 DEF Matched
      <3> QED BY <1>1, <3>3 DEF MatchmakerStep
    <2> QED BY <1>6, <2>3, <2>4
  <1> QED BY <1>9, <1>10

LEMMA PsStepMatches ==
    ASSUME IInv, RequestsKnown, NEW m \in net, m.src \in Addr,
           OnPsBindRequest(m)
    PROVE  MatchmakerStep
  <1>1. m.type = "ps_bind_request" /\ m.tid \in Tids /\ m.src.ip \in Ips
    BY AddrFacts DEF OnPsBindRequest, RequestsKnown
  <1>2. Exchange(m, {PsAck(m)}) => Offers' \subseteq Offers
    BY AckOnly, NoNewOffers DEF NoNewReplies, PsAck
  <1>3. CASE PsFirstClient(m)
    <2> DEFINE new == NewTransaction(m.src)
    <2>1. new.cl2_sk1 = NoAddr /\ new.cl1_sk1.ip = m.src.ip
      BY DEF NewTransaction
    <2>2. PsStore(m.tid, new) BY <1>3 DEF PsFirstClient
    <2> HIDE DEF new
    <2>3. Party' = [Party EXCEPT ![m.tid] = <<m.src.ip>>]
      BY <1>1, <2>1, <2>2, StoredParty
    <2>4. Opened(m.tid, m.src.ip) BY <1>2, <1>3, <2>3 DEF Opened, PsFirstClient
    <2> QED BY <1>1, <2>4 DEF MatchmakerStep
  <1>4. CASE PsFirstClientAgain(m)
    <2> DEFINE tr == ps_transaction_client_map[m.tid]
               new == [tr EXCEPT !.cl1_ts2 = now, !.cl1_sk2 = m.src]
    <2>1. m.tid \in DOMAIN ps_transaction_client_map /\ PsStore(m.tid, new)
      BY <1>4 DEF PsFirstClientAgain, PsKnown
    <2>2. tr \in PsTransaction BY <2>1, KnownSound
    <2>3. new.cl1_sk1 = tr.cl1_sk1 /\ new.cl2_sk1 = tr.cl2_sk1
      BY <2>2 DEF PsTransaction
    <2> HIDE DEF new
    <2>4. Party' = [Party EXCEPT ![m.tid] = PartyOf(m.tid)]
      BY <1>1, <2>1, <2>3, StoredParty, KnownParty
    <2>5. Party' = Party BY <2>4 DEF Party
    <2> QED BY <1>2, <1>4, <2>5 DEF MatchmakerStep, Unseen, PsFirstClientAgain
  <1>5. CASE PsOtherClient(m) BY <1>1, <1>5, OtherMatches
  <1> QED BY <1>3, <1>4, <1>5 DEF OnPsBindRequest

LEMMA StepMatches ==
    ASSUME IInv, RequestsKnown, [Next]_vars
    PROVE  MatchmakerStep
  <1>1. ASSUME NEW m \in net, Receive(m)
        PROVE  MatchmakerStep
    <2>1. m.src \in Addr BY <1>1 DEF Receive, IInv, NetInv, FromClients
    <2>2. CASE OnPsBindRequest(m) BY <1>1, <2>1, <2>2, PsStepMatches
    <2>3. CASE OnBindRequest(m)
      <3>1. PsReplies(net' \ net) = {}
        BY <2>3, AckOnly, IntroduceSends
        DEF OnBindRequest, NoNewReplies, NewBindReplies
      <3>2. Party' = Party BY <2>3, SameParty DEF OnBindRequest
      <3> QED BY <3>1, <3>2, NoNewOffers DEF MatchmakerStep, Unseen
    <2>4. CASE OnHeartbeat(m) \/ OnUnexpected(m)
      <3>1. NoNewReplies BY <2>4, AckOnly DEF OnHeartbeat, OnUnexpected
      <3>2. Party' = Party
        BY <2>4, SameParty DEF OnHeartbeat, OnUnexpected, serverVars
      <3> QED BY <3>1, <3>2, NoNewOffers DEF MatchmakerStep, Unseen, NoNewReplies
    <2> QED BY <1>1, <2>2, <2>3, <2>4 DEF Receive
  <1>2. CASE ClientSends \/ Stop \/ Tick \/ UNCHANGED vars
    <2>1. Offers' \subseteq Offers
      BY <1>2, SendsNoReply, RestNoReply, NoNewOffers DEF NoNewReplies
    <2>2. Party' = Party
      BY <1>2, SameParty DEF ClientSends, Stop, Tick, vars, serverVars
    <2> QED BY <2>1, <2>2 DEF MatchmakerStep, Unseen
  <1>3. CASE Start
    <2>1. Offers' \subseteq Offers
      BY <1>3, RestNoReply, NoNewOffers DEF NoNewReplies
    <2>2. ps_transaction_client_map' = EmptyMap BY <1>3 DEF Start
    <2>3. \A t \in Tids : PartyOf(t)' = <<>> BY <2>2 DEF PartyOf, EmptyMap
    <2>4. Party' = [t \in Tids |-> <<>>] BY <2>3 DEF Party
    <2> QED BY <2>1, <2>4 DEF MatchmakerStep, Forgotten
  <1> QED BY <1>1, <1>2, <1>3 DEF Next

\* The server implements the matchmaker: whatever clients send, hosts are
\* offered to each other only in pairs that have registered in one
\* transaction, one after the other (udp_p2p_server.h:143-292).
THEOREM ServerMatches == Spec => Matchmaking
  <1>1. Init => M!Init
    <2> SUFFICES ASSUME Init PROVE M!Init OBVIOUS
    <2>1. \A t \in Tids : PartyOf(t) = <<>>
      BY DEF Init, ServerInit, EmptyMap, PartyOf
    <2>2. Offers = {} BY DEF Init, Offers, PsReplies
    <2> QED BY <2>1, <2>2 DEF M!Init
  <1>2. MatchmakerStep => [M!Next]_<<Party, Offers>>
    <2> SUFFICES ASSUME MatchmakerStep PROVE M!Next OBVIOUS
    <2>1. ASSUME NEW t \in Tids, NEW h \in Ips, Opened(t, h) PROVE M!Open(t, h)
      BY <2>1 DEF Opened, Party, M!Open, M!MayDropOffers
    <2>2. ASSUME NEW t \in Tids, NEW h \in Ips, Joined(t, h) PROVE M!Join(t, h)
      BY <2>2 DEF Joined, Party, M!Join, M!MayDropOffers
    <2>3. ASSUME NEW t \in Tids, Matched(t) PROVE M!Match(t)
      BY <2>3 DEF Matched, Party, M!Match
    <2>4. Forgotten => M!ForgetAll
      BY DEF Forgotten, Party, M!ForgetAll, M!MayDropOffers
    <2>5. Unseen => M!MayDropOffers /\ UNCHANGED Party
      BY DEF Unseen, M!MayDropOffers
    <2> QED BY <2>1, <2>2, <2>3, <2>4, <2>5 DEF MatchmakerStep, M!Next, Party
  <1>3. Init => RequestsKnown BY DEF Init, RequestsKnown
  <1>4. Spec => []RequestsKnown
    BY <1>3, RequestsKnownStep, PTL DEF Spec
  <1>5. IInv /\ RequestsKnown /\ [Next]_vars => [M!Next]_<<Party, Offers>>
    BY <1>2, StepMatches
  <1> QED BY <1>1, <1>4, <1>5, Invariance, PTL
          DEF Spec, Matchmaking, M!Spec, Party
=============================================================================
