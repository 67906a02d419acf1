# P2P-PS-STUN in TLA+

TLA+ models of the rendezvous server and of the two hole-punching clients of
this repository, TLC configurations that check them on small instances, and
TLAPS proofs of the properties that hold for every instance.

Paths below are relative to `src/P2P_PS/sources/`.

## 1. The system

Two clients behind NATs want to talk UDP to each other.  Both tell a public
server (`server/`) which *transaction* they belong to; when the second has
come, the server tells each the address it has seen the other at; both then
send requests to that address, which opens their own NATs, and a client that
hears the other answers and is connected.  With port prediction (`ps`) each
client registers two sockets, so that the other can extrapolate which port a
symmetric NAT will give it next.

| component | state | operations | interacts by |
|---|---|---|---|
| rendezvous server `server/src/udp_p2p_server.h` | two sockets; `transaction_client_map`: id -> waiting client; `ps_transaction_client_map`: id -> up to four sockets with times | one loop, one datagram at a time: `bind_request`, `ps_bind_request`, `heartbeat`, anything else; ends on errors and SIGINT | datagrams |
| basic connector `client/src/connection/p2p_connector.h` | place in `connect`, `state`, `attempts_left` | register, wait for the ack, loop over seven kinds of events | the socket |
| port-scanning connector `p2p_ps_connector.h` | the same, a second socket, up to 50 scan sockets | two registrations a second apart, loop, `try_start_ps_connection`, `determine_target_port` | several sockets, the port manager |
| UDP socket `udp_socket.h` | handle, `target_address_`, `peer_address`, own address | `send`, `receive`, `wait_receive`, `init`, `bind_by_portman`, destruction | kernel |
| port manager `port_manager.h` | a process-wide atomic counter, a map base port -> counter and time, two locks | `assign_next`, `assign_next_from_base` | called by all threads |
| runners `client/src/main.cpp` | flag `quit`; counters of outcomes | connect once and then talk from one thread and listen in another; or 16 threads that connect over and over | the connectors |
| NAT of the test bed `VM-Settings/Firewall/switch_nat_mode.sh` | connection tracking | full cone, restricted, symmetric | between the sockets and the network |
| `common/messages.h`, `time_helper.h` | - | message layout, clock | everywhere |
| `common/event.h`, `log`, `ministun.h`, `references/`, `UPNP_Discover.py` | - | unused, output only, borrowed or stand-alone | - |

What is hard here, and what makes each part correct:

- **Server.**  Registrations come in any order, twice, late, from three hosts
  at once, across an expiry or a restart.  Correct: every introduction is told
  to both, names the sockets of one other host, in order of time; nobody who
  waits is dropped in silence; a complete transaction is answered.
- **Connectors.**  Datagrams overtake each other and the clients' timeouts; the
  ack wait takes any datagram; a peer's request may come before the server's
  introduction; several branches return to the loop without using an attempt.
  Correct: `connect` returns; success means a peer of the same transaction,
  on both sides, and on matching sockets; a failure is blamed on the right
  party.
- **Socket and data phase.**  The kernel copies the sender's address as far as
  an uninitialised length allows; `receive` writes what `send` reads, in two
  threads.  Correct: two connected clients talk to each other.
- **Port manager and prediction.**  16 threads take ranges of ports from one
  16-bit counter that wraps, and single ports from a map, under two locks; the
  manager moves on by the ports that simulated hosts would have taken, the
  partner extrapolates from two of them.  Correct: runs at the same time never
  share a port, the prediction hits a port that is scanned, no call hangs.
- **Statistical runners.**  Run numbers, counters and the process's table of
  handles are shared by the threads; `std::swap` copies sockets whose destructor
  closes a handle.  Correct: every run is counted once, no handle leaks, and
  none grows beyond what `select` can take.

`PROJECT.json` lists every hazard at its line.  For some of them it says that no
property covers them, because the code does what the hazard describes: a duplicated
registration counts as another socket or another client, ports that fall and a
clock that is behind are predicted wrongly, and ranges that are too long overlap.

## 2. The modules

A module extends what stands to its left or above it:

```
Network
  RendezvousServer ------------- RendezvousServerProofs (a)
    OpenServer ----------------- MCOpenServer
      (refines Matchmaker)         OpenServerProofs, with (a)
  UdpSocket
    P2PConnector
      HolePunch ---------------- MCHolePunch, HolePunchProofs
        (with RendezvousServer)    HolePunchPromises (b), with (a)
        DataPhase -------------- MCDataPhase
                                   DataPhaseProofs, with (b)
    PsConnector
      PsHolePunch -------------- MCPsHolePunch
        (with RendezvousServer,    PsHolePunchProofs, with (a)
         Nat)

PortManager
  PortPrediction
    PortScan ------------------- PortScanProofs

SocketHandles
  ClientProcess ---------------- MCClientProcess, ClientProcessProofs
```

**Network** (`common/messages.h`).  A datagram is a record of its type, source,
destination and the fields of that type; `net` is the set of datagrams in
flight.  A set reorders by itself; `Lose` takes a datagram away, `Exchange`
(read one, send some) may leave a copy behind where `MayDuplicate` is set.
Sending the same datagram again while the first is in flight is one datagram.
`text` stands for what a connected client says: it has no type of the protocol.

**RendezvousServer** (`udp_p2p_server.h`).  Each `case` of the switch is one
action, from `recvfrom` to `break`: `OnBindRequest`, `OnPsBindRequest` (its
branches are `PsFirstClient`, new or expired; `PsFirstClientAgain`, lines
183-189; `PsOtherClient`, lines 190-239), `OnHeartbeat`, `OnUnexpected`.  Two
facts of the code that the model keeps: `BindRequestTid` is 0, because line 246
takes a reference into the buffer that line 248 clears; and client 1's second
socket never leads to the `RDY` branch.  `Stop` and `Start` end the process (an
error of `select` or `recvfrom`, or SIGINT) and run a new one with empty maps.
The server does not act on a failed send, so that is a lost datagram.

**OpenServer** puts any clients around the server: any request from any socket
at any time.  The properties of the server are stated here, so that they do not
depend on what well-behaved clients send.

**Matchmaker** is what the server promises about ps transactions: a transaction
has a party of at most two distinct hosts, an offer is made to both of a party
at once and dissolves it, and nothing else ever makes an offer.  `Matchmaking`
in OpenServer is the refinement: a party is the list of hosts of a stored
transaction, offers are the replies in flight.

**UdpSocket** (`udp_socket.h`).  `PeerAddress` is what `recvfrom` can leave in
the sender's address under each value of the uninitialised length
(`LenValues`): all of it, the port only, nothing; a negative length makes
`recvfrom` fail after the datagram was taken (`ReceiveFails`).  `SendResults`
are the results of `sendto`.

**P2PConnector** (`p2p_connector.h`).  `connect` blocks only in `wait_receive`;
what it does from one return of it to the next call is one step.  `pc` says
which call it waits in; `state`, `attempts_left` are the code's.  Steps:
`Connect` (the first send), `Acknowledged`, `AckTimeout`, `AckError`, then in the
loop one operator for every case (`OnBindReply`, `OnClientBindRequest`,
`OnClientBindResponse`, `OnAck`, `OnOther`), `LoopTimeout` and `LoopError`.
`KeepWaiting` is `continue`, `UseAttempt` is `attempts_left--`.

**HolePunch** composes server, network and clients.  `Prompt` says that the
network is faster than the clients' timeouts of one and five seconds: a client
times out only when no datagram can be read.  Without it a timeout may come at
any time.  `ServerMayStop` lets the server end and restart.  A client's public
address is constant and reachable: NATs are the subject of PsHolePunch.

**DataPhase** (`normal_runner` of `main.cpp`) adds the two threads of a connected
client: `Talk`, `Listen`, and `TalkWhileListening`, the data race in which a
text goes to an address that is half old and half new.

**PsConnector** (`p2p_ps_connector.h`).  Like P2PConnector, with the second
registration (`SecondRequest`, from a helper socket behind a symmetric NAT),
and the punch: `Punch` sends from the scan sockets, or from the only socket, and
waits in `select` (`pc = "punch"`).  The datagram that `select` has seen is read
by the next iteration, so `PunchSucceeds` is that whole iteration, on the socket
that heard it.  A prediction is any port that `determine_target_port` can
return: the seen port if both are the same, else one of the peer's scan ports, a
port of nobody's, or 0 (`Predictions`).

**Nat** (`switch_nat_mode.sh`).  `holes` are the flows opened from inside;
`Admits` lets in everything (full cone) or what belongs to a flow (the other
modes, whose connection tracking is per address and port).

**PsHolePunch** composes server, network, NATs and port-scanning clients.  Time
passes for the server (`TimePasses`), so that a transaction can be too old when the
next registration comes, and where `ServerMayStop` is set it ends and restarts
between any two steps (`ServerRestarts`).

**PortManager** (`port_manager.h`).  One action is one atomic access to what the
threads share.  `assign_next` is `AssignNext` (the first `fetch_add`, lines
107-108), `LockReset`, `SetToMin`, `FetchAgain` (the reset under the mutex, lines
109-115), then `Find`, and `Insert` or `Store` (lines 118-129).  `readers` is the
shared side of `map_change_lock`; `insert` alone takes the other side and does
nothing else, so it is one step that needs `readers = {}`.
`assign_next_from_base` is `AssignNextFromBase`; only the thread that took a base
port uses it, so the call is one step.  `Simulated` is the number of ports that
the simulated hosts take, rounded as the code rounds.  The code draws its factor from
N(1.0, 0.6) and takes what is below 0 as 0; here every call draws any member
of `Randoms`, in parts of `Scale`.  `Advance` wraps at the width of `uint16_t`.

**PortPrediction** (`determine_target_port`).  The arithmetic as the code has it:
`distance` unsigned in `PortSpace`, time differences unsigned in `TimeSpace`,
the float as an exact fraction, and its conversion to `uint16_t` as the build
does it beyond the range.

**PortScan** runs both sides of a port-scanning run: the threads of
`statistical_runner_ps` call the port manager through `bind_by_portman`, and
`PredictedIsPunched` asks what the partner would compute from what the server
has seen.  `bind` can fail for every socket of the threads in `Unlucky` (`Bound`): the
code warns and goes on, and the kernel chooses the port.  When it is the first
socket's, the thread has no base port, and its later sockets take whole ranges
(`OfNewRange`).  `made` counts the scan sockets, whether they have a port of the
manager's or not.  `helper_rnd` and `scan_rnd` are history variables: the
property needs to know what was drawn.

**SocketHandles** (`udp_socket.h`).  `file` is the kernel's table, with the lowest
free number given out first; `handle` is the number each `udp_socket_t` holds.
`Opens`, `FailsToOpen`, `Destroys` and `Swaps` are `init` with and without a file, the
destructor, and `std::swap`: three
copies and the destructor of the temporary.  A number can be in two sockets, and
be closed while it is another thread's.

**ClientProcess** (`statistical_runner`, `statistical_runner_ps`).  The threads take
run numbers (`TakeId`), open the connection's socket, run `connect` with each of
its results and the sockets it makes, destroy those one at a time in order, count
(`Count`) and close.  What connect says on the wire is left to the other modules.
`mode` is the command line: `snr`, `sps`, or `sps_sym` behind a symmetric NAT.

The `MC*` modules give the functions that a configuration file cannot write.
Definitions that a comment calls a mutation are faulty variants of the one that
follows; they are used only to see that the properties notice.

## 3. The runs

| run | instance | distinct states | shows |
|---|---|---|---|
| Server | 3 hosts with 2 sockets each, one transaction, registrations of both kinds and heartbeats, clock to 2, window 1; loss, duplicates, restarts | 508,830 | type, `PsIntroductionsSound`, `TransactionsSound`, `IntroducedTogether`, `RegistrationKept`, and the refinement `Matchmaking` |
| Pair | 2 clients that connect and talk; reordering only, prompt, fairness | 704 | `Agreement`, `TalkRecovers` |
| PairLossy | the same with loss, any timeouts, failing calls, sender addresses that are not copied, restarts, the race of the two threads | 317,522 | type, `TextAfterIntroduction`, `AttemptsSpent`, `Termination` |
| Crossed | 3 clients, 2 transactions; loss, any timeouts, failing calls, restarts | 98,204 | `SameTransaction`, `PeerIsAnother`, `IntroducedFirst` |
| PsPrompt | a symmetric and a restricted client, prompt, transactions that expire, restarts | 22,326 | `Agreement` |
| PsLossy | 2 symmetric clients, loss, any timeouts, failing calls, transactions that expire, restarts, fairness | 189,942 | type, `PeerIsPartner`, `SocketsMatch`, `Termination` |
| Ports | 2 threads, 2 runs, the counter about to wrap, simulated hosts that take nothing or 7/8 of their rate, every bind of one thread may fail | 232,449 | type, `PortsExclusive`, `PredictedIsPunched`, `AssignReturns` |
| Process | 2 threads, 3 runs, 4 sockets a run, every mode, every call may fail | 2,802,416 | type, `RunsCounted`, `NoLeak`, `HandlesFit` |

Runs that refute what a message of the code says (the findings):

| run | refutes | because |
|---|---|---|
| PsStuck | `CompleteIsAnswered` | client 1's second socket, if last, ends the handler at line 188 before `RDY` is asked for |
| WrongPair | `PairsShareTransaction` | every basic request has id 0 |
| PsMismatch | `SocketsMatch` | a full cone lets in requests that other modes keep out, and the two sides settle on different sockets |
| StolenHandle | `FailedWithItsSockets` | the handle that `std::swap` has closed is closed again when it is another thread's scan socket; that run is counted as a failed punch instead of an internal error |

The server's mistake of pairing across transactions does no harm to who is
*connected*: the clients check the id themselves (`SameTransaction`, which is
also proved).  It costs them the attempt.  `PeerIsAnother` is checked where the
network does not duplicate requests: the server does not compare addresses, and
takes a second copy of a request for the second client, which introduces a client
to itself.

Further divergences, read in the code and kept by the models, without a run of
their own: any datagram passes for the ack (`p2p_connector.h:73`,
`p2p_ps_connector.h:155`), so that an introduction that overtakes it is lost and the
result blames the server; the result of `send`, a `bool`, is compared with -1
(`p2p_connector.h:207`, `:231`), so that a connection is reported though the answer
was not sent; `wait_receive` passes `recvfrom` an uninitialised length
(`udp_socket.h:110`); a range of ports that reaches over 65535 goes on inside the
first one; the time of a base port that is used again stays the old one
(`port_manager.h:128`); a peer whose ports fall, or a clock more than about 100 ms
behind, is predicted wrongly.

### Bounds

`MaxInFlight` 1: when a client of OpenServer sends, what was in flight has
arrived at a client or is lost.  The server handles one datagram at a time and
its answers are not read in that module; a datagram that is delayed past another,
or a late duplicate, is the same datagram sent later, which any client may do at
any time.  `Expiry` 1 and `MaxTime` 2: a transaction can be fresh, at the edge of
the window, and too old.  Three hosts: one more than a party
has, to try to displace one of it.  `StunAttempts` and `PeerAttempts` 1 to 3
instead of 10 and 3 (5 in the ps connector): enough for a timeout before and
after every event, and for a repeated request.  `ScanRange` 2 instead of 50: the
sockets are alike, and two are needed to settle on different ones.  One port per
host in HolePunch, since a basic client has one socket.  Crossed has three
clients, the least that makes the server pair across transactions and leaves one
behind.

Ports: `PortSpace` 140 and `MinPort` 36 for 65536 and 5000, `Reserved` 12.  The counter
starts at 128, so that the first range ends at the top and the next wraps, with
two threads in the reset at once.  `Threads * Reserved` stays below `MinPort`, as 16
ranges of 75 ports stay below 5000.  `Randoms` has 0, for every draw that is not
positive, and 7 of 8: the two waits of a run can differ by nearly the whole rate, in
either order.  The binds of `t1` fail at will; without a base port it takes a
range for every socket, so that the counter comes round and a base port is used
again (`Store`).  The clock is then where it was, so that what an old
time would do to the ports is not seen in this run.  `MaxRuns` 2 and `MaxTime`, two
seconds, keep a run within its range.  The code restricts neither: ranges that
the command line makes too long do overlap.  Behind a base port all ports that
are passed over must fit into the range, which is `5 * Rate + 50` long, for any draw;
for 16 threads that asks for rates of at most 48, waits of a second each and
draws of at most 2.4, which one in a hundred exceeds.  `ScanRange` 4 for 50: with a half
that is more than a rounding.  `Slack`, how far apart the two sides may be, is a
twentieth of a second, `Drift` one port, `Reach` 2.

`PredictedIsPunched` has premises.  That the NAT keeps its pace (`Steady`) is what the
extrapolation takes for granted: the time and the draw before the scan sockets may be
anything, as long as the ports passed over are those of the pace that the partner has
seen, give or take `Drift`, and the partner does not look further ahead than `Reach`
times what it has seen.  With draws as they come the prediction does miss, as it is
meant to in the statistics that the program makes.  A run with a failed
bind (`AllBound`), one whose range reaches over the last port (`CrossesTop`), and a
clock behind the second registration are left out too: there the code predicts
wrongly.

The ps runs: `Expiry` 1 and `MaxTime` 2, so that a transaction can grow too old between
any two registrations of a pair; in PsLossy and PsPrompt the server also ends and
restarts, with empty maps, at any time.

PairLossy: `LenValues` has a length that copies the sender's address, one that
copies nothing, and one that makes `recvfrom` fail.  Its hosts have one port each, so
that an address of two halves (`TalkWhileListening`) is one of the two, or nobody's:
torn addresses reach nobody in this run.  The theorem about
`TextAfterIntroduction` is for hosts with any ports.

Process: two threads, so that one can close the other's handle; three runs, so
that one thread makes two; `HandleLimit` 9, one more than the eight sockets that
exist at once, so that `HandlesFit` is not the table's own limit (the handles 0 to 2
of the standard streams are not counted: 835 for the code, still below 1024); `IdSpace` is
above `RunCount` and the number of threads together, as 2^32 is.

Deadlock is checked in the runs of OpenServer.  The others have
`CHECK_DEADLOCK FALSE`: when every `connect` has returned and nothing is in
flight the system has nothing left to do.

### Fairness

`FairDataSpec` has weak fairness of a waiting client (`ClientRuns`) and of the two
threads of a connected one, `FairSpec` of PsHolePunch of hearing and timing out:
`select` is called with a timeout of one, three or five seconds, so it returns,
with a datagram or without.  The one-second `sleep` before the second
registration ends.  `FairSpec` of PortScan is weak fairness of every thread's
next step: the scheduler runs a thread that neither sleeps nor waits for a lock.
That alone would not get a writer through an endless stream of readers; the runs
are bounded, so the stream ends.  Nothing is assumed of the server or the network: no datagram
need ever arrive.  `Termination` does not hold if the network duplicates one ack
for ever (acks use no attempt), and is checked where it does not duplicate.
`TalkRecovers` needs a network that loses nothing and the sender's whole address
(`LenValues = {"full"}`): a client turned to the server turns back when it hears
its peer.

## 4. What is proved

All theorems hold for every value of the constants that the named assumptions of
the modules allow; further assumptions are said.  Each rests on an inductive
invariant, from which the action properties and the refinement are derived too.

`RendezvousServerProofs` has the lemmas about the server that the other proofs
share: what its datagrams and maps consist of, and that each of its steps keeps
`ServerTypeOK`, whoever its clients are.

`OpenServerProofs`:

- `TypeCorrect`: `Spec => []ServerTypeOK`.
- `TransactionsAreSound`: `Spec => []TransactionsSound`.  Sockets of a stored
  transaction are those of at most two distinct hosts, no time lies in the
  future, before client 1's first, or outside the window that began with it.
- `IntroductionsAreSound`: `Spec => []PsIntroductionsSound`.  A reply leaves only
  for a complete transaction, so its soundness follows from that of the
  transaction; the invariant is the conjunction of types, sound transactions and
  sound replies, because replies in flight must stay sound when the transaction
  they came from is gone.

- `IntroducedInPairs`: `Spec => IntroducedTogether`.
- `RegistrationsKept`: `Spec => RegistrationKept`, by cases of the handler: which
  of them stores, keeps or erases the entry of another client.
- `ServerMatches`: `Spec => Matchmaking`, the refinement.  Every step of the server is
  that of a host which opens a transaction or joins it, a match, a restart that
  forgets all parties, or invisible.  Besides soundness it needs that requests in
  flight name transactions of `Tids`.

`HolePunchProofs`:

- `ConnectedToSameTransaction`: `Spec => []SameTransaction` for any number of
  clients and transactions, with loss, duplicates, restarts and failing calls,
  **if** the address length is never one that copies a part
  (`LenValues \subseteq {"full", "negative"}`; after a partial copy the target can
  be an older sender's address).  `SameTransaction` is not inductive: why a request
  with a matching id comes from a client of the transaction is a fact about the
  network.  The invariant adds that requests and answers in flight carry the
  address and the id of a client that has been introduced or has answered
  (`RequestsSigned`, `ResponsesSigned`), that an answer is addressed inside its
  transaction, and that nobody knows a peer before the ack (`EarlyStates`).

`HolePunchPromises`:

- `TypeCorrect`: `Spec => []TypeOK` for every network and every length.  The
  invariant `TInv` adds that a client in the loop has an attempt left (`Budget`:
  otherwise `attempts_left--` could go below zero), that a connected client has
  returned, and that a reply in flight counts its addressee as introduced.
- `AttemptsAreSpent`: `Spec => AttemptsSpent`, from `TInv`.
- `PeersAreOthers` and `IntroductionsComeFirst`: `PeerIsAnother` and
  `IntroducedFirst`, **if** the network does not duplicate and addresses are copied
  whole or not at all.  The server compares no addresses; that it never
  introduces a client to itself is because a request in flight is its sender's
  only one.  `RequestsNew` says that the sender is neither in the map nor
  introduced, `WaiterIsNew` that the client that waits has not been introduced,
  `RepliesName` and `PeersMeet` that what is in flight goes to another client.
- `PartnersAgree`: `Spec => []Agreement`, for any number of clients and attempts, any
  order of arrival, and restarts of the server.  `Faultless` is what it takes: nothing
  is lost, duplicated or later than a timeout, no call fails, addresses are copied
  whole; and `InTwos`, at most two clients with one transaction id.  Without any one
  of these TLC finds a counterexample with two clients (three for `InTwos`).  The
  server may pair clients of different transactions: `Matching` says that it pairs
  them off, once each, so that a stranger's request takes attempts only from a client
  whose partner has not heard of it.  `PairOK` is about two partners: while one
  tries, the other has returned or has still to read what will connect them
  (`TriesHeard`), so that a timeout means that there is nobody to connect to; and
  if one is connected, the answer that connects the other is on its way
  (`ConnectedTogether`).  An introduction that a client reads in place of its ack
  is why the invariant has the parts `BothTold` and `AskerTries`.  TLC checked it
  with two, three and four clients first.

`DataPhaseProofs`, with the two threads of every connected client:

- `DataTypeCorrect` and `DataAttemptsAreSpent`: `TypeOK` and `AttemptsSpent` under
  `DataSpec`.
- `TextsFindTheIntroduced`: `DataSpec => []TextAfterIntroduction` for every network and
  every length, **if** no two clients are at one host.  An address that is half old
  and half new still has the host of one of them, so the invariant is about hosts:
  whoever is at the host of a sender, or of a client's last sender, or of a
  connected client's target, knows its peer (`Known`).

`PsHolePunchProofs`:

- `TypeCorrect`: `Spec => []TypeOK`, for any NATs, predictions and scan ranges.
- `PartnersMeet`: `Spec => []PeerIsPartner`, with loss and duplicates, **if** addresses
  are copied whole or not at all.  A chain of facts: a request in flight names the
  transaction of its host's client (`RequestsNamed`), so the two hosts of a stored
  transaction share it (`PartiesShare`), so an introduction pairs partners
  (`RepliesPair`), so only partners talk (`PeersPair`), so a connected client's target
  is a partner's (`ConnectedPair`).
- `SamePairLeft`: `Spec => []SocketsMatch`, with loss, delay and failing calls.  The
  invariant is about holes in NATs, not about which scan socket heard what: a host
  has holes for at most one address of another host (`OnePeer`), and none before it is
  introduced or while the reply that introduces it is on its way
  (`PeersIntroduced`, `RepliesFirst`).  That holds because a client is introduced once,
  and that because every registration is sent once and spent when a transaction takes
  it (`RegistersOnce`, `RegistrationsSpent`).  A client that is connected has sent to its
  target and its target to it (`BothWays`); with one hole for each, that is the
  same pair seen from both ends.  Four conditions are needed: no NAT is full-cone
  (`NoFullCone`; otherwise a request arrives that no hole was made for, and the run
  PsMismatch ends with different sockets), the network does not duplicate (otherwise a
  client punches a second time, and TLC finds `SocketsMatch` violated), at most two
  clients have one transaction id (`InTwos`), and addresses are copied whole or not
  at all.  TLC checked the invariant on the instance of PsLossy first, with
  two, one and no symmetric NATs.
- `PartnersAgree`: `Spec => []Agreement`, for any clients, predictions and scan
  ranges.  What could break it is a client that punches, hears nothing and gives up
  although its partner is connected.  The invariant `AInv` adds to that of
  `SamePairLeft`:
  - what the server has (`ServerInv`): every client that registered is in its
    transaction with its base socket until it is introduced, and is introduced at
    that socket;
  - what a client can hear (`ClientInv`): its NAT lets the server's answers in where it
    waits for them, and its ack or the registration that causes it is on its way;
  - how two sockets meet (`MeetInv`).  Whoever has a hole for a partner that may still
    punch is waiting for it at that hole (`WaitsFor`).  Where two sockets have holes
    for each other, each client waits there or is connected; while both wait, one
    of the two requests is on its way, and while one waits and the other is connected,
    the answer is (`AllMeet`).  So there is something to hear, and the timeout does
    not come.

  A connected client has such a pair of holes with its partner's socket
  (`BothWays`), and a partner that has returned does not wait: it is connected.
  The hypotheses are `NoFullCone`, `InTwos` and `Faultless`: timeouts are late
  (`Prompt`), nothing is lost or duplicated, no call fails, addresses are copied whole
  (`LenValues` has only `"full"`), and the server keeps what it has been told: it
  does not end (`~ServerMayStop`), and no transaction grows too old (`MaxTime <= Expiry`).
  The last two make the proof shorter, `ServerInv` counts on every registration;
  PsPrompt, where the server forgets in both ways, has no counterexample.  All others but
  `NoFullCone` are needed: TLC finds `Agreement` violated when any one
  is dropped.  For full-cone NATs
  `Agreement` is neither proved nor refuted: the proof counts on both holes, and a full
  cone lets a datagram in without one.  TLC checked `AInv` first, with two, one and
  no symmetric NATs, with three clients and with two pairs.

`PortScanProofs`, for any number of threads and runs and any sizes of the port
space, the ranges and the simulated rate:

- `TypeCorrect`: `Spec => []TypeOK`; every port given or predicted from has 16 bits.
- `PortsStayApart`: no two runs at the same time are given one port
  (`PortsExclusive`), however the accesses to the counter, its reset and the map
  interleave.  `HSpec` is `Spec` with a history variable, `passed`: how far the counter
  has moved on since a thread's run began.  The invariant `RangeInv` is about ranges:
  each range in use lies `Behind` the counter by no more than `passed`, across the wrap
  (`RangesBehind`), ranges of different threads lie apart (`RangesApart`), whoever is
  about to reset the counter finds it below the minimum (`ResetShape`), and below
  the minimum the counter is at most one range further than there are threads
  that wait for the reset (`WrapShape`).  `EntryInv` is about what is inside a range: the
  entry of a run's base port follows the ports that the run has, `PassedOver` by
  what the simulated hosts take, and no other thread touches it.
  Four conditions are needed, and none is enforced by the code:
  `RunFits` and `InTime`, the range has room for the run's ports and the simulated
  ones, for any draws of `Randoms`, in the waits before the helper and the first scan
  socket (the manager goes on past the end of a range; `Randoms` is a set without a
  bound of its own, so the theorem is about factors that are cut where the range ends); `ResetFits`, there is room below the minimum for a
  range of every thread and one more (a thread moves the counter on before it waits for
  the mutex; 17 ranges of 75 ports fit below 5000, 17 of 300 do not); `NoLap`, no run
  lasts until the counter comes back (the manager does not know which ranges
  are in use).  `RangeInv` and `EntryInv` were checked with TLC first, on an
  instance like that of Ports and on one with 76 ports whose counter makes several laps.
- `PredictionHits`: `PredictedIsPunched`, the port that the partner predicts is one of
  those that the scan sockets have.  The theorem separates what threads do to
  each other from the arithmetic.  `PlanInv` says that until the punch a base port's
  entry has the time of the last socket that the server has seen (`Stamped`) and that
  the helper and the scan sockets lie where the waits and the simulated hosts put
  them (`Planned`): no step of another thread and no reset moves them.
  `PredictedPort` then evaluates `determine_target_port` without an overflow.What
  remains is arithmetic, done for every wait and every pair of draws (`PaceHits`): the
  premise `Steady` bounds how far the ports that are passed over are from the
  extrapolated ones, the rounding of the helper's port counts as often as the partner
  looks further ahead than it has seen, and half of the scan range has to
  make up for all of it.  `PredictionFits` asks only of the constants that it does
  (`Drift + 2` below, `Drift` and three halves of `Reach` above), that the numbers do not
  overflow, and that a NAT so busy that a rounding matters is not taken for
  sequential (`2 * NearPorts <= Second`).  With the code's 1000, 250 and 50 it allows
  `Reach` 5 and `Drift` 17, at the rates for which `RunFits` and `ResetFits` hold (see
  Bounds).  The scan range of the Ports run is smaller than what the theorem asks;
  there TLC shows the property for the draws and waits that occur.  `Soon` bounds the
  waits.  `NoReuse` is needed because `assign_next` keeps the old time of a base port
  that it gives out again; with it the theorem says nothing of a thread that laps the
  counter.  Of failing binds and missed paces the theorem says what the property says:
  nothing.

`ClientProcessProofs`, for any number of threads, runs and scan sockets:

- `TypeCorrect`: `Spec => []TypeOK`.
- `RunsAreCounted`: `Spec => []RunsCounted`.  The invariant adds that the counter
  exceeds `RunCount` by no more than the threads that are done, so it does not wrap.
- `NoHandleLeaks` and `HandlesAlwaysFit`: `NoLeak` and `HandlesFit`.  Both rest on
  `FilesHeld`: a file that a thread opened has its number in one of that thread's
  sockets, although numbers are copied and closed by strangers.  `HandlesFit` then
  counts: the lowest free number is at most the number of open files, and
  those are fewer than `Threads * (ScanRange + 2)` when one more is opened.  For the
  code's 16 threads and 50 scan sockets that is 832, or 835 with the standard streams,
  below `FD_SETSIZE`.

## 5. What is only model-checked

Liveness (`Termination`, `TalkRecovers`, `AssignReturns`), which is out of the prover's
reach; for it, larger scan ranges and more clients are not covered.  Every
invariant and action property that a passing run checks is also proved.

## 6. What is not modelled

- The NAT's own choice of ports: it enters PsHolePunch only through `Predictions`,
  and PortScan through the port manager, which stands in for it in the test bed.
- The data phase after the port-scanning connector (`normal_runner_ps`): the same
  threads as in DataPhase.
- `refresh_own_ipv4`: the address is only printed.
- The server's start-up: `bind` is compared with `> 0`, so a failed bind goes on with
  an unbound socket, which nobody can reach.
- Argument parsing: one pass before anything runs.  The number of runs is read
  before the simulated allocations (`main.cpp:432-433`), the usage text (line 29)
  names them the other way round.  The rates of `main.cpp:80` and `:234` divide by
  zero if every run is an error; they are only printed.
- Log output; `common/event.h` and `ministun.h`, which nothing uses; the programs under
  `references/`, which are not built; the UPnP script; the `iptables` calls as such.

## 7. What is left

The planned models are written: the server, the two connectors, the data phase,
ports and prediction, handles and runners.  Worth adding: PsHolePunch's `Agreement`
for full-cone NATs; the data phase after the port-scanning connector; a run of
PsHolePunch with two transactions.
