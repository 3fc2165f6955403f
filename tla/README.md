# A TLA+ specification of the apiserver network proxy

The network proxy carries connections from the Kubernetes API server (the
*frontend* client) through a *proxy server* to *agents* inside the cluster
network, which dial the destination. This directory models the server, the agent
and the client library, checks them with TLC on small instances, and proves the
main invariants with TLAPS. `PROJECT.json` maps each definition to the lines it
models.

## The system

| Part | Source | Module |
| --- | --- | --- |
| Pending and established dials, frontend streams, agent connections | `pkg/server/server.go` | `ProxyServer` |
| Backend managers and random-routing index | `pkg/server/*backend_manager.go` | `BackendManagers` |
| Dial latency and cost | `pkg/server/backend_manager.go` | `DialCost` |
| In-process dialer, `serverConn`, sending to an agent | `server.go`, `conn.go`, `backend_manager.go` | `ServerConn` |
| HTTP-CONNECT stream and its writer | `pkg/server/tunnel.go`, `http_connect_frontend_writer.go` | `HttpConnectStream` |
| Forward proxy and its connection pools | `pkg/server/tunnel.go` | `ForwardProxy` |
| Agent: client of one server, endpoints | `pkg/agent/client.go` | `AgentClient` |
| Agent: set of clients, server counters | `pkg/agent/clientset.go`, `*_counter.go` | `ClientSet` |
| Client library: tunnel and connection | `konnectivity-client/pkg/client` | `GrpcTunnel` |
| Client library: reusable tunnel | `konnectivity-client/pkg/client/client.go` | `ReusableTunnel`, `DrainedClose` |
| Server leases, their collection and counting | `pkg/server/leases`, `pkg/util/leases.go`, `pkg/agent/lease_counter.go` | `ServerLeases` |
| Server program: start and shutdown | `cmd/server/app/server.go` | `ServerShutdown` |
| Authentication, flags, TLS, metrics, encoding | `server.go`, `cmd`, `pkg/util`, `proto` | no |

A dial goes DIAL_REQ from the frontend, `getBackend`, `PendingDial.Add`, DIAL_REQ
to the agent, DIAL_RSP, `PendingDial.Remove`, `addEstablished`, DIAL_RSP to the
frontend. Then DATA flows until CLOSE_REQ or CLOSE_RSP. The frontend may be a
gRPC stream (`GrpcTunnel` at its other end), an HTTP-CONNECT request, a forwarded
request, or a program that embeds the server. Agents find servers by the count in
a header or by leases.

The modules meet where one relies on a promise that another checks. The child of
a `ReusableTunnel` ends when its stream is cut, which is `CutEndsServe` of
`GrpcTunnel`. `ForwardProxy` relies on connections that die with their agent,
which is `CloseStart` of `ServerConn`. A client of `ClientSet` is an
`AgentClient`. `DialCost` reads the dials in flight, which `InFlightIsPending` of
`ProxyServer` shows to be exact. `ProxyServer` has the agent and the client as its
environment.

## The modules

**`ProxyServer`**. An action is one critical section and the sends after it that
touch neither map. `fePC` and `bePC` are the places where a goroutine can be
overtaken: between `getBackend`, `Add` and the send; between `Remove`,
`addEstablished` and the send of DIAL_RSP; between the steps of a clean-up.
`timers`, `abandoned` and `hooks` are goroutines and callbacks that outlive the
step that started them. `answers` and `told` record what a frontend was
handed. No step of the server or of an agent reads them; the client uses
`answers` to know which connection IDs it was given.

Abstractions: a `*ProxyClientConnection` is its dial ID; selection is any
registered connection; a receive channel and its transport are one unbounded
FIFO, so blocking on a full channel is not modelled; what is sent to an agent is
a set, so its order and duplicates are not; packets with connection ID 0 and of
unknown type, which only log, are left out; a dial that fails at the agent uses
no connection ID. `Retire` is offered to programs that embed the server.

**`BackendManagers`**. Storages, index, DRAIN and selection. The redraw loop of
`GetRandomBackend` takes several steps under its lock, because the draining flags
it reads are atomics that change without the lock. Ranking two candidates is a
free choice here; it is the subject of **`DialCost`**, which has the moving
average, the window and the dials in flight, in ticks of `dialLatencyFloor`. As in
the code, a dial that times out leaves no sample.

**`ServerConn`**. Dials that the server makes for itself over one agent stream
that takes `Window` packets and then stalls. `send` is how far each call of
`SendContext` is, `disp` what the dispatcher does, `sc` a connection with its
dialer and its user. On a *broken* agent stream Read may report the end after
truncated data, so `EndIsComplete` speaks of the other ends only.

**`HttpConnectStream`**. `Send`, the writer goroutine, `Recv` and the four that may
call `close`. The gauge is looked at in steps of its own, as in the code.
**`ForwardProxy`** keeps, of `http.Transport`, that it uses an idle connection of
its pool or dials, and that a request whose connection breaks fails or is sent
again. An error is the set of phrases that `mapDialErrorToHTTPStatus` looks for;
`AgentCauses` are what an agent may report of its own dial.

**`AgentClient`**. `Serve` and five goroutines per connection (dial, reader,
sender, writer, clean-up) with their bounded channels. A send or close on a
closed channel is a step where the code recovers and a panic where it does not.

**`ClientSet`** and **`ServerLeases`**. The set dials one address behind which any
server may answer. A lease is its age; of a resource version only whether the
lease was written since it was listed is kept. One clock is assumed for all
processes. With `Timely` the API server and the informer keep up with renewals;
safety of collection is proved without it.

**`GrpcTunnel`**. `serve`, `DialContext`, the connection and the goroutine that
awaits CLOSE_RSP; a hand-over on a channel is one step of both sides.
**`ReusableTunnel`** replaces the inner tunnel by its promise, and **`DrainedClose`**
is what the `ReusableTunnel` interface promises: no child is taken once closing
began, and closed means that none is left.

**`ServerShutdown`**. `Run`, the goroutine of each server, the timeout, the lease.
`busy` is what a server counts: gRPC streams and HTTP requests. A CONNECT request
of an HTTP frontend leaves it for `tunnels` when `ServeHTTP` hijacks its connection
(`pkg/server/tunnel.go:235`), and `http.Server.Shutdown` does not wait for it; that
such a server is "stopped" says only that its `Shutdown` has returned.

**`MC...`** modules give the constants values. `MCTunnelEnds`, `MCFrontends` and
`Membership` (which `MCMembership` instantiates) hold several components in one
run: `part` chooses one of them once, at the start, and the others rest, so the
state space is the sum of theirs and not the product. `load` in `ServerConn` and
`AgentClient` chooses, once, a bound on the work. Their properties conjoin those of the components, where each is
stated and explained by itself.

## The runs

| Run | Instance | Checks |
| --- | --- | --- |
| `managers_random` | 3 connections, 2 agents, `default` | `IndexIsSound`, `NotifiedIsNotRouted`, `FallbackIsLastResort`, `RegisteredWhileUp`, `SelectionReturns` |
| `managers_host` | the same, `destHost` then `defaultRoute`, one host named twice | `NotifiedIsNotRouted`, `RegisteredWhileUp` |
| `dial` | 1 stream, 1 dial, 1 connection; timeout, HTTP-CONNECT, retirement, a stray connection ID | all `ProxyServer` safety properties but routing |
| `streams` | 2 streams on 1 connection | count, leaks |
| `agents` | 2 streams, 2 agents, colliding connection IDs | routing, loss of an agent, silent close |
| `live` | 1 stream, 1 connection | pending dials resolved, ended streams cleaned up |
| `tunnel_ends` | a tunnel with 1 dial, alone or as a child; a reusable tunnel with 2 dials and 2 `Close`; an agent's client with up to 2 connections | order and completeness of bytes, no double close, slots and gauge exact, every call returns, the reusable tunnel implements `DrainedClose` |
| `frontends` | up to 2 in-process connections; an HTTP-CONNECT stream with queue 0 and 1; 2 agents, 2 forwarded requests | bytes whole, connections accounted for, nobody waits for good, pools follow their agent |
| `membership` | 2 servers and an agent; 2 leases and 1 collector; a server process; 2 agents ranked for 2 dials | clients and leases go for their own reason only, agents reach all servers, `Run` returns, nobody starves |
| `agent_eof`, `client_eof`, `same_agent` | smallest instances | the findings below |

**Bounds.** Two streams and two connections are the fewest that can be confused
with each other. One dial suffices for the races over one dial, since handlers of
other dials meet it only in the maps. `MaxConn` 2 in `dial` leaves an ID that was
never handed out for the client to use by mistake; `MaxSend` 3 allows dial, data
and close on a stream; `MaxData` 1 puts DATA before a close. In the other runs
every channel, window and queue has capacity 1 (an HTTP-CONNECT queue 0 or 1), and
the loads have one packet more than fits: this is where senders block. A DATA
packet of `GrpcTunnel` has two bytes, so a Read may take half of it. Two pools
for one agent are needed to have the callback of an old pool meet a new one.
`LeaseDuration` and `Window` of 2 ticks have a state between fresh and expired.
`MaxClient` 2 has an old and a new client of one server at a time, whose number
is free again when it is gone. `SyncForever` is set: without it, which is the
default, and without leases, an agent stops dialing at the count that the headers
give, so `ReachesAllServers` would hold for right counts only. Deadlock is checked for `BackendManagers`. It is
off elsewhere, because clients, agents and processes may stop.

**Fairness.** Goroutines run on, and timers that the code sets fire. Nothing is
assumed of clients, of remotes that send, or of what ends a stream. In
particular:

* `ProxyServer`: an agent that stays connected answers what reaches it.
* `BackendManagers`: only the selecting goroutine.
* `ServerConn`: nothing makes the agent read; a send ends by its context, its
  deadline or the end of the stream. A dial timeout is configured.
* `HttpConnectStream`: a write to the client ends only by failing, except in
  `CloseEndsStream`, whose condition `ClientReads` says so.
* `AgentClient`: the server reads, and a write to the remote ends. What happens
  when it does not is described below.
* `ClientSet`: strong fairness for reaching each server, since a load balancer that
  never picks one leaves no way to reach it. `DialCost`: strong fairness for an agent
  to be drawn, since the two candidates are drawn at random; among equals the less
  occupied one wins, and an idle agent loses to nobody.
* `ServerLeases`: time goes on, servers renew, informers follow.

Liveness of conditions that stay true once true is written `[]<>(P => Q)`. In the
runs with several components the fairness of a part is a condition of its
liveness properties, or a conjunct of the specification where no fair action of a
resting part is enabled.

Every property of a passing run has mutants: variants of a definition with a
plausible bug, for which TLC reports that property violated. A property that
conjoins several has one for each conjunct.

## Findings

The passing runs do **not** cover the three situations below: a property that
fails in one is checked elsewhere only with that situation excluded by
`FrontendEnds`, `BackendEnds` or `AgentOf`.

* `agent_eof`. An agent half-closes its stream. `serveRecvBackend` fails the
  pending dials, but until `connect` returns the connection still takes sends. A
  frontend that chose it adds its dial after the clean-up, and with no dial
  timeout (the default) the dial stays pending.
* `client_eof`. A frontend half-closes while its DIAL_RSP is between
  `PendingDial.Remove` and `addEstablished`. Its clean-up finds the dial in
  neither map, and the entry added afterwards stays.
* `same_agent`. `established` is keyed by agent ID and connection ID, and each
  connection of an agent counts from 1. Two connections of one agent ID to the
  same server overwrite each other's entries. Agents avoid such connections, but
  the storage is written for them.

Modelling the other components met further places where the code does not do all
that a comment says. The properties are stated so that they hold, and each
exception is explained here:

* `konnectivity-client/pkg/client/client.go:690`. `serve` goes on when it has handed
  over the dial result. If the tunnel ends, or CLOSE_RSP is taken, before
  `conns.add`, nobody closes the connection's channel and its Read blocks.
  `RegisteredReadReturns` is about connections added in time. (The comment at :477
  says that the channels of the remaining connections are closed.)
* `client.go:454`. `closeMetric` may run between the check and the swap of
  `updateMetric`; one state of the gauge keeps +1 and another -1.
  `GaugeTotalIsExact` is about their sum. (The comment at :461 says that `closeMetric`
  finalizes the metric.)
* `pkg/agent/client.go:88`. A remote that reads nothing fills the data channel of
  its connection and stops the receive loop, so `Serve` does not come to the
  clean-up that is to "close all of conns with remote when Client exits" (:333).
  The clean-up itself closes the remote over data still in that channel (:441).
* `pkg/agent/clientset.go:295`. With leases the dial is skipped when there are as
  many clients as servers; while a client of a server that is gone is still
  registered, it counts too, and a leased server may have none, although the
  comment at :71 says "connected to every server". `ReachesAllServers` is about
  links that have settled.
* `pkg/agent/lease_counter.go:86`. When no valid lease is found the count is 1,
  which also replaces the fallback; the comment at :62 says that the fallback is
  returned.
* `cmd/server/app/server.go:382` and `:483`. The stop of an HTTP frontend is
  `http.Server.Shutdown`, which neither waits for nor closes hijacked connections, and
  every CONNECT tunnel is one. A graceful shutdown may thus complete, `Run` return
  and the process end, before the timeout and with tunnels going on, although
  `cmd/server/app/options/options.go:175` says "The server will wait for active
  connections to close before forcefully terminating." `CutsOffNothing` is about the
  streams and requests that a server counts.
* `pkg/server/server.go:926`. A DIAL_CLS for a dial that is already completed is only
  logged; the TODO there reads "Fix the leaked connection due to race (client cancels
  a pending dial but server has completed the dial)." `NoLeakedRemote` takes such a
  connection for established, which it is: it stays until its stream ends, and then
  is closed.
* `cmd/server/app/server.go:207`. The "immediate shutdown" (:192) waits for the
  streams of a gRPC frontend, hence `RunReturnsWhenIdle`. At :371 that frontend has
  no forced stop, although the comment at :295 leaves it to its StopFunc.
* `pkg/server/leases/controller.go:74`. A renewal in progress may write the lease
  again after `Stop` deleted it; it then expires and is collected.

These are behaviours of the models, traced to the code by reading it; none has
been reproduced by running the program.

## The proofs

**`ProxyServer`** (`ProxyServerInvariant`, `ProxyServerStepsProofs`,
`ProxyServerProofs`). For all
values of the constants that satisfy `ConstantsAssumption` (in particular a finite
set of dials):

* `Invariance`: `Spec => []Inv`;
* `TypeCorrect`, `InFlightCounts`, `DialAnsweredOnce`, `DialHasOneOwner`: the
  properties `TypeOK`, `InFlightIsPending`, `AnsweredOnce`, `OneOwner`;
* `RoutingIsCorrect`, `NoRemoteLeaks`: `RoutedToItsClient` and `NoLeakedRemote`,
  assuming that distinct connections have distinct agents (`OneConnPerAgent`);
* `StreamsLeaveNothing`: `StreamLeavesNothing`, if frontends do not half-close;
* `LostAgentsAreSettled`, `EndedStreamsAreSettled`: `LostAgentIsSettled` and
  `EndedStreamIsSettled`, if distinct connections have distinct agents and agents,
  or frontends, do not half-close.

The situations that the assumptions exclude are those of the findings:
`same_agent` and `client_eof` violate the first and the third theorem without
them, and in `agent_eof` a dial is added behind the clean-up of a half-closed
connection.

`AnsweredOnce` is not inductive: a second answer is excluded only because a dial
is requested once, and then is in one place at a time. `Inv` says where: not yet
requested, held by its frontend goroutine, pending, claimed by the goroutine of
its own agent connection, or answered. Its conjuncts state this for requests on
the wire and received, the send in progress, abandoned sends and timers, agent
responses, claimed dials and established entries. `InFlightIsPending` is kept
apart, because it needs cardinalities: each step adds one dial, removes a set of
pending dials, or changes nothing (`AddKeepsCount`, `RemoveKeepsCount`).

What remains after an end needs three more invariants, each inductive given `Inv`
and `EndsInv` (the stages of the two goroutines and how their streams ended).
`StreamInv`: from the moment `proxy` cleans up, a dial of the stream is pending no
more, and one established behind the clean-up is in the hands of a DIAL_RSP
handler that will find the stream broken. `LossInv` says the same of an agent
connection. `RemoteInv` follows a connection that the agent holds from its
DIAL_RSP to its CLOSE_REQ (`TrackedInv`). It needs that an agent gives a connection
ID once (`GivenInv`), that a dial being forwarded is established unless its stream
has been cleaned up (`ForwardInv`), and that a CLOSE_RSP found before a DIAL_RSP of
the same ID is not taken for an end of that connection (`OrderInv`: it answers a
close of an ID that was not yet given). `NoSilentClose` is inductive with them.

A dial ID is assumed to be requested once (`Dial` names requests), so reuse of a
random number by clients, which `Add` tolerates, is outside model and proofs.

**`BackendManagersProofs`**, for any number of connections, agents and hosts and
every list of strategies. `TypeCorrect`, `IndexSoundness`, `NotifiedStaysOff`,
`LastResort` and `RegistrationIsExact` are the properties `TypeOK`, `IndexIsSound`,
`NotifiedIsNotRouted`, `FallbackIsLastResort` and `RegisteredWhileUp`. `HeldInv` says
which connections a storage holds while the calls of `addBackend` and
`removeBackend` are under way: those that are left to be made account for the
difference (a defaultRoute connection is added under several identifiers, and
one identifier may be named twice). `IndexInv` is the index with how stale it
may be: an identifier listed as draining has a draining primary, and one listed
as not draining has a primary whose DRAIN has not yet passed this manager.
`SelInv` is what the redraw loop may rely on under its lock. The lemmas under
them say what appending, removing one element and promoting the next do to the
range and the injectivity of a sequence.

**`ReusableTunnelProofs`**, for a finite set of dials and any Close calls.
`SlotKeeping` is `SlotsAreKept`, `AddsBeforeClose` that no `children.Add` comes
after closing began, and `Refinement` that the tunnel implements the safety part of
`DrainedClose` with `live` mapped to the dials that hold a slot. The invariant ties
the place of a call to its set-up, its child and the goroutine that waits for the
child (`SlotInv`): a dial step takes a slot, gives one back, or touches none, and
the counter follows.

**`MembershipProofs`**, for any number of servers, clients, collectors, agents and
dials (`MembershipAssumption`): `Soundness` is `MembershipIsSound`, and `OwnReasons` the
action property `NothingGoesEarly`. There is an invariant for each part.

* `SetInv`: the clients that are registered or being added are exactly the open
  ones (`KnownIsOpen`), and each is registered for its own server only; so a late
  `removeClient` of an older client cannot hit a newer one.
* `LeasesInv`: what a collector has listed is not younger than the stored lease
  unless that was written since (`Fresh`), and the delete carries the version; so
  a deleted lease has expired.
* `ShutdownInv`: the WaitGroup counts the goroutines still to stop a server
  (`CountInv`), and what has stopped when `Run` is at each of its places
  (`StopInv`): it comes to the lease only when the goroutines are done or time is
  out, so it does not return over a stream that a server counts.
* `DialCost!TypeOK`, with which an idle agent has cost 0.

**`ForwardProxyProofs`**. `Keeping` is `RequestsKeepToTheirAgent`, from `OwnBackend`,
`Watched` and `Unavailable`, for any number of agents, requests and
pools. A request keeps to its backend in its pool and its connection (`Loyal`), and
is answered 503 exactly when there was no agent or its agent had too many open
files, the two conditions that the code calls retryable
(`pkg/server/tunnel.go:525`).

Only model-checked: the properties of `GrpcTunnel`, `AgentClient`, `ServerConn` and
`HttpConnectStream`, and all liveness, the liveness of `DrainedClose` included:
fairness and `ENABLED` are out of the prover's reach.

## Not modelled

* Mutual blocking of server and agent through both receive loops
  (`pkg/server/server.go:1218`): `ServerConn` and `AgentClient` each have flow control
  against an environment; a cycle needs both in one module with both windows full.
* Agent authentication: one call of the token review service, before a
  connection has state.
* Encoding of packets and parsing of headers, TLS, flags, listeners: no protocol
  state, or generated code.
* Readiness and the other metrics: they read state and change none.
* Read deadlines of `serverConn`, the length of backoffs, reuse of a dial ID.
