--------------------------- MODULE ServerShutdown ---------------------------
(* The life of a proxy server process: Proxy.Run and the signal handler     *)
(* (cmd/server/app/server.go).  Run starts four servers and the lease       *)
(* controller, waits for the signal, and stops them: at once, or gracefully *)
(* with one goroutine for each server and a timeout over all of them.       *)
(*                                                                          *)
(* What the servers serve is whether one of them is busy: with a stream or  *)
(* a request that has not ended.  Streams of agents and of frontends end    *)
(* when their clients want.  An HTTP frontend serves a CONNECT request on   *)
(* the connection it takes from the server (Tunnel.ServeHTTP): from then on *)
(* the server does not count it among its requests, and it is in tunnels.   *)
EXTENDS Integers, FiniteSets

Servers == {"frontend", "agent", "admin", "health"}

VARIABLES
  graceful,           \* GracefulShutdownTimeout > 0
  modeGRPC,           \* the frontend server is a gRPC server, or an HTTP server
  main,               \* Run: what it does next
  srv,                \* of each server: none, serving, draining, stopped
  busy,               \* servers with a stream or request that goes on
  tunnels,            \* a CONNECT tunnel goes on over a hijacked connection
  worker,             \* of each server: the goroutine that stops it: none, go, done
  wg,                 \* the WaitGroup's counter
  shutdownComplete,   \* the channel is closed
  timedOut,           \* shutdownCtx is done
  lease,              \* the server's lease exists
  signals             \* signals received

down == <<worker, wg, shutdownComplete, timedOut>>
options == <<graceful, modeGRPC>>
state == <<main, srv, busy, down, lease, signals>>
vars == <<options, state, tunnels>>

Init ==
  /\ graceful \in BOOLEAN /\ modeGRPC \in BOOLEAN
  /\ main = "frontend" /\ srv = [s \in Servers |-> "none"] /\ busy = {}
  /\ tunnels = FALSE
  /\ worker = [s \in Servers |-> "none"] /\ wg = 0
  /\ shutdownComplete = FALSE /\ timedOut = FALSE /\ lease = FALSE /\ signals = 0

Goto(here, there) == main = here /\ main' = there
Alive == main \notin {"over", "failed"}

-----------------------------------------------------------------------------
(* Run: start *)

StartOnly == <<busy, down, lease, signals>>

(* The frontend or the agent server cannot listen: Run returns the error. *)
StartFails ==
  /\ main \in {"frontend", "agent"} /\ main' = "failed"
  /\ UNCHANGED <<srv, StartOnly>>

runFrontendServer ==
  /\ Goto("frontend", "agent") /\ srv' = [srv EXCEPT !["frontend"] = "serving"]
  /\ UNCHANGED StartOnly

(* With the lease controller, whose Run starts two goroutines. *)
runAgentServer ==
  /\ Goto("agent", "admin") /\ srv' = [srv EXCEPT !["agent"] = "serving"]
  /\ UNCHANGED StartOnly

(* The admin and the health server listen in goroutines of their own. *)
runAdminHealth ==
  /\ Goto("admin", "wait")
  /\ srv' = [srv EXCEPT !["admin"] = "serving", !["health"] = "serving"]
  /\ UNCHANGED StartOnly

(* handleSignals: the second signal ends the process. *)
Signal ==
  /\ Alive /\ signals < 2 /\ signals' = signals + 1
  /\ main' = IF signals = 1 THEN "failed" ELSE main
  /\ UNCHANGED <<srv, busy, down, lease>>

-----------------------------------------------------------------------------
(* Run: immediate shutdown *)

Close(S) == [s \in Servers |-> IF s \in S THEN "stopped" ELSE srv[s]]

(* Mutant: the frontend server goes on accepting streams. *)
StopNowAccepting ==
  /\ Goto("wait", "frontendStop") /\ signals > 0 /\ ~graceful
  /\ srv' = Close({"health", "admin", "agent"})
  /\ busy' = busy \cap {"frontend"} /\ lease' = FALSE
  /\ UNCHANGED <<down, signals>>

(* Health and admin server are closed, the lease is deleted, the agent      *)
(* server is stopped, and the frontend's StopFunc begins.                   *)
StopNow ==
  /\ Goto("wait", "frontendStop") /\ signals > 0 /\ ~graceful
  /\ srv' = [Close({"health", "admin", "agent"}) EXCEPT !["frontend"] = "draining"]
  /\ busy' = busy \cap {"frontend"} /\ lease' = FALSE
  /\ UNCHANGED <<down, signals>>

(* frontendStop(ctx): nobody cancels this context while Run waits.  A gRPC  *)
(* server waits for its streams, an HTTP server for its requests, but not   *)
(* for its tunnels.                                                         *)
StopReturns ==
  /\ Goto("frontendStop", "over") /\ "frontend" \notin busy
  /\ srv' = Close({"frontend"}) /\ UNCHANGED <<busy, down, lease, signals>>

-----------------------------------------------------------------------------
(* Run: graceful shutdown *)

ShutdownOnly == <<busy, shutdownComplete, timedOut, lease, signals>>

(* Mutant: each goroutine adds itself to the WaitGroup. *)
ShutdownAddsLate ==
  /\ Goto("wait", "select") /\ signals > 0 /\ graceful
  /\ wg' = 0 /\ worker' = [s \in Servers |-> "go"] /\ UNCHANGED <<srv, ShutdownOnly>>

(* The four goroutines are added to the WaitGroup before they start. *)
Shutdown ==
  /\ Goto("wait", "select") /\ signals > 0 /\ graceful
  /\ wg' = Cardinality(Servers) /\ worker' = [s \in Servers |-> "go"]
  /\ UNCHANGED <<srv, ShutdownOnly>>

(* GracefulStop and Shutdown refuse what is new. *)
WorkerStarts(s) ==
  /\ Alive /\ worker[s] = "go" /\ srv[s] = "serving"
  /\ srv' = [srv EXCEPT ![s] = "draining"]
  /\ UNCHANGED <<main, worker, wg, ShutdownOnly>>

(* An HTTP server's Shutdown heeds its context, GracefulStop has none. *)
HeedsContext(s) == s # "agent" /\ (s = "frontend" => ~modeGRPC)

(* Mutant: the server is stopped with what it serves. *)
WorkerStops(s) ==
  /\ Alive /\ worker[s] = "go" /\ srv[s] # "serving"
  /\ worker' = [worker EXCEPT ![s] = "done"] /\ wg' = wg - 1
  /\ srv' = Close({s}) /\ busy' = busy \ {s}
  /\ UNCHANGED <<main, shutdownComplete, timedOut, lease, signals>>

(* The server is idle, whether there are tunnels or not, or the HTTP        *)
(* server's Shutdown gives up.                                              *)
WorkerEnds(s) ==
  /\ Alive /\ worker[s] = "go" /\ srv[s] # "serving"
  /\ \/ s \notin busy /\ srv' = Close({s})
     \/ s \in busy /\ timedOut /\ HeedsContext(s) /\ UNCHANGED srv
  /\ worker' = [worker EXCEPT ![s] = "done"] /\ wg' = wg - 1
  /\ UNCHANGED <<main, ShutdownOnly>>

(* The goroutine that waits for the others. *)
WaitEnds ==
  /\ Alive /\ \A s \in Servers : worker[s] # "none"
  /\ wg = 0 /\ ~shutdownComplete /\ shutdownComplete' = TRUE
  /\ UNCHANGED <<main, srv, busy, worker, wg, timedOut, lease, signals>>

TimeOut ==
  /\ main = "select" /\ ~timedOut /\ timedOut' = TRUE
  /\ UNCHANGED <<main, srv, busy, worker, wg, shutdownComplete, lease, signals>>

Completed ==
  /\ Goto("select", "lease") /\ shutdownComplete
  /\ UNCHANGED <<srv, busy, down, lease, signals>>

(* Mutant: the agent server is left to its goroutine. *)
ForcedWithoutAgent ==
  /\ Goto("select", "lease") /\ timedOut
  /\ srv' = Close({"admin", "health"}) /\ busy' = busy \ {"admin", "health"}
  /\ UNCHANGED <<down, lease, signals>>

(* Mutant: the goroutines are waited for after all. *)
ForcedWaits ==
  /\ Goto("select", "lease") /\ timedOut /\ shutdownComplete
  /\ srv' = Close({"agent", "admin", "health"}) /\ busy' = busy \cap {"frontend"}
  /\ UNCHANGED <<down, lease, signals>>

(* The timeout: the agent, admin and health servers are cut off. *)
Forced ==
  /\ Goto("select", "lease") /\ timedOut
  /\ srv' = Close({"agent", "admin", "health"}) /\ busy' = busy \cap {"frontend"}
  /\ UNCHANGED <<down, lease, signals>>

(* leaseController.Stop, a call that ends before Run does. *)
StopLease ==
  /\ Goto("lease", "return") /\ lease' = FALSE
  /\ UNCHANGED <<srv, busy, down, signals>>

Return == Goto("return", "over") /\ UNCHANGED <<srv, busy, down, lease, signals>>

-----------------------------------------------------------------------------
(* Outside of Run *)

(* The acquire controller, until Run's context is cancelled. *)
Renew ==
  /\ Alive /\ main \notin {"frontend", "agent"} /\ ~lease /\ lease' = TRUE
  /\ UNCHANGED <<main, srv, busy, down, signals>>

Begins(s) ==
  /\ Alive /\ srv[s] = "serving" /\ s \notin busy /\ busy' = busy \cup {s}
  /\ UNCHANGED <<main, srv, down, lease, signals>>

Ends(s) ==
  /\ Alive /\ s \in busy /\ busy' = busy \ {s}
  /\ UNCHANGED <<main, srv, down, lease, signals>>

(* ServeHTTP takes the connection of a CONNECT request; other requests may  *)
(* go on.                                                                   *)
Hijack ==
  /\ Alive /\ ~modeGRPC /\ "frontend" \in busy /\ tunnels' = TRUE
  /\ busy' \in {busy, busy \ {"frontend"}}
  /\ UNCHANGED <<main, srv, down, lease, signals>>

TunnelEnds == Alive /\ tunnels /\ tunnels' = FALSE /\ UNCHANGED state

Runs ==
  \/ StartFails \/ runFrontendServer \/ runAgentServer \/ runAdminHealth \/ Signal
  \/ StopNow \/ StopReturns \/ Shutdown \/ WaitEnds \/ TimeOut \/ Completed
  \/ Forced \/ StopLease \/ Return \/ Renew
  \/ \E s \in Servers : WorkerStarts(s) \/ WorkerEnds(s) \/ Begins(s) \/ Ends(s)

Next ==
  /\ UNCHANGED options
  /\ (Runs /\ UNCHANGED tunnels) \/ Hijack \/ TunnelEnds

Spec == Init /\ [][Next]_vars

(* Run, its goroutines and the timer go on; streams and requests need not  *)
(* end, and no second signal need come.                                    *)
Fairness ==
  /\ WF_state(runFrontendServer \/ runAgentServer \/ runAdminHealth)
  /\ WF_state(StopNow \/ StopReturns \/ Shutdown \/ StopLease \/ Return)
  /\ WF_state(Completed \/ Forced) /\ WF_state(WaitEnds) /\ WF_state(TimeOut)
  /\ \A s \in Servers : WF_state(WorkerStarts(s)) /\ WF_state(WorkerEnds(s))

FairSpec == Spec /\ Fairness

-----------------------------------------------------------------------------
(* Every variable has its type; the WaitGroup's counter, which panics when *)
(* it goes below 0, does not.                                              *)
TypeOK ==
  /\ main \in {"frontend", "agent", "admin", "wait", "frontendStop", "select",
               "lease", "return", "over", "failed"}
  /\ srv \in [Servers -> {"none", "serving", "draining", "stopped"}]
  /\ busy \subseteq Servers /\ tunnels \in BOOLEAN
  /\ worker \in [Servers -> {"none", "go", "done"}]
  /\ wg \in 0..Cardinality(Servers) /\ signals \in 0..2
  /\ shutdownComplete \in BOOLEAN /\ timedOut \in BOOLEAN /\ lease \in BOOLEAN

(* shutdownComplete means what is logged of it: every goroutine is done,   *)
(* and before the timeout every server has come to its end by itself: its  *)
(* GracefulStop or Shutdown has returned because nothing it counts goes on *)
(* (tunnels of an HTTP frontend may).                                      *)
CompleteMeansStopped ==
  shutdownComplete => \A s \in Servers :
                        worker[s] = "done" /\ (timedOut \/ srv[s] = "stopped")

(* Before its timeout a graceful shutdown cuts off nothing that a server   *)
(* counts, which is every gRPC stream, and every HTTP request that is not  *)
(* a CONNECT tunnel: while one goes on, its server is not stopped, and Run *)
(* does not return and end the process over it.  For the tunnels of an     *)
(* HTTP frontend the code does not see to this.                            *)
CutOff(s) == srv[s] = "stopped" \/ main = "over"
CutsOffNothing ==
  graceful => \A s \in busy : CutOff(s)' /\ ~CutOff(s) => timedOut
NothingIsCutOff == [][CutsOffNothing]_vars

(* Run ends its graceful shutdown with the lease (main is past "lease")    *)
(* only when no agent is served any more, forced or not: agents count a    *)
(* server while it may still serve them.                                   *)
LeaseGoesLast ==
  main \in {"return", "over"} => srv["agent"] = "stopped" /\ "agent" \notin busy

(* A graceful Run returns after a signal, whatever the streams of agents   *)
(* and frontends and the tunnels do.                                       *)
RunReturns == []<>(graceful /\ signals > 0 => ~Alive)

(* The immediate shutdown waits for no more than the streams, or the       *)
(* requests but CONNECT, that the frontend server had when it began: it    *)
(* ends when they have.                                                    *)
RunReturnsWhenIdle ==
  []<>("frontend" \notin busy) => []<>(~graceful /\ signals > 0 => ~Alive)

=============================================================================
