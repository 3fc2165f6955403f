--------------------------- MODULE ReusableTunnel ---------------------------
(* The reusable tunnel of the konnectivity client                         *)
(* (konnectivity-client/pkg/client/client.go: reusableGrpcTunnel): one    *)
(* shared ClientConn, one Proxy stream with a single-stream tunnel per    *)
(* DialContext call, and a Close that waits for all of them.              *)
(*                                                                        *)
(* The single-stream tunnel inside is represented by its promise, which   *)
(* module GrpcTunnel checks: its DialContext returns, and its serve       *)
(* goroutine ends once the stream is cut (CutEndsServe there).            *)
EXTENDS Integers, FiniteSets

CONSTANTS
  Dial,     \* the DialContext calls
  Closer    \* the Close calls

ASSUME DialAssumption == IsFiniteSet(Dial)

VARIABLES
  closing,    \* r.closing, guarded by acceptMu
  children,   \* the counter of the WaitGroup
  cancelled,  \* tunnelCtx is cancelled
  ccClosed,   \* cc.Close was called
  done,       \* r.done is closed
  dialPC,     \* idle, select, drain, inner, returned
  outcome,    \* none, conn, error
  requestDone,\* requestCtx of the call is done
  setup,      \* the goroutine in newSingleStreamTunnel: none, running, ok, failed
  inner,      \* the child tunnel: none, serving, done
  cut,        \* streamCtx of the call was cancelled by itself
  watcher,    \* the goroutine waiting for inner.Done: off, wait, gone
  closePC     \* idle, cancel, wait, signal, second, returned

tunnelVars == <<closing, cancelled, ccClosed, done>>
childVars == <<setup, inner, cut, watcher>>
vars == <<tunnelVars, children, dialPC, outcome, requestDone, childVars, closePC>>

(* newReusableGrpcTunnel. *)
Init ==
  /\ closing = FALSE /\ children = 0 /\ cancelled = FALSE
  /\ ccClosed = FALSE /\ done = FALSE
  /\ dialPC = [d \in Dial |-> "idle"] /\ outcome = [d \in Dial |-> "none"]
  /\ requestDone = [d \in Dial |-> FALSE]
  /\ setup = [d \in Dial |-> "none"] /\ inner = [d \in Dial |-> "none"]
  /\ cut = [d \in Dial |-> FALSE] /\ watcher = [d \in Dial |-> "off"]
  /\ closePC = [k \in Closer |-> "idle"]

DialGoto(d, pc) == dialPC' = [dialPC EXCEPT ![d] = pc]
Return(d, what) == DialGoto(d, "returned") /\ outcome' = [outcome EXCEPT ![d] = what]
CloseGoto(k, pc) == closePC' = [closePC EXCEPT ![k] = pc]
streamCancel(d) == cut' = [cut EXCEPT ![d] = TRUE]
StreamCut(d) == cut[d] \/ cancelled

-----------------------------------------------------------------------------
(* DialContext *)

(* Mutant: the child is counted without looking at closing. *)
DialStartAnyway(d) ==
  /\ dialPC[d] = "idle"
  /\ children' = children + 1 /\ DialGoto(d, "select")
  /\ setup' = [setup EXCEPT ![d] = "running"]
  /\ UNCHANGED <<tunnelVars, outcome, requestDone, inner, cut, watcher, closePC>>

(* Under acceptMu: refused when closing, otherwise counted; a goroutine   *)
(* sets the stream up.                                                    *)
DialStart(d) ==
  /\ dialPC[d] = "idle"
  /\ IF closing
     THEN Return(d, "error") /\ UNCHANGED <<children, setup>>
     ELSE /\ children' = children + 1 /\ DialGoto(d, "select")
          /\ setup' = [setup EXCEPT ![d] = "running"] /\ UNCHANGED outcome
  /\ UNCHANGED <<tunnelVars, requestDone, inner, cut, watcher, closePC>>

(* newSingleStreamTunnel returns a serving tunnel ... *)
SetupOk(d) ==
  /\ setup[d] = "running" /\ ~ccClosed
  /\ setup' = [setup EXCEPT ![d] = "ok"]
  /\ inner' = [inner EXCEPT ![d] = "serving"]
  /\ UNCHANGED <<tunnelVars, children, dialPC, outcome, requestDone, cut, watcher, closePC>>

(* ... or an error, as it does when the stream's context is cancelled. *)
SetupFails(d) ==
  /\ setup[d] = "running"
  /\ setup' = [setup EXCEPT ![d] = "failed"]
  /\ UNCHANGED <<tunnelVars, children, dialPC, outcome, requestDone, inner, cut, watcher,
                 closePC>>

(* The set-up result is received first ... *)
TakeResult(d) ==
  /\ dialPC[d] = "select" /\ setup[d] \in {"ok", "failed"}
  /\ IF setup[d] = "ok"
     THEN /\ watcher' = [watcher EXCEPT ![d] = "wait"]
          /\ DialGoto(d, "inner") /\ UNCHANGED <<children, cut, outcome>>
     ELSE /\ streamCancel(d) /\ children' = children - 1
          /\ Return(d, "error") /\ UNCHANGED watcher
  /\ UNCHANGED <<tunnelVars, requestDone, setup, inner, closePC>>

(* Mutant: waits for the set-up without cancelling it. *)
RequestEndsOnly(d) ==
  /\ dialPC[d] = "select" /\ requestDone[d]
  /\ DialGoto(d, "drain")
  /\ UNCHANGED <<tunnelVars, children, outcome, requestDone, childVars, closePC>>

(* ... or requestCtx is done first. *)
RequestEnds(d) ==
  /\ dialPC[d] = "select" /\ requestDone[d]
  /\ streamCancel(d) /\ DialGoto(d, "drain")
  /\ UNCHANGED <<tunnelVars, children, outcome, requestDone, setup, inner, watcher, closePC>>

(* Mutant: does not wait for a tunnel that was set up in the meantime. *)
DrainReleased(d) ==
  /\ dialPC[d] = "drain" /\ setup[d] \in {"ok", "failed"}
  /\ children' = children - 1
  /\ Return(d, "error")
  /\ UNCHANGED <<tunnelVars, requestDone, childVars, closePC>>

(* Mutant: forgets the slot when the set-up failed. *)
DrainKept(d) ==
  /\ dialPC[d] = "drain" /\ setup[d] \in {"ok", "failed"}
  /\ watcher' = [watcher EXCEPT ![d] = IF setup[d] = "ok" THEN "wait" ELSE @]
  /\ Return(d, "error")
  /\ UNCHANGED <<tunnelVars, children, requestDone, setup, inner, cut, closePC>>

(* The result is drained, and a tunnel that was set up is waited for. *)
Drain(d) ==
  /\ dialPC[d] = "drain" /\ setup[d] \in {"ok", "failed"}
  /\ IF setup[d] = "ok"
     THEN watcher' = [watcher EXCEPT ![d] = "wait"] /\ UNCHANGED children
     ELSE children' = children - 1 /\ UNCHANGED watcher
  /\ Return(d, "error")
  /\ UNCHANGED <<tunnelVars, requestDone, setup, inner, cut, closePC>>

(* inner.DialContext returns a connection ... *)
InnerDialOk(d) ==
  /\ dialPC[d] = "inner" /\ Return(d, "conn")
  /\ UNCHANGED <<tunnelVars, children, requestDone, childVars, closePC>>

(* Mutant: a failed dial leaves its stream running. *)
InnerDialKept(d) ==
  /\ dialPC[d] = "inner" /\ Return(d, "error")
  /\ UNCHANGED <<tunnelVars, children, requestDone, childVars, closePC>>

(* ... or an error, and the stream is cancelled. *)
InnerDialFails(d) ==
  /\ dialPC[d] = "inner" /\ Return(d, "error")
  /\ streamCancel(d)
  /\ UNCHANGED <<tunnelVars, children, requestDone, setup, inner, watcher, closePC>>

(* The serve goroutine of the child ends and calls closeFn. *)
InnerEnds(d) ==
  /\ inner[d] = "serving"
  /\ inner' = [inner EXCEPT ![d] = "done"] /\ streamCancel(d)
  /\ UNCHANGED <<tunnelVars, children, dialPC, outcome, requestDone, setup, watcher, closePC>>

(* <-inner.Done(); children.Done() *)
ChildDone(d) ==
  /\ watcher[d] = "wait" /\ inner[d] = "done"
  /\ watcher' = [watcher EXCEPT ![d] = "gone"]
  /\ children' = children - 1
  /\ UNCHANGED <<tunnelVars, dialPC, outcome, requestDone, setup, inner, cut, closePC>>

(* The caller's context ends. *)
RequestDone(d) ==
  /\ dialPC[d] # "returned" /\ ~requestDone[d]
  /\ requestDone' = [requestDone EXCEPT ![d] = TRUE]
  /\ UNCHANGED <<tunnelVars, children, dialPC, outcome, childVars, closePC>>

-----------------------------------------------------------------------------
(* Close *)

CloseStart(k) ==
  /\ closePC[k] = "idle"
  /\ closing' = TRUE
  /\ CloseGoto(k, IF closing THEN "second" ELSE "cancel")
  /\ UNCHANGED <<cancelled, ccClosed, done, children, dialPC, outcome, requestDone, childVars>>

(* Mutant: waits for the children without cancelling them. *)
CloseNoCancel(k) ==
  /\ closePC[k] = "cancel" /\ CloseGoto(k, "wait")
  /\ UNCHANGED <<tunnelVars, children, dialPC, outcome, requestDone, childVars>>

CloseCancel(k) ==
  /\ closePC[k] = "cancel" /\ CloseGoto(k, "wait")
  /\ cancelled' = TRUE
  /\ UNCHANGED <<closing, ccClosed, done, children, dialPC, outcome, requestDone, childVars>>

(* Mutant: closes the connection under its streams. *)
CloseNoWait(k) ==
  /\ closePC[k] = "wait"
  /\ ccClosed' = TRUE /\ CloseGoto(k, "signal")
  /\ UNCHANGED <<closing, cancelled, done, children, dialPC, outcome, requestDone, childVars>>

(* children.Wait, then cc.Close. *)
CloseWait(k) ==
  /\ closePC[k] = "wait" /\ children = 0
  /\ ccClosed' = TRUE /\ CloseGoto(k, "signal")
  /\ UNCHANGED <<closing, cancelled, done, children, dialPC, outcome, requestDone, childVars>>

CloseSignal(k) ==
  /\ closePC[k] = "signal" /\ done' = TRUE /\ CloseGoto(k, "returned")
  /\ UNCHANGED <<closing, cancelled, ccClosed, children, dialPC, outcome, requestDone, childVars>>

(* A later call returns when the first one has finished. *)
CloseSecond(k) ==
  /\ closePC[k] = "second" /\ done /\ CloseGoto(k, "returned")
  /\ UNCHANGED <<tunnelVars, children, dialPC, outcome, requestDone, childVars>>

-----------------------------------------------------------------------------
Dialing(d) == TakeResult(d) \/ RequestEnds(d) \/ Drain(d) \/ InnerDialOk(d)
              \/ InnerDialFails(d)
Closing(k) == CloseCancel(k) \/ CloseWait(k) \/ CloseSignal(k) \/ CloseSecond(k)

Next ==
  \/ \E d \in Dial : \/ DialStart(d) \/ SetupOk(d) \/ SetupFails(d) \/ Dialing(d)
                     \/ InnerEnds(d) \/ ChildDone(d) \/ RequestDone(d)
  \/ \E k \in Closer : CloseStart(k) \/ Closing(k)

Spec == Init /\ [][Next]_vars

(* Goroutines run on; a set-up and a serve loop whose stream is cut end.  *)
(* A set-up or a serve loop that nobody cancels may last for ever.        *)
Fairness ==
  /\ \A d \in Dial : /\ WF_vars(Dialing(d)) /\ WF_vars(ChildDone(d))
                     /\ WF_vars(StreamCut(d) /\ (SetupOk(d) \/ SetupFails(d)))
                     /\ WF_vars(StreamCut(d) /\ InnerEnds(d))
  /\ \A k \in Closer : WF_vars(Closing(k))

FairSpec == Spec /\ Fairness

-----------------------------------------------------------------------------
(* Properties *)

(* Every variable has the type of what it models. *)
TypeOK ==
  /\ closing \in BOOLEAN /\ children \in Nat /\ cancelled \in BOOLEAN
  /\ ccClosed \in BOOLEAN /\ done \in BOOLEAN
  /\ dialPC \in [Dial -> {"idle", "select", "drain", "inner", "returned"}]
  /\ outcome \in [Dial -> {"none", "conn", "error"}]
  /\ requestDone \in [Dial -> BOOLEAN] /\ cut \in [Dial -> BOOLEAN]
  /\ setup \in [Dial -> {"none", "running", "ok", "failed"}]
  /\ inner \in [Dial -> {"none", "serving", "done"}]
  /\ watcher \in [Dial -> {"off", "wait", "gone"}]
  /\ closePC \in [Closer -> {"idle", "cancel", "wait", "signal", "second", "returned"}]

(* The dials whose slot in the WaitGroup has not been given back: the     *)
(* call has not got past the set-up, or a goroutine waits for the child.  *)
Live == {d \in Dial : dialPC[d] \in {"select", "drain"} \/ watcher[d] = "wait"}

(* Every child is counted once, whichever of the six ways out of          *)
(* DialContext it takes.                                                  *)
ChildrenAreCounted == children = Cardinality(Live)

(* The Done contract: when cc is closed, no child serves on it and no     *)
(* set-up uses it, those included whose request ended during the set-up.  *)
NoChildOnClosedConn ==
  ccClosed => \A d \in Dial : setup[d] # "running" /\ inner[d] # "serving"

(* Both: the counter that Close waits for is exact, and so what it waits  *)
(* for has ended when it closes the connection.                           *)
SlotsAreKept == ChildrenAreCounted /\ NoChildOnClosedConn

(* children.Add never runs once Close may be in children.Wait.            *)
NoAddAfterClose == [][children' > children => ~closing]_vars

(* Close returns for every caller, although set-ups and dials are in      *)
(* progress when it is called.  (It is called once, so []<> says here that *)
(* the call leads to the return; the next two conditions do not end.)     *)
CloseReturns == \A k \in Closer : []<>(closePC[k] \in {"idle", "returned"})

(* A dial returns once its request or the tunnel is given up, however     *)
(* long the stream takes to set up.                                       *)
DialReturns == \A d \in Dial :
  []<>(dialPC[d] # "idle" /\ (requestDone[d] \/ cancelled) => dialPC[d] = "returned")

(* The child of a dial that failed ends by itself, so a long-lived tunnel *)
(* does not collect streams.                                              *)
FailedChildEnds == \A d \in Dial :
  []<>(outcome[d] = "error" => inner[d] # "serving" /\ watcher[d] # "wait")

(* The tunnel implements DrainedClose, with Close's liveness.             *)
Contract == INSTANCE DrainedClose WITH
  Child <- Dial, live <- Live,
  phase <- IF ccClosed THEN "closed" ELSE IF closing THEN "draining" ELSE "open"
DrainsBeforeClosing == Contract!Spec

=============================================================================
