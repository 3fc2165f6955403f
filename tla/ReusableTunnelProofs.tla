------------------------ MODULE ReusableTunnelProofs ------------------------
(* Theorems about module ReusableTunnel, for any finite set of dials and  *)
(* any set of Close calls.                                                *)
EXTENDS ReusableTunnel, FiniteSetTheorems, TLAPS

(* Where a dial is, its set-up goroutine, its child and the goroutine     *)
(* that waits for the child go together: the call hands its slot over to  *)
(* that goroutine or gives it back, so a set-up that runs or a child that *)
(* serves always has a slot.                                              *)
SlotInv == \A d \in Dial :
  /\ dialPC[d] = "idle" => setup[d] = "none"
  /\ dialPC[d] \in {"select", "drain"} => setup[d] # "none" /\ watcher[d] = "off"
  /\ dialPC[d] = "inner" => setup[d] = "ok" /\ watcher[d] # "off"
  /\ dialPC[d] = "returned" => setup[d] # "running"
  /\ dialPC[d] = "returned" /\ setup[d] = "ok" => watcher[d] # "off"
  /\ watcher[d] # "off" => setup[d] = "ok"
  /\ watcher[d] = "gone" => inner[d] = "done"
  /\ inner[d] = "serving" => setup[d] = "ok"

(* The steps of Close come in order: cc is closed only when closing is    *)
(* set and the counter has reached 0, where it stays.                     *)
CloseInv ==
  /\ \A k \in Closer : closePC[k] \in {"cancel", "wait", "signal"} => closing
  /\ ccClosed => closing /\ children = 0

Inv == TypeOK /\ ChildrenAreCounted /\ SlotInv /\ CloseInv

(* Live is finite, since there are finitely many dials.                   *)
LEMMA LiveFinite == IsFiniteSet(Live)
<1>1. Live \subseteq Dial
  BY DEF Live
<1>. QED  BY <1>1, DialAssumption, FS_Subset

(* A counter that equals the number of children is 0 exactly when there   *)
(* are none.                                                              *)
LEMMA NoChildren ==
  ASSUME ChildrenAreCounted
  PROVE  children = 0 <=> Live = {}
BY LiveFinite, FS_EmptySet DEF ChildrenAreCounted

(* What taking a slot and giving one back does to the number of children. *)
LEMMA SlotTaken ==
  ASSUME NEW d \in Dial, d \notin Live, Live' = Live \cup {d},
         children' = children + 1, ChildrenAreCounted
  PROVE  ChildrenAreCounted'
BY LiveFinite, FS_AddElement DEF ChildrenAreCounted

(* The same of a slot that is given back: the counter was above 0.        *)
LEMMA SlotReturned ==
  ASSUME NEW d \in Dial, d \in Live, Live' = Live \ {d},
         children' = children - 1, ChildrenAreCounted
  PROVE  ChildrenAreCounted' /\ children > 0
<1>1. Cardinality(Live \ {d}) = Cardinality(Live) - 1 /\ Cardinality(Live) \in Nat
  BY LiveFinite, FS_RemoveElement, FS_CardinalityType
<1>2. Cardinality(Live) # 0
  BY LiveFinite, FS_EmptySet
<1>. QED  BY <1>1, <1>2 DEF ChildrenAreCounted

(* The steps that give a slot back: a set-up that failed, met by the call *)
(* itself or by the goroutine that drains it, or a child that has ended.  *)
Leaves(d) ==
  \/ setup[d] = "failed" /\ (TakeResult(d) \/ Drain(d))
  \/ ChildDone(d)

(* The steps of a dial that neither take a slot nor give one back.        *)
Stays(d) ==
  \/ closing /\ DialStart(d)
  \/ setup[d] = "ok" /\ (TakeResult(d) \/ Drain(d))
  \/ SetupOk(d) \/ SetupFails(d) \/ RequestEnds(d) \/ InnerDialOk(d)
  \/ InnerDialFails(d) \/ InnerEnds(d) \/ RequestDone(d)

(* The steps of a dial are these and the accepted DialStart.              *)
LEMMA DialSteps ==
  ASSUME NEW d \in Dial,
         \/ DialStart(d) \/ SetupOk(d) \/ SetupFails(d) \/ Dialing(d)
         \/ InnerEnds(d) \/ ChildDone(d) \/ RequestDone(d)
  PROVE  (~closing /\ DialStart(d)) \/ Leaves(d) \/ Stays(d)
BY DEF Dialing, Leaves, Stays, TakeResult, Drain

(* What each kind of step does to the set of children.                    *)
LEMMA Joined ==
  ASSUME Inv, NEW d \in Dial, ~closing, DialStart(d)
  PROVE  d \notin Live /\ Live' = Live \cup {d} /\ children' = children + 1
BY DEF Inv, TypeOK, SlotInv, Live, DialStart, DialGoto

(* A step that leaves gives back exactly one slot.                        *)
LEMMA Left ==
  ASSUME Inv, NEW d \in Dial, Leaves(d)
  PROVE  d \in Live /\ Live' = Live \ {d} /\ children' = children - 1
<1>1. CASE setup[d] = "failed" /\ TakeResult(d)
  BY <1>1 DEF Inv, TypeOK, SlotInv, Live, TakeResult, Return, DialGoto
<1>2. CASE setup[d] = "failed" /\ Drain(d)
  BY <1>2 DEF Inv, TypeOK, SlotInv, Live, Drain, Return, DialGoto
<1>3. CASE ChildDone(d)
  BY <1>3 DEF Inv, TypeOK, SlotInv, Live, ChildDone
<1>. QED  BY <1>1, <1>2, <1>3 DEF Leaves

(* The other steps of a dial touch no slot.                               *)
LEMMA Stayed ==
  ASSUME Inv, NEW d \in Dial, Stays(d)
  PROVE  Live' = Live /\ UNCHANGED <<children, tunnelVars, closePC>>
<1>1. CASE closing /\ DialStart(d)
  BY <1>1 DEF Inv, TypeOK, SlotInv, Live, DialStart, Return, DialGoto, tunnelVars
<1>2. CASE setup[d] = "ok" /\ TakeResult(d)
  BY <1>2 DEF Inv, TypeOK, SlotInv, Live, TakeResult, DialGoto, tunnelVars
<1>3. CASE setup[d] = "ok" /\ Drain(d)
  BY <1>3 DEF Inv, TypeOK, SlotInv, Live, Drain, Return, DialGoto, tunnelVars
<1>4. CASE SetupOk(d) \/ SetupFails(d) \/ InnerEnds(d) \/ RequestDone(d)
  BY <1>4 DEF Live, SetupOk, SetupFails, InnerEnds, RequestDone, childVars, tunnelVars
<1>5. CASE RequestEnds(d)
  BY <1>5 DEF Inv, TypeOK, Live, RequestEnds, DialGoto, tunnelVars
<1>6. CASE InnerDialOk(d) \/ InnerDialFails(d)
  BY <1>6 DEF Inv, TypeOK, Live, InnerDialOk, InnerDialFails, Return, DialGoto,
              childVars, tunnelVars
<1>. QED  BY <1>1, <1>2, <1>3, <1>4, <1>5, <1>6 DEF Stays

(* The inductive step, for the steps of the dials ...                     *)
LEMMA DialKeepsInv ==
  ASSUME Inv, NEW d \in Dial,
         (~closing /\ DialStart(d)) \/ Leaves(d) \/ Stays(d)
  PROVE  Inv'
<1>. USE DEF Inv
<1>1. CASE ~closing /\ DialStart(d)
  <2>1. ChildrenAreCounted'
    BY <1>1, Joined, SlotTaken
  <2>2. TypeOK' /\ SlotInv'
    BY <1>1 DEF TypeOK, SlotInv, DialStart, DialGoto, tunnelVars
  <2>3. CloseInv'
    BY <1>1 DEF CloseInv, DialStart, tunnelVars
  <2>. QED  BY <2>1, <2>2, <2>3
<1>2. CASE Leaves(d)
  <2>1. ChildrenAreCounted' /\ children > 0 /\ children' \in Nat
    BY <1>2, Left, SlotReturned DEF TypeOK
  <2>2. CASE setup[d] = "failed" /\ TakeResult(d)
    <3>1. TypeOK'
      BY ZenonT(60), <2>1, <2>2 DEF TypeOK, TakeResult, streamCancel, Return, DialGoto, tunnelVars
    <3>2. SlotInv'
      BY <2>2 DEF TypeOK, SlotInv, TakeResult, Return, DialGoto
    <3>3. CloseInv'
      BY <2>1, <2>2 DEF TypeOK, CloseInv, TakeResult, tunnelVars
    <3>. QED  BY <2>1, <3>1, <3>2, <3>3
  <2>3. CASE setup[d] = "failed" /\ Drain(d)
    BY <2>1, <2>3 DEF TypeOK, SlotInv, CloseInv, Drain, Return, DialGoto, tunnelVars
  <2>4. CASE ChildDone(d)
    BY <2>1, <2>4 DEF TypeOK, SlotInv, CloseInv, ChildDone, tunnelVars
  <2>. QED  BY <1>2, <2>2, <2>3, <2>4 DEF Leaves
<1>3. CASE Stays(d)
  <2>1. ChildrenAreCounted' /\ CloseInv'
    BY <1>3, Stayed DEF ChildrenAreCounted, CloseInv, tunnelVars
  <2>2. CASE closing /\ DialStart(d)
    BY <2>1, <2>2 DEF TypeOK, SlotInv, DialStart, Return, DialGoto, tunnelVars
  <2>3. CASE setup[d] = "ok" /\ TakeResult(d)
    BY <2>1, <2>3 DEF TypeOK, SlotInv, TakeResult, DialGoto, tunnelVars
  <2>4. CASE setup[d] = "ok" /\ Drain(d)
    BY <2>1, <2>4 DEF TypeOK, SlotInv, Drain, Return, DialGoto, tunnelVars
  <2>5. CASE SetupOk(d)
    BY <2>1, <2>5 DEF TypeOK, SlotInv, SetupOk, tunnelVars
  <2>6. CASE SetupFails(d)
    BY <2>1, <2>6 DEF TypeOK, SlotInv, SetupFails, tunnelVars
  <2>7. CASE RequestEnds(d)
    BY <2>1, <2>7 DEF TypeOK, SlotInv, RequestEnds, streamCancel, DialGoto, tunnelVars
  <2>8. CASE InnerDialOk(d)
    BY <2>1, <2>8 DEF TypeOK, SlotInv, InnerDialOk, Return, DialGoto, childVars, tunnelVars
  <2>9. CASE InnerDialFails(d)
    BY <2>1, <2>9 DEF TypeOK, SlotInv, InnerDialFails, streamCancel, Return, DialGoto,
                      tunnelVars
  <2>10. CASE InnerEnds(d)
    BY <2>1, <2>10 DEF TypeOK, SlotInv, InnerEnds, streamCancel, tunnelVars
  <2>11. CASE RequestDone(d)
    BY <2>1, <2>11 DEF TypeOK, SlotInv, RequestDone, childVars, tunnelVars
  <2>. QED  BY <1>3, <2>2, <2>3, <2>4, <2>5, <2>6, <2>7, <2>8, <2>9, <2>10, <2>11 DEF Stays
<1>. QED  BY <1>1, <1>2, <1>3

(* ... and for those of Close, which leave the children alone.            *)
LEMMA CloseKeepsInv ==
  ASSUME Inv, NEW k \in Closer, CloseStart(k) \/ Closing(k)
  PROVE  Inv' /\ Live' = Live
<1>. USE DEF Inv
<1>1. Live' = Live /\ ChildrenAreCounted' /\ SlotInv'
  BY DEF ChildrenAreCounted, Live, SlotInv, CloseStart, Closing, CloseCancel, CloseWait,
         CloseSignal, CloseSecond, childVars
<1>2. CASE CloseStart(k)
  BY <1>1, <1>2 DEF TypeOK, CloseInv, CloseStart, CloseGoto, childVars
<1>3. CASE CloseCancel(k)
  BY <1>1, <1>3 DEF TypeOK, CloseInv, CloseCancel, CloseGoto, childVars
<1>4. CASE CloseWait(k)
  BY <1>1, <1>4 DEF TypeOK, CloseInv, CloseWait, CloseGoto, childVars
<1>5. CASE CloseSignal(k)
  BY <1>1, <1>5 DEF TypeOK, CloseInv, CloseSignal, CloseGoto, childVars
<1>6. CASE CloseSecond(k)
  BY <1>1, <1>6 DEF TypeOK, CloseInv, CloseSecond, CloseGoto, childVars, tunnelVars
<1>. QED  BY ZenonT(60), <1>1, <1>2, <1>3, <1>4, <1>5, <1>6 DEF Closing

(* No dial has a slot at first.                                           *)
LEMMA InitInv == Init => Inv
<1>. SUFFICES ASSUME Init  PROVE Inv
  OBVIOUS
<1>1. Live = {}
  BY DEF Init, Live
<1>2. ChildrenAreCounted
  BY <1>1, FS_EmptySet DEF Init, ChildrenAreCounted
<1>. QED  BY Zenon, <1>2 DEF Init, Inv, TypeOK, SlotInv, CloseInv

(* The inductive step: a slot taken, given back, or neither.              *)
LEMMA NextInv == Inv /\ [Next]_vars => Inv'
<1>. SUFFICES ASSUME Inv, [Next]_vars  PROVE Inv'
  OBVIOUS
<1>1. CASE Next
  BY <1>1, DialSteps, DialKeepsInv, CloseKeepsInv DEF Next
<1>2. CASE UNCHANGED vars
  BY <1>2 DEF Inv, TypeOK, ChildrenAreCounted, Live, SlotInv, CloseInv, vars, tunnelVars,
              childVars
<1>. QED  BY <1>1, <1>2

(* The inductive invariant of every behaviour.                            *)
THEOREM Invariance == Spec => []Inv
BY InitInv, NextInv, PTL DEF Spec

(* The types hold for any number of dials, the range of the WaitGroup     *)
(* included: children never goes below 0, where Done would panic.         *)
THEOREM TypeCorrect == Spec => []TypeOK
BY Invariance, PTL DEF Inv

(* Every child is counted once on each way out of DialContext.            *)
THEOREM Counting == Spec => []ChildrenAreCounted
BY Invariance, PTL DEF Inv

(* When Close has closed the connection, nothing serves on it and nothing *)
(* is being set up on it: the counter is 0, so no dial has a slot.        *)
THEOREM ClosedIsUnused == Spec => []NoChildOnClosedConn
<1>1. Inv => NoChildOnClosedConn
  <2>. SUFFICES ASSUME Inv, ccClosed, NEW d \in Dial
                PROVE  setup[d] # "running" /\ inner[d] # "serving"
    BY DEF NoChildOnClosedConn
  <2>1. d \notin Live
    BY NoChildren DEF Inv, CloseInv
  <2>. QED  BY <2>1 DEF Inv, TypeOK, SlotInv, Live
<1>. QED  BY <1>1, Invariance, PTL

(* Together: slots are counted exactly, and none is in use once Close has *)
(* closed the shared connection.                                          *)
THEOREM SlotKeeping == Spec => []SlotsAreKept
BY Counting, ClosedIsUnused, PTL DEF SlotsAreKept

(* No child is added once Close may be in children.Wait.                  *)
THEOREM AddsBeforeClose == Spec => NoAddAfterClose
<1>1. Inv /\ [Next]_vars => [children' > children => ~closing]_vars
  <2>. SUFFICES ASSUME Inv, Next, children' > children  PROVE ~closing
    BY DEF vars
  <2>. USE DEF Inv
  <2>1. ASSUME NEW k \in Closer, CloseStart(k) \/ Closing(k)  PROVE FALSE
    BY <2>1 DEF TypeOK, CloseStart, Closing, CloseCancel, CloseWait, CloseSignal, CloseSecond
  <2>2. ASSUME NEW d \in Dial, Leaves(d) \/ Stays(d)  PROVE FALSE
    BY <2>2, Left, Stayed DEF TypeOK
  <2>. QED  BY <2>1, <2>2, DialSteps DEF Next
<1>. QED  BY <1>1, Invariance, PTL DEF Spec, NoAddAfterClose

(* The phase of the contract as the refinement mapping gives it.          *)
Phase == IF ccClosed THEN "closed" ELSE IF closing THEN "draining" ELSE "open"

(* The tunnel implements the safety part of its contract DrainedClose:    *)
(* children are accepted only while it is open, and it is closed only     *)
(* when none is left.                                                     *)
THEOREM Refinement == Spec => Contract!Safety
<1>. USE DEF Contract!vars, Contract!Next
<1>1. Init => Contract!Init
  BY DEF Init, Contract!Init, Live
<1>2. Inv /\ [Next]_vars => [Contract!Next]_(Contract!vars)
  <2>. SUFFICES ASSUME Inv, [Next]_vars  PROVE Contract!Next \/ UNCHANGED <<Phase, Live>>
    BY DEF Phase
  <2>. USE DEF Inv, Phase
  <2>1. ASSUME NEW d \in Dial, ~closing, DialStart(d)  PROVE Contract!Accept(d)
    BY <2>1, Joined DEF CloseInv, DialStart, tunnelVars, Contract!Accept
  <2>2. ASSUME NEW d \in Dial, Leaves(d)  PROVE Contract!End(d)
    <3>1. UNCHANGED <<closing, ccClosed>>
      BY <2>2 DEF Leaves, TakeResult, Drain, ChildDone, tunnelVars
    <3>. QED  BY <2>2, <3>1, Left DEF Contract!End
  <2>3. ASSUME NEW d \in Dial, Stays(d)  PROVE UNCHANGED <<Phase, Live>>
    BY <2>3, Stayed DEF tunnelVars
  <2>4. ASSUME NEW k \in Closer, CloseStart(k)
        PROVE  Contract!Shut \/ UNCHANGED <<Phase, Live>>
    BY <2>4, CloseKeepsInv DEF CloseInv, CloseStart, Contract!Shut
  <2>5. ASSUME NEW k \in Closer, CloseWait(k)
        PROVE  Contract!Finish \/ UNCHANGED <<Phase, Live>>
    BY <2>5, CloseKeepsInv, NoChildren DEF CloseInv, CloseWait, Closing, Contract!Finish
  <2>6. ASSUME NEW k \in Closer, CloseCancel(k) \/ CloseSignal(k) \/ CloseSecond(k)
        PROVE  UNCHANGED <<Phase, Live>>
    <3>1. UNCHANGED <<closing, ccClosed>>
      BY <2>6 DEF CloseCancel, CloseSignal, CloseSecond, tunnelVars
    <3>. QED  BY <2>6, <3>1, CloseKeepsInv DEF Closing
  <2>7. CASE UNCHANGED vars
    BY <2>7 DEF vars, tunnelVars, childVars, Live
  <2>. QED  BY <2>1, <2>2, <2>3, <2>4, <2>5, <2>6, <2>7, DialSteps DEF Next, Closing
<1>. QED  BY <1>1, <1>2, Invariance, PTL DEF Spec, Contract!Safety

=============================================================================
