------------------------- MODULE BarrierBurstProofs -------------------------
(***************************************************************************)
(* BarrierBurst implements Rendezvous, for any finite set of workers.      *)
(*                                                                         *)
(* The invariant counts the tokens: each worker past its READY put exactly *)
(* one into the channel, so N received tokens mean N parked workers.  It   *)
(* also ties the start channel to the gate holder's place, and places      *)
(* every request on the wire after the gate opened.  Slots, on top of it,  *)
(* says what each worker leaves in its slot.                               *)
(***************************************************************************)
EXTENDS BarrierBurst, FiniteSetTheorems, TLAPS

Arrived == {w \in Workers : wpc[w] # "spawned"}

Tokens == ready + received = Cardinality(Arrived)

Gate ==
    /\ pc \in {"release", "wait", "returned"} => Arrived = Workers
    /\ start = "closed" => pc \in {"wait", "giveup", "returned", "error"}
    /\ pc \in {"giveup", "error"} => ctxDone
    /\ wire # {} => pc \in {"wait", "returned"}
    /\ \A w \in wire : wpc[w] \in {"sending", "exited"}

Inv == TypeOK /\ Tokens /\ Gate

LEMMA ArrivedFinite ==
    /\ IsFiniteSet(Arrived) /\ Cardinality(Arrived) \in Nat
    /\ N \in Nat /\ Cardinality(Arrived) <= N
    /\ Cardinality(Arrived) = N => Arrived = Workers
  BY WorkersAssumption, FS_Subset, FS_CardinalityType DEF Arrived, N

LEMMA InitInv == Init => Inv
  <1> SUFFICES ASSUME Init PROVE Inv
    OBVIOUS
  <1>1. Arrived = {} /\ Cardinality(Arrived) = 0
    BY FS_EmptySet DEF Init, Arrived
  <1>2. TypeOK
    <2>1. ready \in Nat /\ received \in Nat /\ ready + received <= N
      BY ArrivedFinite DEF Init
    <2> QED
      BY <2>1 DEF Init, TypeOK, Slot
  <1> QED
    BY <1>1, <1>2 DEF Init, Inv, Tokens, Gate

LEMMA NextInv == Inv /\ [Next]_vars => Inv'
  <1> SUFFICES ASSUME Inv, [Next]_vars PROVE Inv'
    OBVIOUS
  <1> USE DEF Inv, TypeOK, Tokens, Gate
  <1>a. N \in Nat /\ Cardinality(Arrived) \in Nat
    BY ArrivedFinite
  \* A step that lets no worker past its READY keeps the tokens' sum.
  <1>b. ASSUME ready' + received' = ready + received, Arrived' = Arrived
        PROVE  Tokens'
    BY <1>b
  <1>1. ASSUME NEW w \in Workers, Signal(w) PROVE Inv'
    <2>1. Arrived' = Arrived \cup {w} /\ w \notin Arrived
      BY <1>1 DEF Signal, MaySignal, Arrived
    <2>2. Cardinality(Arrived') = Cardinality(Arrived) + 1
      BY <2>1, ArrivedFinite, FS_AddElement
    <2>3. Cardinality(Arrived') <= N
      <3>1. Arrived' \in SUBSET Workers
        BY DEF Arrived
      <3> QED
        BY <3>1, WorkersAssumption, FS_Subset DEF N
    <2>4. TypeOK' /\ Tokens'
      BY <1>1, <1>a, <2>2, <2>3 DEF Signal
    <2>5. Gate'
      BY <1>1, <2>1 DEF Signal, MaySignal
    <2> QED
      BY <2>4, <2>5
  <1>2. ASSUME NEW w \in Workers, Fire(w) PROVE Inv'
    <2>1. Arrived' = Arrived
      BY <1>2 DEF Fire, Arrived
    <2>2. TypeOK' /\ Tokens'
      BY <1>2, <2>1 DEF Fire, Sent
    <2>3. Gate'
      BY <1>2, <2>1 DEF Fire, Sent
    <2> QED
      BY <2>2, <2>3
  <1>3. ASSUME NEW w \in Workers, Abandon(w) PROVE Inv'
    <2>1. Arrived' = Arrived
      BY <1>3 DEF Abandon, Arrived
    <2> QED
      BY <1>3, <2>1 DEF Abandon, Slot
  <1>4. ASSUME NEW w \in Workers, Complete(w) PROVE Inv'
    <2>1. Arrived' = Arrived
      BY <1>4 DEF Complete, Arrived
    <2>2. \E o \in Slot : out' = [out EXCEPT ![w] = o]
      BY <1>4 DEF Complete, Slot
    <2> QED
      BY <1>4, <2>1, <2>2 DEF Complete
  <1>5. CASE ReceiveReady
    BY <1>5, <1>a DEF ReceiveReady, AllReceived, Arrived
  <1>6. CASE GiveUp
    BY <1>6 DEF GiveUp, Arrived
  <1>7. CASE StampRelease
    <2>1. Cardinality(Arrived) >= N
      BY <1>7, <1>a DEF StampRelease, AllReceived
    <2>2. Arrived = Workers
      BY <1>a, <2>1, ArrivedFinite
    <2> QED
      BY <1>7, <2>2 DEF StampRelease, Arrived
  <1>8. CASE CloseStart
    BY <1>8 DEF CloseStart, Arrived
  <1>9. CASE Return
    BY <1>9 DEF Return, Arrived
  <1>10. CASE Cancel
    BY <1>10 DEF Cancel, Arrived
  <1>11. CASE UNCHANGED vars
    BY <1>11 DEF vars, Arrived
  <1> QED
    BY <1>1, <1>2, <1>3, <1>4, <1>5, <1>6, <1>7, <1>8, <1>9, <1>10, <1>11
       DEF Next, Worker, Main, Over

\* The types, and that no token is ever made up: the channel's buffer is
\* never exceeded.
THEOREM TypeCorrect == Spec => []TypeOK
  <1>1. Spec => []Inv
    BY InitInv, NextInv, PTL DEF Spec
  <1>2. Inv => TypeOK
    BY DEF Inv
  <1> QED
    BY <1>1, <1>2, PTL

LEMMA InitRefines == Init => Barrier!Init
  BY DEF Init, Barrier!Init

LEMMA StepRefines == Inv /\ Inv' /\ [Next]_vars => [Barrier!Next]_(Barrier!vars)
  <1> SUFFICES ASSUME Inv, Inv', [Next]_vars PROVE [Barrier!Next]_(Barrier!vars)
    OBVIOUS
  <1> USE DEF Inv, TypeOK, Gate, Arrived, Barrier!vars
  <1>1. ASSUME NEW w \in Workers, Signal(w) PROVE Barrier!Arrive(w)
    BY <1>1 DEF Signal, MaySignal, Barrier!Arrive
  <1>2. ASSUME NEW w \in Workers, Fire(w)
        PROVE  Barrier!Fire(w) \/ UNCHANGED Barrier!vars
    <2>1. CASE ctxDone
      BY <1>2, <2>1 DEF Fire, Sent
    <2>2. CASE ~ctxDone
      <3>1. pc \in {"wait", "returned"} /\ w \notin wire
        BY <1>2, <2>2 DEF Fire
      <3>2. wire' = wire \cup {w}
            /\ pc' = pc /\ {v \in Workers : wpc'[v] # "spawned"} = Arrived
        BY <1>2, <2>2 DEF Fire, Sent
      <3> QED
        BY <3>1, <3>2 DEF Barrier!Fire
    <2> QED
      BY <2>1, <2>2
  <1>3. ASSUME NEW w \in Workers, Abandon(w) \/ Complete(w)
        PROVE  UNCHANGED Barrier!vars
    BY <1>3 DEF Abandon, Complete
  <1>4. CASE GiveUp
    BY <1>4 DEF GiveUp, Barrier!Next, Barrier!CallOff
  <1>5. CASE ReceiveReady \/ StampRelease \/ CloseStart \/ Return \/ Cancel
    BY <1>5 DEF ReceiveReady, StampRelease, CloseStart, Return, Cancel
  <1>6. CASE UNCHANGED vars
    BY <1>6 DEF vars
  <1> QED
    BY <1>1, <1>2, <1>3, <1>4, <1>5, <1>6
       DEF Next, Worker, Main, Over, Barrier!Next

\* The barrier promise: no request of a burst is on the wire before every
\* worker is ready, and an abandoned burst puts none there.
THEOREM BurstIsRendezvous == Spec => ImplementsRendezvous
  <1>1. Init => Inv /\ Barrier!Init
    BY InitInv, InitRefines
  <1>2. Inv /\ [Next]_vars => Inv' /\ [Barrier!Next]_(Barrier!vars)
    BY NextInv, StepRefines
  <1> QED
    BY <1>1, <1>2, PTL DEF Spec, ImplementsRendezvous, Barrier!Spec

-----------------------------------------------------------------------------
(* What the burst leaves behind.  A slot is written by the step in which   *)
(* its worker exits; a worker that fired after the gate was opened has     *)
(* read a release timestamp that was written before.                       *)

CalledOff == pc \in {"giveup", "error"}

Slots ==
    /\ \A w \in Workers : wpc[w] = "exited" => out[w] # "empty"
    /\ pc \in {"returned", "error"} => GroupDone
    /\ pc \in {"release", "wait", "returned"} => release
    /\ \A w \in Workers :
          \/ wpc[w] = "sending"
          \/ wpc[w] = "exited" /\ out[w] # "aborted"
          => offset[w] = "measured" \/ CalledOff

LEMMA InitSlots == Init => Slots
  BY DEF Init, Slots

LEMMA NextSlots == Inv /\ Slots /\ [Next]_vars => Slots'
  <1> SUFFICES ASSUME Inv, Slots, [Next]_vars PROVE Slots'
    OBVIOUS
  <1> USE DEF Inv, TypeOK, Gate, Slots, CalledOff, GroupDone
  <1>1. ASSUME NEW w \in Workers, Signal(w) PROVE Slots'
    BY <1>1 DEF Signal, MaySignal
  <1>2. ASSUME NEW w \in Workers, Fire(w) PROVE Slots'
    <2>1. release \/ CalledOff
      BY <1>2 DEF Fire
    <2>2. offset'[w] = "measured" \/ CalledOff
      BY <1>2, <2>1 DEF Fire
    <2> QED
      BY <1>2, <2>2 DEF Fire
  <1>3. ASSUME NEW w \in Workers, Abandon(w) PROVE Slots'
    BY <1>3 DEF Abandon, Slot
  <1>4. ASSUME NEW w \in Workers, Complete(w) PROVE Slots'
    <2>1. PICK o \in {"answer", "failed"} : out' = [out EXCEPT ![w] = o]
      BY <1>4 DEF Complete
    <2> QED
      BY <1>4, <2>1 DEF Complete, Slot
  <1>5. CASE ReceiveReady
    BY <1>5 DEF ReceiveReady
  <1>6. CASE GiveUp
    BY <1>6 DEF GiveUp
  <1>7. CASE StampRelease
    BY <1>7 DEF StampRelease
  <1>8. CASE CloseStart
    BY <1>8 DEF CloseStart
  <1>9. CASE Return
    BY <1>9 DEF Return
  <1>10. CASE Cancel
    BY <1>10 DEF Cancel
  <1>11. CASE UNCHANGED vars
    BY <1>11 DEF vars
  <1> QED
    BY <1>1, <1>2, <1>3, <1>4, <1>5, <1>6, <1>7, <1>8, <1>9, <1>10, <1>11
       DEF Next, Worker, Main, Over

LEMMA SlotsInvariance == Spec => [](Inv /\ Slots)
  <1>1. Init => Inv /\ Slots
    BY InitInv, InitSlots
  <1>2. (Inv /\ Slots) /\ [Next]_vars => (Inv /\ Slots)'
    BY NextInv, NextSlots
  <1> QED
    BY <1>1, <1>2, PTL DEF Spec

\* No goroutine outlives Concurrent, on either of its ways out, and every slot
\* was written by its worker.
THEOREM NobodyLeft == Spec => []NoWorkerLeft
  <1>1. Inv /\ Slots => NoWorkerLeft
    BY DEF Slots, NoWorkerLeft, GroupDone
  <1> QED
    BY <1>1, SlotsInvariance, PTL

\* Every timing record of a burst that returned was measured from the release.
THEOREM AllMeasured == Spec => []TimingsAreMeasured
  <1>1. Inv /\ Slots => TimingsAreMeasured
    BY DEF Slots, TimingsAreMeasured, GroupDone, CalledOff, Timed
  <1> QED
    BY <1>1, SlotsInvariance, PTL

=============================================================================
