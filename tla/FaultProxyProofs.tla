-------------------------- MODULE FaultProxyProofs --------------------------
(***************************************************************************)
(* The safety of FaultProxy, for any finite set of requests.               *)
(*                                                                         *)
(* The invariant says how the drop was claimed, what work each request has *)
(* behind it at each place of its handler (once more when its answer was   *)
(* discarded and it was sent again), and where a handler may be while its  *)
(* client does not wait for it.                                            *)
(***************************************************************************)
EXTENDS FaultProxy, FiniteSetTheorems, TLAPS

\* Nobody's answer is lost, or one request's is and the drop is spent.
Drop ==
    \/ lost = {} /\ dropped = 0
    \/ \E r \in Requests : lost = {r} /\ dropped = 1 /\ dropOnComplete

\* What the upstream did for r before r was last sent.
Before(r) == IF r \in lost THEN 1 ELSE 0

Work ==
    \A r \in Requests :
        /\ handler[r] = "forwarding" => worked[r] = Before(r)
        /\ handler[r] \in {"worked", "completed", "relaying"} =>
              worked[r] = Before(r) + 1
        /\ handler[r] = "dropping" => r \in lost /\ worked[r] = 1
        /\ client[r] \in {"new", "sending"} => worked[r] = Before(r)
        /\ client[r] \in {"answered", "cut"} => worked[r] = Before(r) + 1
        /\ client[r] = "new" => r \notin lost
        /\ r \in lost => worked[r] > 0

Place ==
    \A r \in Requests :
        /\ client[r] \notin {"waiting", "error"} => handler[r] = "none"
        /\ dropOnComplete /\ (\/ handler[r] = "relaying"
                              \/ client[r] \in {"answered", "cut"})
              => dropped = 1

Inv == TypeOK /\ Drop /\ Work /\ Place

LEMMA InitInv == Init => Inv
  <1> SUFFICES ASSUME Init PROVE Inv
    OBVIOUS
  <1>1. TypeOK
    <2>1. /\ dropOnComplete \in BOOLEAN /\ replayable \in BOOLEAN
          /\ closed \in BOOLEAN /\ reused \in [Requests -> BOOLEAN]
      BY Zenon DEF Init
    <2>2. /\ handler \in [Requests -> HandlerStates]
          /\ client \in [Requests -> ClientStates]
          /\ worked \in [Requests -> 0..2]
          /\ dropped \in 0..1 /\ forward \in Nat /\ idle \in Nat
          /\ lost \subseteq Requests
      BY DEF Init, HandlerStates, ClientStates
    <2> QED
      BY <2>1, <2>2 DEF TypeOK
  <1>2. Drop
    BY DEF Init, Drop
  <1>3. Work
    BY DEF Init, Work, Before
  <1>4. Place
    BY DEF Init, Place
  <1> QED
    BY <1>1, <1>2, <1>3, <1>4 DEF Inv

\* What reaches a client: it concerns r only, and only while r waits.
LEMMA DeliverEffect ==
    ASSUME TypeOK, NEW r \in Requests,
           NEW answer \in {"answered", "cut", "502", "error"}, Deliver(r, answer)
    PROVE  /\ client' \in [Requests -> ClientStates]
           /\ idle' \in Nat
           /\ \A q \in Requests \ {r} : client'[q] = client[q]
           /\ \/ client'[r] = client[r] /\ client[r] # "waiting"
              \/ client'[r] = answer
  BY DEF Deliver, TypeOK, ClientStates

LEMMA NextInv == Inv /\ [Next]_vars => Inv'
  <1> SUFFICES ASSUME Inv, [Next]_vars PROVE Inv'
    OBVIOUS
  <1> USE DEF Inv, TypeOK, HandlerStates, ClientStates, env, Goto
  <1>1. ASSUME NEW r \in Requests, Start(r) PROVE Inv'
    BY <1>1 DEF Start, Drop, Work, Place, Before
  <1>2. ASSUME NEW r \in Requests, Connect(r) PROVE Inv'
    BY <1>2 DEF Connect, Drop, Work, Place, Before
  <1>3. ASSUME NEW r \in Requests, GiveUp(r) PROVE Inv'
    BY <1>3 DEF GiveUp, Drop, Work, Place, Before
  <1>4. ASSUME NEW r \in Requests, UpstreamWorks(r) PROVE Inv'
    BY <1>4 DEF UpstreamWorks, Drop, Work, Place, Before
  <1>5. ASSUME NEW r \in Requests, DoReturns(r) PROVE Inv'
    BY <1>5 DEF DoReturns, Drop, Work, Place, Before
  <1>6. ASSUME NEW r \in Requests, DoFails(r) PROVE Inv'
    BY <1>6 DEF DoFails, Drop, Work, Place, Before
  <1>7. ASSUME NEW r \in Requests, BadGateway(r) PROVE Inv'
    <2>1. PICK answer \in {"answered", "cut", "502", "error"} :
             answer = "502" /\ Deliver(r, answer)
      BY <1>7 DEF BadGateway
    <2> QED
      BY <1>7, <2>1, DeliverEffect DEF BadGateway, Drop, Work, Place, Before
  <1>8. ASSUME NEW r \in Requests, TakeDrop(r) PROVE Inv'
    <2>1. CASE dropOnComplete /\ dropped = 0
      BY <1>8, <2>1 DEF TakeDrop, Drop, Work, Place, Before
    <2>2. CASE ~(dropOnComplete /\ dropped = 0)
      BY <1>8, <2>2 DEF TakeDrop, Drop, Work, Place, Before
    <2> QED
      BY <2>1, <2>2
  <1>9. ASSUME NEW r \in Requests, DropConnection(r) PROVE Inv'
    <2>1. CASE client[r] = "waiting" /\ reused[r] /\ replayable
      BY <1>9, <2>1 DEF DropConnection, Drop, Work, Place, Before
    <2>2. CASE Deliver(r, "error")
      BY <1>9, <2>2, DeliverEffect DEF DropConnection, Drop, Work, Place, Before
    <2> QED
      BY <1>9, <2>1, <2>2 DEF DropConnection
  <1>10. ASSUME NEW r \in Requests, Relay(r) PROVE Inv'
    <2>1. PICK answer \in {"answered", "cut", "502", "error"} :
             answer # "502" /\ Deliver(r, answer)
      BY <1>10 DEF Relay
    <2> QED
      BY <1>10, <2>1, DeliverEffect DEF Relay, Drop, Work, Place, Before
  <1>11. ASSUME Close PROVE Inv'
    BY <1>11 DEF Close, Drop, Work, Place, Before
  <1>12. ASSUME UNCHANGED vars PROVE Inv'
    BY <1>12 DEF vars, Drop, Work, Place, Before
  <1> QED
    BY <1>1, <1>2, <1>3, <1>4, <1>5, <1>6, <1>7, <1>8, <1>9, <1>10, <1>11, <1>12
       DEF Next, Own, Relayed, Quiet

LEMMA Invariance == Spec => []Inv
  BY InitInv, NextInv, PTL DEF Spec

\* Every state of the proxy, its clients and its upstream is well typed: the
\* drop is claimed at most once, and no request is worked on more than twice.
THEOREM TypeCorrect == Spec => []TypeOK
  BY Invariance, PTL DEF Inv

\* At most one answer is discarded, none outside lost-response mode, and the
\* counter says so: the compare-and-swap of takeDrop does what it is there for.
THEOREM ControlledLoss == Spec => []OneControlledLoss
  <1>1. Inv => OneControlledLoss
    <2> SUFFICES ASSUME Inv PROVE OneControlledLoss
      OBVIOUS
    <2>1. CASE lost = {} /\ dropped = 0
      BY <2>1, FS_EmptySet DEF OneControlledLoss
    <2>2. ASSUME NEW r \in Requests, lost = {r}, dropped = 1, dropOnComplete
          PROVE  OneControlledLoss
      <3>1. Cardinality(lost) = 1
        BY <2>2, FS_Singleton
      <3> QED
        BY <2>2, <3>1 DEF OneControlledLoss
    <2> QED
      BY <2>1, <2>2 DEF Inv, Drop
  <1> QED
    BY <1>1, Invariance, PTL

\* The discarded answer is the answer to work that was done, and nobody is
\* answered by the upstream before it was discarded.
THEOREM LossOfFirstWork == Spec => []LossIsOfTheFirstWork
  <1>1. Inv => LossIsOfTheFirstWork
    <2> SUFFICES ASSUME Inv PROVE LossIsOfTheFirstWork
      OBVIOUS
    <2>1. \A r \in lost : worked[r] > 0
      BY DEF Inv, TypeOK, Work
    <2>2. lost = {} => dropped = 0
      BY DEF Inv, Drop
    <2> QED
      BY <2>1, <2>2 DEF Inv, Place, LossIsOfTheFirstWork
  <1> QED
    BY <1>1, Invariance, PTL

\* The discarded answer reaches nobody: its request is answered only for work
\* that was done again.
THEOREM LostStaysLost == Spec => []LostAnswerStaysLost
  <1>1. Inv => LostAnswerStaysLost
    BY DEF Inv, TypeOK, Work, Before, LostAnswerStaysLost
  <1> QED
    BY <1>1, Invariance, PTL

=============================================================================
