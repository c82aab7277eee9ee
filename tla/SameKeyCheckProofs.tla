------------------------- MODULE SameKeyCheckProofs -------------------------
(***************************************************************************)
(* Theorems about SameKeyCheck, for every number of requests, every retry  *)
(* budget, every policy and every set of answers.                          *)
(*                                                                         *)
(* The inductive invariant relates the history of answers to the evidence: *)
(*   Sound     what is counted was received;                               *)
(*   Complete  a received 2xx answer is counted, or still waits in a slot  *)
(*             or in the replay answer being classified;                   *)
(*   Counted   what a collected slot or the merged replay held shows in    *)
(*             the counter of its kind;                                    *)
(*   Observed  res.observed is positive exactly when an answer was heard.  *)
(* The counters are cardinalities of sets of outcomes (EvidenceAddsUp, an  *)
(* invariant of its own): Tally counts the outcomes of some kinds.         *)
(* What a cancelled burst still does is a matter of its own: Unconfirmed   *)
(* is not an invariant, but no step leaves it.                             *)
(***************************************************************************)
EXTENDS SameKeyCheck, FiniteSetTheorems, TLAPS

-----------------------------------------------------------------------------
(* The evidence operators.                                                 *)

\* Every outcome has one of three kinds, with the fields of that kind.
LEMMA OutcomeKinds ==
    ASSUME NEW oc \in Outcomes
    PROVE  /\ oc.kind \in {"response", "oversize", "error"}
           /\ oc # Unsent
           /\ oc.kind = "response" =>
                 FingerprintOf(oc) \in Fingerprints /\ oc.status = FingerprintOf(oc)[1]
           /\ oc.kind # "error" => oc.status \in Statuses
  BY FingerprintsAssumption
     DEF Outcomes, Responses, OversizeBodies, NoResponse, FingerprintOf,
         Statuses, Unsent

\* Merge stays within Results.
LEMMA MergeType ==
    ASSUME NEW r \in Results, NEW oc \in Outcomes
    PROVE  Merge(r, oc) \in Results
  <1>1. oc.kind = "response" => FingerprintOf(oc) \in Fingerprints
    BY OutcomeKinds
  <1> QED
    BY <1>1 DEF Merge, CountIn, Results

\* What Merge does to each counter.
LEMMA MergeEffect ==
    ASSUME NEW r \in Results, NEW oc \in Outcomes
    PROVE  LET m == Merge(r, oc) IN
           /\ m.baseline = r.baseline
           /\ m.observed >= r.observed /\ m.transport >= r.transport
           /\ m.oversize >= r.oversize
           /\ oc.kind = "error" => m.transport > 0
           /\ oc.kind = "oversize" => m.oversize > 0 /\ m.observed > 0
           /\ oc.kind = "response" =>
                 m.observed > 0 /\ m.groups[FingerprintOf(oc)] > 0
           /\ \A f \in Fingerprints :
                 /\ r.groups[f] > 0 => m.groups[f] > 0
                 /\ m.groups[f] > 0 =>
                       \/ r.groups[f] > 0
                       \/ oc.kind = "response" /\ f = FingerprintOf(oc)
  <1>1. oc.kind = "response" => FingerprintOf(oc) \in Fingerprints
    BY OutcomeKinds
  <1>2. oc.kind \in {"response", "oversize", "error"}
    BY OutcomeKinds
  <1> QED
    BY <1>1, <1>2 DEF Merge, CountIn, Results

\* Absorb is Merge but for the baseline, which it sets at most once, to the
\* status of the outcome.
LEMMA AbsorbEffect ==
    ASSUME NEW r \in Results, NEW oc \in Outcomes
    PROVE  LET a == Absorb(r, oc)
               m == Merge(r, oc) IN
           /\ a \in Results
           /\ a.requests = m.requests /\ a.observed = m.observed
           /\ a.transport = m.transport /\ a.oversize = m.oversize
           /\ a.groups = m.groups
           /\ a.baseline = r.baseline
              \/ (oc.kind # "error" /\ a.baseline = oc.status)
  <1>1. Merge(r, oc) \in Results /\ Merge(r, oc).baseline = r.baseline
    BY MergeType, MergeEffect
  <1>2. oc.kind # "error" => oc.status \in Statuses
    BY OutcomeKinds
  <1> QED
    BY <1>1, <1>2 DEF Absorb, Results

-----------------------------------------------------------------------------
(* Type correctness.                                                       *)

\* Where the control is, and what that says of the other variables.
Control ==
    /\ pc = "replay" => attempts < MaxAttempts
    /\ pc \in {"gate", "send", "burst", "collect", "finalize"} => attempts = 0
    /\ pc = "classify" => pending \in Outcomes
    /\ pc \in {"gate", "send", "burst", "collect", "finalize", "replay",
               "classify"} => replay = "none"
    /\ (verdict # "none") <=> (pc = "done")

TypeInv == TypeOK /\ Control

\* What collect reads is a filled slot, and stays within the slots.
LEMMA CollectedSlot ==
    ASSUME TypeOK, MoreToCollect
    PROVE  /\ next \in Slots /\ next + 1 \in 1..(N + 1)
           /\ outs[next] \in Outcomes
  BY NAssumption DEF TypeOK, MoreToCollect, Slots

\* A replay that has no attempt left is final.
LEMMA RetryHasBudget ==
    ASSUME TypeOK, ~FinalAttempt
    PROVE  attempts < MaxAttempts /\ ~ctxDone /\ ~Conclusive(pending)
  BY MaxAttemptsAssumption DEF TypeOK, FinalAttempt, BudgetSpent

\* A verdict is one of the four.
LEMMA VerdictType == ASSUME NEW r, NEW p PROVE EvaluateSameKey(r, p) \in Verdicts
  BY DEF EvaluateSameKey, Verdicts

LEMMA ReplayType ==
    ASSUME NEW oc \in Outcomes
    PROVE  /\ ClassifyReplay(oc) \in Replays \ {"none"}
           /\ oc.kind = "error" <=> ClassifyReplay(oc) = "failed"
           /\ oc.kind = "oversize" <=> ClassifyReplay(oc) = "oversize"
           /\ ClassifyReplay(oc) = "confirmed" <=>
                 oc.kind = "response" /\ Success(oc.status)
           /\ ClassifyReplay(oc) = "exhausted" <=>
                 /\ oc.kind = "response" /\ ~Success(oc.status)
                 /\ IsTransient(oc.status)
  <1>1. oc.kind \in {"response", "oversize", "error"}
    BY OutcomeKinds
  <1>2. CASE oc.kind = "oversize"
    BY <1>2 DEF ClassifyReplay, Replays
  <1>3. CASE oc.kind = "error"
    BY <1>3 DEF ClassifyReplay, Replays
  <1>4. CASE oc.kind = "response" /\ Success(oc.status)
    BY <1>4 DEF ClassifyReplay, Replays
  <1>5. CASE oc.kind = "response" /\ ~Success(oc.status)
    BY <1>5 DEF ClassifyReplay, Replays
  <1> QED
    BY <1>1, <1>2, <1>3, <1>4, <1>5

\* The history only ever takes in answers of the endpoint.
LEMMA ReceiveType ==
    ASSUME answers \subseteq Fingerprints, NEW oc \in Outcomes, Receive(oc)
    PROVE  answers' \subseteq Fingerprints
  BY OutcomeKinds DEF Receive

LEMMA DoReturnsOutcomes == \A c : DoOutcomes(c) \subseteq Outcomes
  BY DEF DoOutcomes, Outcomes

\* EmptyResult, with which collect starts.
LEMMA EmptyResultType == EmptyResult \in Results
  BY DEF EmptyResult, Results

LEMMA InitType == Init => TypeInv
  <1> SUFFICES ASSUME Init PROVE TypeInv
    OBVIOUS
  <1>1. TypeOK
    <2>1. outs \in [Slots -> Outcomes \cup {Unsent}]
      BY DEF Init
    <2>2. pc \in {"gate", "send"}
      BY DEF Init
    <2>3. res \in Results
      BY EmptyResultType DEF Init
    <2>4. next \in 1..(N + 1) /\ attempts \in 0..MaxAttempts
      BY NAssumption, MaxAttemptsAssumption DEF Init
    <2> QED
      BY <2>1, <2>2, <2>3, <2>4 DEF Init, TypeOK, Replays
  <1>2. Control
    BY DEF Init, Control
  <1> QED
    BY <1>1, <1>2 DEF TypeInv

\* TypeInv is inductive.
LEMMA NextType == TypeInv /\ [Next]_vars => TypeInv'
  <1> SUFFICES ASSUME TypeInv, [Next]_vars PROVE TypeInv'
    OBVIOUS
  <1> USE DEF TypeInv, TypeOK, Control
  <1>1. ASSUME NEW i \in Slots, SendNext(i) PROVE TypeInv'
    BY <1>1, ReceiveType DEF SendNext
  <1>2. ASSUME NEW i \in Slots, WorkerAnswers(i) PROVE TypeInv'
    BY <1>2, ReceiveType, DoReturnsOutcomes DEF WorkerAnswers
  <1>3. CASE StopSending
    BY <1>3 DEF StopSending
  <1>4. CASE OpenGate
    BY <1>4 DEF OpenGate
  <1>5. CASE AbortAtGate
    BY <1>5 DEF AbortAtGate
  <1>6. CASE BurstComplete
    BY <1>6 DEF BurstComplete
  <1>7. CASE CollectNext
    <2>1. Absorb(res, outs[next]) \in Results /\ next + 1 \in 1..(N + 1)
      BY <1>7, CollectedSlot, AbsorbEffect DEF CollectNext
    <2> QED
      BY <1>7, <2>1 DEF CollectNext
  <1>8. CASE CollectDone
    BY <1>8 DEF CollectDone
  <1>9. CASE DecideReplay
    BY <1>9, MaxAttemptsAssumption DEF DecideReplay
  <1>10. CASE ReplayAttempt
    BY <1>10, ReceiveType, DoReturnsOutcomes, MaxAttemptsAssumption
       DEF ReplayAttempt
  <1>11. CASE RetryReplay
    BY <1>11, RetryHasBudget DEF RetryReplay
  <1>12. CASE MergeReplay
    <2>1. Merge(res, pending) \in Results /\ ClassifyReplay(pending) \in Replays
      BY <1>12, MergeType, ReplayType DEF MergeReplay
    <2> QED
      BY <1>12, <2>1 DEF MergeReplay
  <1>13. CASE Evaluate
    <2>1. EvaluateSameKey(res, replay) \in Verdicts
      BY VerdictType
    <2> QED
      BY <1>13, <2>1 DEF Evaluate, Verdicts
  <1>14. CASE Cancel
    BY <1>14 DEF Cancel
  <1>15. CASE DeadlinePasses
    BY <1>15 DEF DeadlinePasses
  <1>16. CASE UNCHANGED vars
    BY <1>16 DEF vars
  <1> QED
    BY <1>1, <1>2, <1>3, <1>4, <1>5, <1>6, <1>7, <1>8, <1>9, <1>10, <1>11,
       <1>12, <1>13, <1>14, <1>15, <1>16
       DEF Next, Engine, Returned

\* Every variable keeps its type: the replay never takes more attempts than
\* its limit, and collect never reads past the slots.
THEOREM TypeCorrect == Spec => []TypeOK
  <1>1. Spec => []TypeInv
    BY InitType, NextType, PTL DEF Spec
  <1>2. TypeInv => TypeOK
    BY DEF TypeInv
  <1> QED
    BY <1>1, <1>2, PTL

-----------------------------------------------------------------------------
(* The inductive invariant.                                                *)

\* Nothing is in the evidence that no request received.
Sound ==
    /\ \A f \in Fingerprints : res.groups[f] > 0 => f \in answers
    /\ \A i \in Slots :
          outs[i].kind = "response" => FingerprintOf(outs[i]) \in answers
    /\ pending.kind = "response" => FingerprintOf(pending) \in answers

\* The filled slots are a prefix once the sending is over, collect has read
\* none of the others, and in the end it has read them all.
Ordered ==
    /\ pc # "burst" =>
          \A i \in Slots : \A j \in Slots :
              j < i /\ outs[i] # Unsent => outs[j] # Unsent
    /\ \A i \in Slots : i < next => outs[i] # Unsent
    /\ pc \in {"gate", "send", "burst"} => next = 1
    /\ pc \in {"finalize", "replay", "classify", "evaluate", "done"} =>
          \A i \in Slots : i >= next => outs[i] = Unsent

\* A received 2xx answer is counted or still on its way to being counted.
Counts(f) == res.groups[f] > 0
Waits(f) ==
    \/ \E i \in Slots : /\ i >= next
                        /\ outs[i].kind = "response"
                        /\ FingerprintOf(outs[i]) = f
    \/ pc = "classify" /\ pending.kind = "response" /\ FingerprintOf(pending) = f
Complete == \A f \in answers : Success(f[1]) => Counts(f) \/ Waits(f)

\* A collected slot, or a merged replay, shows in the counter of its kind.
Shows(oc) ==
    /\ oc.kind = "error" => res.transport > 0
    /\ oc.kind = "oversize" => res.oversize > 0
    /\ oc.kind = "response" => Counts(FingerprintOf(oc))
Counted ==
    /\ \A i \in Slots : i < next => Shows(outs[i])
    /\ replay # "none" =>
          /\ pending \in Outcomes /\ Shows(pending)
          /\ replay = ClassifyReplay(pending)
    /\ \A f \in Fingerprints : Counts(f) => res.observed > 0
    /\ res.baseline # 0 =>
          \/ res.oversize > 0
          \/ \E f \in Fingerprints : Counts(f) /\ f[1] = res.baseline

\* The replay was skipped for a reason that still holds, and the verdict is
\* that of the final evidence.
Decided ==
    /\ pc \in {"evaluate", "done"} /\ replay = "none" =>
          ~NeedsReplay(res, concurrent)
    /\ pc = "done" => verdict = EvaluateSameKey(res, replay)

\* No status of the policy is a 2xx: the policies the program ships with.
NoTransientSuccess == \A st \in Transient : ~Success(st)

Inv == TypeInv /\ Sound /\ Ordered /\ Counted /\ Decided
InvComplete == Inv /\ Complete

-----------------------------------------------------------------------------
(* Each conjunct is inductive.                                             *)

LEMMA UnsentKind == Unsent.kind = "unsent"
  BY DEF Unsent

\* The actions of which only control and the environment's flags are touched.
Bookkeeping ==
    \/ StopSending \/ OpenGate \/ AbortAtGate \/ BurstComplete \/ CollectDone
    \/ DecideReplay \/ Evaluate \/ Cancel \/ DeadlinePasses \/ UNCHANGED vars

\* Such a step changes neither slots, evidence nor history.
LEMMA BookkeepingFrame ==
    Bookkeeping => UNCHANGED <<concurrent, outs, next, res, pending, replay, answers>>
  BY DEF Bookkeeping, StopSending, OpenGate, AbortAtGate, BurstComplete,
         CollectDone, DecideReplay, Evaluate, Cancel, DeadlinePasses, vars

\* The remaining steps, one by one.
LEMMA StepCases ==
    ASSUME [Next]_vars
    PROVE  \/ Bookkeeping
           \/ \E i \in Slots : SendNext(i)
           \/ \E i \in Slots : WorkerAnswers(i)
           \/ CollectNext \/ ReplayAttempt \/ RetryReplay \/ MergeReplay
  BY DEF Next, Engine, Returned, Bookkeeping

\* A filled slot: what SendNext and WorkerAnswers have in common.
Fills(i, oc) ==
    /\ i \in Slots /\ oc \in Outcomes
    /\ pc \in {"send", "burst"}
    /\ outs[i] = Unsent
    /\ outs' = [outs EXCEPT ![i] = oc]
    /\ Receive(oc)
    /\ UNCHANGED <<concurrent, pc, next, res, pending, attempts, replay, verdict>>

LEMMA FillingSteps ==
    ASSUME \/ \E i \in Slots : SendNext(i)
           \/ \E i \in Slots : WorkerAnswers(i)
    PROVE  \E i \in Slots, oc \in Outcomes : Fills(i, oc)
  <1>1. ASSUME NEW i \in Slots, SendNext(i)
        PROVE  \E oc \in Outcomes : Fills(i, oc)
    BY <1>1 DEF SendNext, Fills
  <1>2. ASSUME NEW i \in Slots, WorkerAnswers(i)
        PROVE  \E oc \in Outcomes : Fills(i, oc)
    BY <1>2, DoReturnsOutcomes DEF WorkerAnswers, Fills
  <1> QED
    BY <1>1, <1>2

\* The history grows by exactly the answer received.
LEMMA ReceiveEffect ==
    ASSUME NEW oc, Receive(oc)
    PROVE  /\ answers \subseteq answers'
           /\ oc.kind = "response" => FingerprintOf(oc) \in answers'
           /\ \A f \in answers' :
                 f \in answers \/ (oc.kind = "response" /\ f = FingerprintOf(oc))
  BY DEF Receive

\* What one iteration of collect does to the evidence.
LEMMA CollectEffect ==
    ASSUME TypeInv, CollectNext
    PROVE  /\ next \in Slots /\ outs[next] \in Outcomes
           /\ res'.transport >= res.transport /\ res'.oversize >= res.oversize
           /\ res'.observed >= res.observed
           /\ outs[next].kind = "error" => res'.transport > 0
           /\ outs[next].kind = "oversize" => res'.oversize > 0 /\ res'.observed > 0
           /\ outs[next].kind = "response" =>
                 /\ res'.observed > 0
                 /\ res'.groups[FingerprintOf(outs[next])] > 0
           /\ \A f \in Fingerprints : res.groups[f] > 0 => res'.groups[f] > 0
           /\ \A f \in Fingerprints : res'.groups[f] > 0 =>
                 \/ res.groups[f] > 0
                 \/ outs[next].kind = "response" /\ f = FingerprintOf(outs[next])
           /\ \/ res'.baseline = res.baseline
              \/ /\ outs[next].kind # "error"
                 /\ res'.baseline = outs[next].status
  <1>1. /\ next \in Slots /\ outs[next] \in Outcomes
        /\ res \in Results /\ res' = Absorb(res, outs[next])
    BY CollectedSlot DEF TypeInv, TypeOK, CollectNext
  <1>2. PICK m : m = Merge(res, outs[next])
    OBVIOUS
  <1>3. /\ res'.observed = m.observed /\ res'.transport = m.transport
        /\ res'.oversize = m.oversize /\ res'.groups = m.groups
        /\ \/ res'.baseline = res.baseline
           \/ outs[next].kind # "error" /\ res'.baseline = outs[next].status
    BY <1>1, <1>2, AbsorbEffect
  <1>4. /\ m.observed >= res.observed /\ m.transport >= res.transport
        /\ m.oversize >= res.oversize
        /\ outs[next].kind = "error" => m.transport > 0
        /\ outs[next].kind = "oversize" => m.oversize > 0 /\ m.observed > 0
        /\ outs[next].kind = "response" =>
              m.observed > 0 /\ m.groups[FingerprintOf(outs[next])] > 0
        /\ \A f \in Fingerprints : res.groups[f] > 0 => m.groups[f] > 0
        /\ \A f \in Fingerprints : m.groups[f] > 0 =>
              \/ res.groups[f] > 0
              \/ outs[next].kind = "response" /\ f = FingerprintOf(outs[next])
    BY <1>1, <1>2, MergeEffect
  <1> QED
    BY <1>1, <1>3, <1>4

LEMMA SoundStep == TypeInv /\ Sound /\ [Next]_vars => Sound'
  <1> SUFFICES ASSUME TypeInv, Sound, [Next]_vars PROVE Sound'
    OBVIOUS
  <1> USE DEF TypeInv, TypeOK, Control
  <1>1. CASE Bookkeeping
    BY <1>1, BookkeepingFrame DEF Sound
  <1>2. ASSUME NEW i \in Slots, NEW oc \in Outcomes, Fills(i, oc) PROVE Sound'
    BY <1>2, ReceiveEffect DEF Sound, Fills
  <1>3. CASE CollectNext
    <2>1. next \in Slots
      BY <1>3, CollectEffect
    <2>2. \A f \in Fingerprints : res'.groups[f] > 0 =>
             \/ res.groups[f] > 0
             \/ outs[next].kind = "response" /\ f = FingerprintOf(outs[next])
      BY <1>3, CollectEffect
    <2> QED
      BY <1>3, <2>1, <2>2 DEF Sound, CollectNext
  <1>4. CASE ReplayAttempt
    <2>1. PICK oc \in Outcomes : pending' = oc /\ Receive(oc)
      BY <1>4, DoReturnsOutcomes DEF ReplayAttempt
    <2> QED
      BY <1>4, <2>1, ReceiveEffect DEF Sound, ReplayAttempt
  <1>5. CASE RetryReplay
    BY <1>5, UnsentKind DEF Sound, RetryReplay
  <1>6. CASE MergeReplay
    <2>1. pending \in Outcomes
      BY <1>6 DEF MergeReplay
    <2>2. \A f \in Fingerprints : res'.groups[f] > 0 =>
             \/ res.groups[f] > 0
             \/ pending.kind = "response" /\ f = FingerprintOf(pending)
      BY <1>6, <2>1, MergeEffect DEF MergeReplay
    <2> QED
      BY <1>6, <2>1, <2>2 DEF Sound, MergeReplay
  <1> QED
    BY <1>1, <1>2, <1>3, <1>4, <1>5, <1>6, StepCases, FillingSteps

LEMMA OrderedStep == TypeInv /\ Ordered /\ [Next]_vars => Ordered'
  <1> SUFFICES ASSUME TypeInv, Ordered, [Next]_vars PROVE Ordered'
    OBVIOUS
  <1> USE DEF TypeInv, TypeOK, Control, Ordered
  <1>1. CASE StopSending
    BY <1>1 DEF StopSending
  <1>2. CASE OpenGate
    BY <1>2 DEF OpenGate
  <1>3. CASE AbortAtGate
    BY <1>3 DEF AbortAtGate
  <1>4. CASE BurstComplete
    BY <1>4 DEF BurstComplete
  <1>5. CASE CollectDone
    <2>1. \A i \in Slots : i >= next => outs[i] = Unsent
      BY <1>5, NAssumption DEF CollectDone, MoreToCollect, Slots
    <2> QED
      BY <1>5, <2>1 DEF CollectDone
  <1>6. CASE DecideReplay
    BY <1>6 DEF DecideReplay
  <1>7. CASE Evaluate
    BY <1>7 DEF Evaluate
  <1>8. CASE Cancel
    BY <1>8 DEF Cancel
  <1>9. CASE DeadlinePasses
    BY <1>9 DEF DeadlinePasses
  <1>10. CASE UNCHANGED vars
    BY <1>10 DEF vars
  <1>11. ASSUME NEW i \in Slots, SendNext(i) PROVE Ordered'
    <2>1. \A j \in Slots : j < i => outs[j] # Unsent
      BY <1>11, NAssumption DEF SendNext, Slots
    <2>2. PICK oc \in Outcomes : outs' = [outs EXCEPT ![i] = oc]
      BY <1>11 DEF SendNext
    <2>3. oc # Unsent
      BY OutcomeKinds
    <2> QED
      BY <1>11, <2>1, <2>2, <2>3, NAssumption DEF SendNext, Slots
  <1>12. ASSUME NEW i \in Slots, WorkerAnswers(i) PROVE Ordered'
    BY <1>12, NAssumption DEF WorkerAnswers, Slots
  <1>13. CASE CollectNext
    BY <1>13, CollectedSlot, NAssumption DEF CollectNext, MoreToCollect, Slots
  <1>14. CASE ReplayAttempt
    BY <1>14 DEF ReplayAttempt
  <1>15. CASE RetryReplay
    BY <1>15 DEF RetryReplay
  <1>16. CASE MergeReplay
    BY <1>16 DEF MergeReplay
  <1> QED
    BY <1>1, <1>2, <1>3, <1>4, <1>5, <1>6, <1>7, <1>8, <1>9, <1>10, <1>11,
       <1>12, <1>13, <1>14, <1>15, <1>16, StepCases DEF Bookkeeping

LEMMA CompleteStep ==
    ASSUME NoTransientSuccess
    PROVE  TypeInv /\ Complete /\ Ordered /\ [Next]_vars => Complete'
  <1> SUFFICES ASSUME TypeInv, Complete, Ordered, [Next]_vars PROVE Complete'
    OBVIOUS
  <1> USE DEF TypeInv, TypeOK, Control
  <1>1. CASE Bookkeeping
    <2>1. pc = "classify" => pc' = "classify"
      BY <1>1 DEF Bookkeeping, StopSending, OpenGate, AbortAtGate, BurstComplete,
         CollectDone, DecideReplay, Evaluate, Cancel, DeadlinePasses, vars
    <2> QED
      BY <1>1, <2>1, BookkeepingFrame DEF Complete, Counts, Waits
  <1>2. ASSUME NEW i \in Slots, NEW oc \in Outcomes, Fills(i, oc) PROVE Complete'
    <2>1. next = 1 /\ outs[i] = Unsent /\ pc' = pc
      BY <1>2 DEF Fills, Ordered
    <2>2. \A j \in Slots : j >= next
      BY <2>1, NAssumption DEF Slots
    <2>3. ASSUME NEW f \in answers', Success(f[1]) PROVE Counts(f)' \/ Waits(f)'
      <3>1. CASE f \in answers
        <4>1. Counts(f) => Counts(f)'
          BY <1>2 DEF Counts, Fills
        <4>2. Waits(f) => Waits(f)'
          <5>1. ASSUME NEW j \in Slots, outs[j].kind = "response",
                       FingerprintOf(outs[j]) = f
                PROVE  Waits(f)'
            <6>1. j # i
              BY <2>1, <5>1, UnsentKind
            <6>2. outs'[j] = outs[j]
              BY <1>2, <6>1 DEF Fills
            <6> QED
              BY <1>2, <2>2, <5>1, <6>2 DEF Waits, Fills
          <5> QED
            BY <1>2, <5>1 DEF Waits, Fills
        <4> QED
          BY <2>3, <3>1, <4>1, <4>2 DEF Complete
      <3>2. CASE oc.kind = "response" /\ f = FingerprintOf(oc)
        <4>1. outs'[i] = oc /\ next' = next
          BY <1>2 DEF Fills
        <4> QED
          BY <3>2, <4>1, <2>2 DEF Waits
      <3> QED
        BY <1>2, <3>1, <3>2, ReceiveEffect DEF Fills
    <2> QED
      BY <2>3 DEF Complete
  <1>3. CASE CollectNext
    <2>1. outs[next] \in Outcomes /\ next \in Slots /\ next' = next + 1
          /\ UNCHANGED <<pc, outs, pending, answers>> /\ pc = "collect"
      BY <1>3, CollectedSlot DEF CollectNext
    <2>2. \A f \in Fingerprints : res.groups[f] > 0 => res'.groups[f] > 0
      BY <1>3, CollectEffect
    <2>3. outs[next].kind = "response" =>
             res'.groups[FingerprintOf(outs[next])] > 0
      BY <1>3, CollectEffect
    <2>4. ASSUME NEW f \in answers, Success(f[1]) PROVE Counts(f)' \/ Waits(f)'
      <3>1. CASE Counts(f)
        BY <3>1, <2>2 DEF Counts
      <3>2. ASSUME NEW i \in Slots, i >= next, outs[i].kind = "response",
                   FingerprintOf(outs[i]) = f
            PROVE  Counts(f)' \/ Waits(f)'
        <4>1. CASE i = next
          BY <3>2, <4>1, <2>3 DEF Counts
        <4>2. CASE i # next
          <5>1. i >= next'
            BY <2>1, <3>2, <4>2, NAssumption DEF Slots
          <5> QED
            BY <3>2, <5>1, <2>1 DEF Waits
        <4> QED
          BY <4>1, <4>2
      <3> QED
        BY <2>1, <2>4, <3>1, <3>2 DEF Complete, Waits
    <2> QED
      BY <2>1, <2>4 DEF Complete
  <1>4. CASE ReplayAttempt
    <2>1. PICK oc \in Outcomes : pending' = oc /\ Receive(oc)
      BY <1>4, DoReturnsOutcomes DEF ReplayAttempt
    <2> QED
      BY <1>4, <2>1, ReceiveEffect DEF Complete, Counts, Waits, ReplayAttempt
  <1>5. CASE RetryReplay
    <2>1. pending \in Outcomes /\ ~Conclusive(pending)
      BY <1>5, RetryHasBudget DEF RetryReplay
    <2>2. pending.kind = "response" => ~Success(FingerprintOf(pending)[1])
      BY <2>1, OutcomeKinds DEF Conclusive, NoTransientSuccess, IsTransient
    <2> QED
      BY <1>5, <2>2 DEF Complete, Counts, Waits, RetryReplay
  <1>6. CASE MergeReplay
    <2>1. pending \in Outcomes /\ pc' = "evaluate"
          /\ UNCHANGED <<outs, next, pending, answers>>
      BY <1>6 DEF MergeReplay
    <2>2. /\ \A f \in Fingerprints : res.groups[f] > 0 => res'.groups[f] > 0
          /\ pending.kind = "response" => res'.groups[FingerprintOf(pending)] > 0
      BY <1>6, <2>1, MergeEffect DEF MergeReplay
    <2> QED
      BY <2>1, <2>2 DEF Complete, Counts, Waits
  <1> QED
    BY <1>1, <1>2, <1>3, <1>4, <1>5, <1>6, StepCases, FillingSteps

LEMMA CountedStep == TypeInv /\ Counted /\ Ordered /\ [Next]_vars => Counted'
  <1> SUFFICES ASSUME TypeInv, Counted, Ordered, [Next]_vars PROVE Counted'
    OBVIOUS
  <1> USE DEF TypeInv, TypeOK, Control
  <1>1. CASE Bookkeeping
    BY <1>1, BookkeepingFrame DEF Counted, Counts, Shows
  <1>2. ASSUME NEW i \in Slots, NEW oc \in Outcomes, Fills(i, oc) PROVE Counted'
    <2>1. next = 1 /\ next' = 1 /\ res' = res /\ replay' = "none"
      BY <1>2 DEF Fills, Ordered
    <2>2. \A j \in Slots : ~(j < next)'
      BY <2>1, NAssumption DEF Slots
    <2> QED
      BY <2>1, <2>2 DEF Counted, Counts, Shows
  <1>3. CASE CollectNext
    <2>1. UNCHANGED <<outs, replay>> /\ replay = "none" /\ next' = next + 1
      BY <1>3 DEF CollectNext
    <2>2. ASSUME NEW i \in Slots, i < next' PROVE Shows(outs[i])'
      <3>1. CASE i = next
        BY <1>3, <2>1, <3>1, CollectEffect DEF Shows, Counts
      <3>2. CASE i # next
        <4>1. i < next /\ outs[i] \in Outcomes
          BY <2>1, <2>2, <3>2 DEF Slots, Ordered
        <4>2. Shows(outs[i])
          BY <4>1 DEF Counted
        <4>3. outs[i].kind = "response" => FingerprintOf(outs[i]) \in Fingerprints
          BY <4>1, OutcomeKinds
        <4>4. /\ res.transport > 0 => res'.transport > 0
              /\ res.oversize > 0 => res'.oversize > 0
          <5>1. /\ res.transport \in Nat /\ res.oversize \in Nat
                /\ res' \in Results
            BY <1>3, CollectedSlot, AbsorbEffect DEF CollectNext, Results
          <5> QED
            BY <1>3, <5>1, CollectEffect DEF Results
        <4> QED
          BY <1>3, <2>1, <4>2, <4>3, <4>4, CollectEffect DEF Shows, Counts
      <3> QED
        BY <3>1, <3>2
    <2>3. ASSUME NEW f \in Fingerprints, res'.groups[f] > 0
          PROVE  res'.observed > 0
      <3>1. /\ res.observed \in Nat /\ res' \in Results
        BY <1>3, CollectedSlot, AbsorbEffect DEF CollectNext, Results
      <3>2. res'.observed >= res.observed
        BY <1>3, CollectEffect
      <3>3. CASE res.groups[f] > 0
        BY <3>1, <3>2, <3>3 DEF Counted, Counts, Results
      <3>4. CASE outs[next].kind = "response"
        BY <1>3, <3>4, CollectEffect
      <3> QED
        BY <1>3, <2>3, <3>3, <3>4, CollectEffect
    <2>4. res'.baseline # 0 =>
             \/ res'.oversize > 0
             \/ \E f \in Fingerprints : res'.groups[f] > 0 /\ f[1] = res'.baseline
      <3>1. CASE outs[next].kind # "error" /\ res'.baseline = outs[next].status
        BY <1>3, <3>1, CollectEffect, OutcomeKinds
      <3>2. CASE res'.baseline = res.baseline
        <4>1. res.oversize > 0 => res'.oversize > 0
          <5>1. res.oversize \in Nat /\ res' \in Results
            BY <1>3, CollectedSlot, AbsorbEffect DEF CollectNext, Results
          <5> QED
            BY <1>3, <5>1, CollectEffect DEF Results
        <4> QED
          BY <1>3, <3>2, <4>1, CollectEffect DEF Counted, Counts
      <3> QED
        BY <1>3, <3>1, <3>2, CollectEffect
    <2> QED
      BY <2>1, <2>2, <2>3, <2>4 DEF Counted, Counts
  <1>4. CASE ReplayAttempt
    BY <1>4 DEF ReplayAttempt, Counted, Counts, Shows
  <1>5. CASE RetryReplay
    BY <1>5 DEF RetryReplay, Counted, Counts, Shows
  <1>6. CASE MergeReplay
    <2>1. /\ pending \in Outcomes /\ res \in Results /\ res' \in Results
          /\ res' = Merge(res, pending) /\ replay' = ClassifyReplay(pending)
          /\ UNCHANGED <<outs, next, pending>>
      BY <1>6, MergeType DEF MergeReplay
    <2>2. /\ res'.baseline = res.baseline
          /\ res'.observed >= res.observed /\ res'.transport >= res.transport
          /\ res'.oversize >= res.oversize
          /\ pending.kind = "error" => res'.transport > 0
          /\ pending.kind = "oversize" => res'.oversize > 0
          /\ pending.kind = "response" =>
                res'.observed > 0 /\ res'.groups[FingerprintOf(pending)] > 0
          /\ \A f \in Fingerprints : res.groups[f] > 0 => res'.groups[f] > 0
          /\ \A f \in Fingerprints : res'.groups[f] > 0 =>
                res.groups[f] > 0 \/ pending.kind = "response"
      BY <2>1, MergeEffect
    <2>3. /\ res.observed > 0 => res'.observed > 0
          /\ res.transport > 0 => res'.transport > 0
          /\ res.oversize > 0 => res'.oversize > 0
      BY <2>1, <2>2 DEF Results
    <2>4. ASSUME NEW i \in Slots, i < next PROVE Shows(outs[i])'
      <3>1. outs[i] \in Outcomes /\ Shows(outs[i])
        BY <2>4 DEF Ordered, Counted
      <3>2. outs[i].kind = "response" => FingerprintOf(outs[i]) \in Fingerprints
        BY <3>1, OutcomeKinds
      <3> QED
        BY <2>1, <2>2, <2>3, <3>1, <3>2 DEF Shows, Counts
    <2>5. Shows(pending)'
      BY <2>1, <2>2 DEF Shows, Counts
    <2> QED
      BY <2>1, <2>2, <2>3, <2>4, <2>5 DEF Counted, Counts
  <1> QED
    BY <1>1, <1>2, <1>3, <1>4, <1>5, <1>6, StepCases, FillingSteps

LEMMA DecidedStep == TypeInv /\ Decided /\ [Next]_vars => Decided'
  <1> SUFFICES ASSUME TypeInv, Decided, [Next]_vars PROVE Decided'
    OBVIOUS
  <1> USE DEF TypeInv, TypeOK, Control, Decided
  <1>1. CASE pc \in {"gate", "send", "burst", "collect", "finalize"}
    <2>1. CASE DecideReplay
      BY <2>1 DEF DecideReplay
    <2>2. CASE ~DecideReplay
      <3>1. pc' \notin {"evaluate", "done"}
        BY <1>1, <2>2
           DEF Next, Engine, Returned, Finished, SendNext, WorkerAnswers,
               StopSending, OpenGate, AbortAtGate, BurstComplete, CollectNext,
               CollectDone, ReplayAttempt, RetryReplay, MergeReplay, Evaluate,
               Cancel, DeadlinePasses, vars
      <3> QED
        BY <3>1
    <2> QED
      BY <2>1, <2>2
  <1>2. CASE pc = "replay"
    BY <1>2 DEF Next, Engine, Returned, Finished, SendNext, WorkerAnswers,
               StopSending, OpenGate, AbortAtGate, BurstComplete, CollectNext,
               CollectDone, DecideReplay, ReplayAttempt, RetryReplay,
               MergeReplay, Evaluate, Cancel, DeadlinePasses, vars
  <1>3. CASE pc = "classify"
    <2>1. CASE MergeReplay
      BY <2>1, ReplayType DEF MergeReplay
    <2>2. CASE ~MergeReplay
      BY <1>3, <2>2
         DEF Next, Engine, Returned, Finished, SendNext, WorkerAnswers,
             StopSending, OpenGate, AbortAtGate, BurstComplete, CollectNext,
             CollectDone, DecideReplay, ReplayAttempt, RetryReplay, Evaluate,
             Cancel, DeadlinePasses, vars
    <2> QED
      BY <2>1, <2>2
  <1>4. CASE pc = "evaluate"
    <2>1. CASE Evaluate
      BY <1>4, <2>1 DEF Evaluate
    <2>2. CASE ~Evaluate
      BY <1>4, <2>2
         DEF Next, Engine, Returned, Finished, SendNext, WorkerAnswers,
             StopSending, OpenGate, AbortAtGate, BurstComplete, CollectNext,
             CollectDone, DecideReplay, ReplayAttempt, RetryReplay,
             MergeReplay, Cancel, DeadlinePasses, vars
    <2> QED
      BY <2>1, <2>2
  <1>5. CASE pc \in {"done", "aborted"}
    <2>1. UNCHANGED vars
      BY <1>5
         DEF Next, Engine, Returned, Finished, SendNext, WorkerAnswers,
             StopSending, OpenGate, AbortAtGate, BurstComplete, CollectNext,
             CollectDone, DecideReplay, ReplayAttempt, RetryReplay,
             MergeReplay, Evaluate, Cancel, DeadlinePasses
    <2> QED
      BY <2>1 DEF vars
  <1> QED
    BY <1>1, <1>2, <1>3, <1>4, <1>5

-----------------------------------------------------------------------------
(* The theorems.                                                           *)

LEMMA InitInv == Init => InvComplete
  <1> SUFFICES ASSUME Init PROVE InvComplete
    OBVIOUS
  <1>1. TypeInv
    BY InitType
  <1>2. /\ next = 1 /\ pending = Unsent /\ replay = "none" /\ answers = {}
        /\ pc \in {"gate", "send"}
        /\ \A i \in Slots : outs[i] = Unsent /\ ~(i < next)
        /\ \A f \in Fingerprints : ~(res.groups[f] > 0)
        /\ res.baseline = 0
    BY NAssumption DEF Init, EmptyResult, Slots
  <1>3. Sound /\ Ordered
    BY <1>2, UnsentKind DEF Sound, Ordered
  <1>4. Counted /\ Complete
    BY <1>2 DEF Counted, Counts, Complete
  <1>5. Decided
    BY <1>2 DEF Decided
  <1> QED
    BY <1>1, <1>3, <1>4, <1>5 DEF Inv, InvComplete

\* The invariant of every specification, whatever the policy tolerates.
THEOREM Invariance == Spec => []Inv
  <1>1. Init => Inv
    BY InitInv DEF InvComplete
  <1>2. Inv /\ [Next]_vars => Inv'
    BY NextType, SoundStep, OrderedStep, CountedStep, DecidedStep DEF Inv
  <1> QED
    BY <1>1, <1>2, PTL DEF Spec

\* With a policy that tolerates no 2xx, no received success answer is lost.
LEMMA InvarianceComplete ==
    ASSUME NoTransientSuccess PROVE Spec => []InvComplete
  <1>1. Init => InvComplete
    BY InitInv
  <1>2. InvComplete /\ [Next]_vars => InvComplete'
    BY NextType, SoundStep, OrderedStep, CountedStep, DecidedStep, CompleteStep
       DEF Inv, InvComplete
  <1> QED
    BY <1>1, <1>2, PTL DEF Spec

\* Two counted success bodies are what the evaluator calls a divergence.
LEMMA DivergedMeaning ==
    Diverged(res) <=>
        \E f, g \in Fingerprints : /\ Counts(f) /\ Success(f[1])
                                   /\ Counts(g) /\ Success(g[1])
                                   /\ f[2] # g[2]
  BY DEF Diverged, SuccessBodies, Seen, Counts

\* A reported FAIL always rests on two received success answers with
\* different bodies: the tool raises no false alarm.
THEOREM FailProven == Spec => []FailIsProven
  <1>1. Inv => FailIsProven
    <2> SUFFICES ASSUME Inv, verdict = "fail" PROVE AnswersDiverge
      BY DEF FailIsProven
    <2>1. pc = "done" /\ verdict = EvaluateSameKey(res, replay)
      BY DEF Inv, TypeInv, Control, Decided
    <2>2. Diverged(res)
      BY <2>1 DEF EvaluateSameKey
    <2>3. PICK f, g \in Fingerprints : /\ Counts(f) /\ Success(f[1])
                                       /\ Counts(g) /\ Success(g[1])
                                       /\ f[2] # g[2]
      BY <2>2, DivergedMeaning
    <2>4. f \in answers /\ g \in answers
      BY <2>3 DEF Inv, Sound, Counts
    <2> QED
      BY <2>3, <2>4 DEF AnswersDiverge, SuccessAnswers
  <1> QED
    BY <1>1, Invariance, PTL

\* When the check has ended, every success answer is counted.
LEMMA AllCounted ==
    ASSUME InvComplete, verdict # "none"
    PROVE  \A f \in SuccessAnswers : f \in Fingerprints /\ Counts(f)
  <1>1. pc = "done"
    BY DEF InvComplete, Inv, TypeInv, Control
  <1>2. \A i \in Slots : i >= next => outs[i].kind = "unsent"
    BY <1>1, UnsentKind DEF InvComplete, Inv, Ordered
  <1> QED
    BY <1>1, <1>2 DEF InvComplete, Inv, TypeInv, TypeOK, Complete, Waits, SuccessAnswers

\* No divergence the client saw escapes: under a policy that tolerates no
\* 2xx, two received success bodies make the check FAIL.
THEOREM DivergenceReported ==
    ASSUME NoTransientSuccess PROVE Spec => []DivergenceIsReported
  <1>1. InvComplete => DivergenceIsReported
    <2> SUFFICES ASSUME InvComplete, verdict # "none", AnswersDiverge
                 PROVE  verdict = "fail"
      BY DEF DivergenceIsReported
    <2>1. pc = "done" /\ verdict = EvaluateSameKey(res, replay)
      BY DEF InvComplete, Inv, TypeInv, Control, Decided
    <2>2. PICK f, g \in SuccessAnswers : f[2] # g[2]
      BY DEF AnswersDiverge
    <2>3. /\ f \in Fingerprints /\ Counts(f) /\ Success(f[1])
          /\ g \in Fingerprints /\ Counts(g) /\ Success(g[1])
      BY <2>2, AllCounted DEF SuccessAnswers
    <2>4. Diverged(res)
      BY <2>2, <2>3, DivergedMeaning
    <2>5. res.observed > 0
      BY <2>3 DEF InvComplete, Inv, Counted
    <2>6. res.observed # 0
      BY <2>5
    <2> QED
      BY <2>1, <2>4, <2>6 DEF EvaluateSameKey
  <1> QED
    BY <1>1, InvarianceComplete, PTL

\* What the evaluator has ruled out when it passes a check.
LEMMA PassRules ==
    ASSUME Inv, verdict = "pass"
    PROVE  /\ pc = "done" /\ ~Diverged(res)
           /\ res.oversize = 0 /\ res.transport = 0
           /\ \A f \in Fingerprints :
                 Counts(f) => Success(f[1]) \/ IsTransient(f[1])
           /\ (\E f \in Fingerprints : Counts(f) /\ ~Success(f[1]))
                 => replay = "confirmed"
           /\ \E f \in Fingerprints : Counts(f) /\ Success(f[1])
  <1>1. pc = "done" /\ EvaluateSameKey(res, replay) = "pass"
    BY DEF Inv, TypeInv, Control, Decided
  <1>2. /\ ~Diverged(res) /\ ~(res.oversize > 0) /\ ~(res.transport > 0)
        /\ ~UnknownSeen(res) /\ SuccessBodies(res) # {}
        /\ ~(TransientSeen(res) /\ replay # "confirmed")
    BY <1>1 DEF EvaluateSameKey
  <1>3. res.oversize = 0 /\ res.transport = 0
    BY <1>2 DEF Inv, TypeInv, TypeOK, Results
  <1>4. \A f \in Fingerprints : Counts(f) => Success(f[1]) \/ IsTransient(f[1])
    BY <1>2 DEF UnknownSeen, Seen, Counts
  <1>5. (\E f \in Fingerprints : Counts(f) /\ ~Success(f[1]))
           => replay = "confirmed"
    BY <1>2, <1>4 DEF TransientSeen, Seen, Counts
  <1>6. \E f \in Fingerprints : Counts(f) /\ Success(f[1])
    BY <1>2 DEF SuccessBodies, Seen, Counts
  <1> QED
    BY <1>1, <1>2, <1>3, <1>4, <1>5, <1>6

\* A confirmed replay was answered with a 2xx.
LEMMA ConfirmedMeaning ==
    ASSUME Inv, replay = "confirmed"
    PROVE  pending.kind = "response" /\ Success(pending.status)
  BY ReplayType DEF Inv, Counted

\* A burst that passes was confirmed: had the replay been skipped, the
\* baseline would be a status no rule passes; any other end of the replay
\* leaves a trace in the evidence.
LEMMA BurstPassConfirmed ==
    ASSUME Inv, verdict = "pass", concurrent PROVE replay = "confirmed"
  <1>1. CASE replay = "none"
    <2>1. BaselineRejected(res)
      BY <1>1, PassRules DEF Inv, Decided, NeedsReplay
    <2>2. res.baseline \in Statuses \cup {0}
      BY DEF Inv, TypeInv, TypeOK, Results
    <2>3. res.baseline \in Int /\ res.baseline >= 400
      BY <2>1, <2>2, FingerprintsAssumption DEF BaselineRejected, Statuses
    <2>4. PICK f \in Fingerprints : Counts(f) /\ f[1] = res.baseline
      BY <2>3, PassRules DEF Inv, Counted
    <2>5. ~Success(f[1]) /\ ~IsTransient(f[1])
      BY <2>1, <2>3, <2>4 DEF BaselineRejected, Success
    <2> QED
      BY <2>4, <2>5, PassRules
  <1>2. CASE replay # "none"
    <2>1. /\ pending \in Outcomes /\ Shows(pending)
          /\ replay = ClassifyReplay(pending)
      BY <1>2 DEF Inv, Counted
    <2>2. pending.kind = "response"
      BY <2>1, OutcomeKinds, PassRules DEF Shows
    <2>3. /\ Counts(FingerprintOf(pending))
          /\ FingerprintOf(pending) \in Fingerprints
          /\ pending.status = FingerprintOf(pending)[1]
      BY <2>1, <2>2, OutcomeKinds DEF Shows
    <2>4. CASE Success(pending.status)
      BY <2>1, <2>2, <2>4, ReplayType
    <2>5. CASE ~Success(pending.status)
      BY <2>3, <2>5, PassRules
    <2> QED
      BY <2>4, <2>5
  <1> QED
    BY <1>1, <1>2

\* A PASS rests on complete, readable, agreeing evidence, and on a replay
\* answered 2xx wherever a burst or a tolerated transient left a doubt.
THEOREM PassEarned ==
    ASSUME NoTransientSuccess PROVE Spec => []PassIsEarned
  <1>1. InvComplete => PassIsEarned
    <2> SUFFICES ASSUME InvComplete, verdict = "pass" PROVE PassIsEarned
      BY DEF PassIsEarned
    <2>1. Inv
      BY DEF InvComplete
    <2>2. ASSUME NEW i \in Slots, outs[i] # Unsent
          PROVE  /\ outs[i].kind = "response"
                 /\ Counts(FingerprintOf(outs[i]))
                 /\ FingerprintOf(outs[i]) \in Fingerprints
                 /\ outs[i].status = FingerprintOf(outs[i])[1]
      <3>1. i < next /\ outs[i] \in Outcomes
        BY <2>1, <2>2, PassRules DEF Inv, TypeInv, TypeOK, Ordered, Slots
      <3>2. Shows(outs[i])
        BY <2>1, <3>1 DEF Inv, Counted
      <3> QED
        BY <2>1, <3>1, <3>2, OutcomeKinds, PassRules DEF Shows
    <2>3. \A i \in Slots : outs[i] # Unsent => Readable(outs[i])
      BY <2>1, <2>2, PassRules DEF Readable
    <2>4. SuccessAnswers # {}
      BY <2>1, PassRules DEF Inv, Sound, Counts, SuccessAnswers
    <2>5. ~AnswersDiverge
      BY <2>1, AllCounted, DivergedMeaning, PassRules
         DEF AnswersDiverge, SuccessAnswers
    <2>6. \/ concurrent
          \/ \E i \in Slots : outs[i] # Unsent /\ ~Success(outs[i].status)
          => replay = "confirmed"
      BY <2>1, <2>2, BurstPassConfirmed, PassRules
    <2> QED
      BY <2>1, <2>3, <2>4, <2>5, <2>6, ConfirmedMeaning DEF PassIsEarned
  <1> QED
    BY <1>1, InvarianceComplete, PTL

-----------------------------------------------------------------------------
(* Cancellation.                                                           *)

\* A cancelled burst that has no replay answer yet, and what becomes of it:
\* whatever it still does, its replay is not confirmed.
Unconfirmed ==
    /\ concurrent /\ ctxDone
    /\ \/ pc \in {"gate", "burst", "collect", "finalize", "replay", "aborted"}
       \/ pc = "classify" /\ pending = NoResponse
       \/ pc \in {"evaluate", "done"} /\ replay # "confirmed"

LEMMA UnconfirmedStep ==
    Inv /\ Unconfirmed /\ [Next]_vars => Unconfirmed'
  <1> SUFFICES ASSUME Inv, Unconfirmed, [Next]_vars PROVE Unconfirmed'
    OBVIOUS
  <1>1. CASE Bookkeeping
    <2>1. CASE StopSending
      BY <2>1 DEF StopSending, Unconfirmed
    <2>2. CASE OpenGate
      BY <2>2 DEF OpenGate, Unconfirmed
    <2>3. CASE AbortAtGate
      BY <2>3 DEF AbortAtGate, Unconfirmed
    <2>4. CASE BurstComplete
      BY <2>4 DEF BurstComplete, Unconfirmed
    <2>5. CASE CollectDone
      BY <2>5 DEF CollectDone, Unconfirmed
    <2>6. CASE DecideReplay
      <3>1. replay = "none"
        BY <2>6 DEF Inv, TypeInv, Control, DecideReplay
      <3> QED
        BY <2>6, <3>1 DEF DecideReplay, Unconfirmed
    <2>7. CASE Evaluate
      BY <2>7 DEF Evaluate, Unconfirmed
    <2>8. CASE Cancel \/ DeadlinePasses
      BY <2>8 DEF Cancel, DeadlinePasses, Unconfirmed
    <2>9. CASE UNCHANGED vars
      BY <2>9 DEF vars, Unconfirmed
    <2> QED
      BY <1>1, <2>1, <2>2, <2>3, <2>4, <2>5, <2>6, <2>7, <2>8, <2>9
         DEF Bookkeeping
  <1>2. ASSUME NEW i \in Slots, SendNext(i) \/ WorkerAnswers(i)
        PROVE  Unconfirmed'
    BY <1>2 DEF SendNext, WorkerAnswers, Unconfirmed
  <1>3. CASE CollectNext
    BY <1>3 DEF CollectNext, Unconfirmed
  <1>4. CASE ReplayAttempt
    BY <1>4 DEF ReplayAttempt, DoOutcomes, Unconfirmed
  <1>5. CASE RetryReplay
    BY <1>5 DEF RetryReplay, FinalAttempt, BudgetSpent, Unconfirmed
  <1>6. CASE MergeReplay
    <2>1. pending = NoResponse /\ replay' = ClassifyReplay(pending)
      BY <1>6 DEF MergeReplay, Unconfirmed
    <2>2. replay' = "failed"
      BY <2>1 DEF ClassifyReplay, NoResponse
    <2> QED
      BY <1>6, <2>2 DEF MergeReplay, Unconfirmed
  <1> QED
    BY <1>1, <1>2, <1>3, <1>4, <1>5, <1>6, StepCases

\* Ctrl-C between the first request of a burst and the answer of its replay
\* is never followed by a PASS of that check.
THEOREM CancelledNeverPasses == Spec => CancelledBurstNeverPasses
  <1>1. concurrent /\ ctxDone
        /\ pc \in {"gate", "burst", "collect", "finalize", "replay"}
        => Unconfirmed
    BY DEF Unconfirmed
  <1>2. Inv /\ Unconfirmed => verdict # "pass"
    BY BurstPassConfirmed, PassRules DEF Unconfirmed
  <1> QED
    BY <1>1, <1>2, Invariance, UnconfirmedStep, PTL
       DEF Spec, CancelledBurstNeverPasses

-----------------------------------------------------------------------------
(* Unanswered checks.                                                      *)

Heard(oc) == oc.kind \in {"response", "oversize"}

\* What was observed was heard in a collected slot or in the merged replay,
\* and what was heard there was observed.
Observed ==
    /\ res.observed > 0 <=>
          \/ \E i \in Slots : i < next /\ Heard(outs[i])
          \/ replay # "none" /\ Heard(pending)
    /\ pc \notin {"classify"} /\ replay = "none" => pending = Unsent

LEMMA InitObserved == Init => Observed
  BY NAssumption DEF Init, Observed, EmptyResult, Slots

\* Merge observes exactly what is heard.
LEMMA MergeObserves ==
    ASSUME NEW r \in Results, NEW oc \in Outcomes
    PROVE  /\ Merge(r, oc).observed > 0 <=> r.observed > 0 \/ Heard(oc)
           /\ Absorb(r, oc).observed > 0 <=> r.observed > 0 \/ Heard(oc)
  <1>1. oc.kind \in {"response", "oversize", "error"}
    BY OutcomeKinds
  <1>2. Absorb(r, oc).observed = Merge(r, oc).observed
    BY AbsorbEffect
  <1> QED
    BY <1>1, <1>2 DEF Merge, Results, Heard

LEMMA ObservedStep ==
    Inv /\ Observed /\ [Next]_vars => Observed'
  <1> SUFFICES ASSUME Inv, Observed, [Next]_vars PROVE Observed'
    OBVIOUS
  <1>1. CASE Bookkeeping
    <2>1. UNCHANGED <<concurrent, outs, next, res, pending, replay, answers>>
      BY <1>1, BookkeepingFrame
    <2>2. pc' \notin {"classify"} => pc \notin {"classify"}
      BY <1>1 DEF Bookkeeping, StopSending, OpenGate, AbortAtGate,
           BurstComplete, CollectDone, DecideReplay, Evaluate, Cancel,
           DeadlinePasses, vars
    <2> QED
      BY <2>1, <2>2 DEF Observed
  <1>2. ASSUME NEW i \in Slots, NEW oc \in Outcomes, Fills(i, oc)
        PROVE  Observed'
    <2>1. next = 1 /\ replay = "none" /\ pc' = pc /\ pc # "classify"
      BY <1>2 DEF Fills, Inv, Ordered, TypeInv, Control
    <2>2. \A j \in Slots : ~(j < next)
      BY <2>1, NAssumption DEF Slots
    <2> QED
      BY <1>2, <2>1, <2>2 DEF Observed, Fills
  <1>3. CASE CollectNext
    <2>1. /\ next \in Slots /\ outs[next] \in Outcomes
          /\ res \in Results /\ res' = Absorb(res, outs[next])
          /\ next' = next + 1 /\ replay = "none"
          /\ UNCHANGED <<pc, outs, pending, replay>> /\ pc = "collect"
      BY <1>3, CollectedSlot DEF Inv, TypeInv, TypeOK, Control, CollectNext
    <2>2. res'.observed > 0 <=> res.observed > 0 \/ Heard(outs[next])
      BY <2>1, MergeObserves
    <2>3. \A i \in Slots : i < next' <=> i < next \/ i = next
      BY <2>1, NAssumption DEF Slots
    <2> QED
      BY <2>1, <2>2, <2>3 DEF Observed
  <1>4. CASE ReplayAttempt
    <2>1. replay = "none" /\ pc' = "classify" /\ UNCHANGED <<outs, next, res, replay>>
      BY <1>4 DEF Inv, TypeInv, Control, ReplayAttempt
    <2> QED
      BY <2>1 DEF Observed
  <1>5. CASE RetryReplay
    <2>1. /\ replay = "none" /\ pending' = Unsent
          /\ UNCHANGED <<outs, next, res, replay>>
      BY <1>5 DEF Inv, TypeInv, Control, RetryReplay
    <2> QED
      BY <2>1 DEF Observed
  <1>6. CASE MergeReplay
    <2>1. /\ pending \in Outcomes /\ res \in Results
          /\ res' = Merge(res, pending) /\ replay = "none"
          /\ replay' = ClassifyReplay(pending)
          /\ UNCHANGED <<outs, next, pending>>
      BY <1>6 DEF Inv, TypeInv, TypeOK, Control, MergeReplay
    <2>2. res'.observed > 0 <=> res.observed > 0 \/ Heard(pending)
      BY <2>1, MergeObserves
    <2>3. replay' # "none"
      BY <2>1, ReplayType
    <2> QED
      BY <2>1, <2>2, <2>3 DEF Observed
  <1> QED
    BY <1>1, <1>2, <1>3, <1>4, <1>5, <1>6, StepCases, FillingSteps

\* The verdict ERROR says that nothing came back, and nothing else does.
THEOREM ErrorUnanswered == Spec => []ErrorMeansUnanswered
  <1>1. ASSUME Inv, Observed, verdict # "none"
        PROVE  verdict = "error" <=> ~(res.observed > 0)
    <2>1. verdict = EvaluateSameKey(res, replay)
      BY <1>1 DEF Inv, TypeInv, Control, Decided
    <2>2. res.observed \in Nat
      BY <1>1 DEF Inv, TypeInv, TypeOK, Results
    <2>3. verdict = "error" <=> res.observed = 0
      BY <2>1 DEF EvaluateSameKey
    <2> QED
      BY <2>2, <2>3
  <1>2. ASSUME Inv, Observed, verdict # "none"
        PROVE  res.observed > 0 <=>
                  \E oc \in {outs[i] : i \in Slots} \cup {pending} : Heard(oc)
    <2>1. pc = "done"
      BY <1>2 DEF Inv, TypeInv, Control
    <2>2. \A i \in Slots : i >= next => outs[i].kind = "unsent"
      BY <1>2, <2>1, UnsentKind DEF Inv, Ordered
    <2>3. \A i \in Slots : Heard(outs[i]) => i < next
      BY <1>2, <2>2, NAssumption DEF Heard, Slots, Inv, TypeInv, TypeOK
    <2>4. Heard(pending) => replay # "none"
      BY <1>2, <2>1, UnsentKind DEF Observed, Heard
    <2> QED
      BY <1>2, <2>3, <2>4 DEF Observed
  <1>3. ASSUME Inv
        PROVE  \A oc \in {outs[i] : i \in Slots} \cup {pending} :
                  oc.kind \in {"error", "unsent"} <=> ~Heard(oc)
    <2>1. {outs[i] : i \in Slots} \cup {pending} \subseteq Outcomes \cup {Unsent}
      BY <1>3 DEF Inv, TypeInv, TypeOK
    <2>2. \A oc \in Outcomes \cup {Unsent} :
             oc.kind \in {"response", "oversize", "error", "unsent"}
      BY OutcomeKinds, UnsentKind
    <2> QED
      BY <2>1, <2>2 DEF Heard
  <1>4. Inv /\ Observed => ErrorMeansUnanswered
    BY <1>1, <1>2, <1>3 DEF ErrorMeansUnanswered
  <1>5. Init => Inv /\ Observed
    BY InitInv, InitObserved DEF InvComplete
  <1>6. (Inv /\ Observed) /\ [Next]_vars => (Inv /\ Observed)'
    BY ObservedStep, NextType, SoundStep, OrderedStep, CountedStep, DecidedStep
       DEF Inv
  <1> QED
    BY <1>4, <1>5, <1>6, PTL DEF Spec

-----------------------------------------------------------------------------
(* What the run sees: the refinement of CheckReport.                       *)

\* Nothing is heard before the gate opens.
Quiet == pc = "gate" => answers = {} /\ \A i \in Slots : outs[i] = Unsent

ReportInv == Inv /\ Observed /\ Quiet

LEMMA InitQuiet == Init => Quiet
  BY DEF Init, Quiet

LEMMA QuietStep == Quiet /\ [Next]_vars => Quiet'
  <1> SUFFICES ASSUME Quiet, [Next]_vars PROVE Quiet'
    OBVIOUS
  <1>1. CASE Bookkeeping
    <2>1. UNCHANGED <<outs, pending, answers>>
      BY <1>1, BookkeepingFrame
    <2>2. pc' = "gate" => pc = "gate"
      BY <1>1 DEF Bookkeeping, StopSending, OpenGate, AbortAtGate,
           BurstComplete, CollectDone, DecideReplay, Evaluate, Cancel,
           DeadlinePasses, vars
    <2> QED
      BY <2>1, <2>2 DEF Quiet
  <1>2. ASSUME NEW i \in Slots, NEW oc \in Outcomes, Fills(i, oc) PROVE Quiet'
    BY <1>2 DEF Fills, Quiet
  <1>3. CASE CollectNext
    BY <1>3 DEF CollectNext, Quiet
  <1>4. CASE ReplayAttempt
    BY <1>4 DEF ReplayAttempt, Quiet
  <1>5. CASE RetryReplay
    BY <1>5 DEF RetryReplay, Quiet
  <1>6. CASE MergeReplay
    BY <1>6 DEF MergeReplay, Quiet
  <1> QED
    BY <1>1, <1>2, <1>3, <1>4, <1>5, <1>6, StepCases, FillingSteps

\* A check that counts an observation was heard.
LEMMA ObservedIsHeard ==
    ASSUME ReportInv, res.observed > 0
    PROVE  WasHeard
  <1>1. \/ \E i \in Slots : Heard(outs[i])
        \/ Heard(pending)
    BY DEF ReportInv, Observed
  <1>2. ASSUME NEW i \in Slots, Heard(outs[i]) PROVE WasHeard
    BY <1>2 DEF ReportInv, Inv, Sound, Heard, WasHeard
  <1>3. CASE Heard(pending)
    BY <1>3 DEF ReportInv, Inv, Sound, Heard, WasHeard
  <1> QED
    BY <1>1, <1>2, <1>3

\* What a check reports once it has evaluated its evidence.
LEMMA EvaluationReports ==
    ASSUME ReportInv
    PROVE  [verdict |-> EvaluateSameKey(res, replay), rejected |-> BadBaseline(res)]
              \in SameKeyReports(WasHeard)
  <1>1. res.observed \in Nat
    BY DEF ReportInv, Inv, TypeInv, TypeOK, Results
  <1>2. CASE res.observed = 0
    <2>1. EvaluateSameKey(res, replay) = "error" /\ BadBaseline(res) = FALSE
      BY <1>2 DEF EvaluateSameKey, BadBaseline
    <2> QED
      BY <2>1 DEF SameKeyReports
  <1>3. CASE res.observed > 0
    <2>1. EvaluateSameKey(res, replay) \in Verdicts \ {"error"}
      BY <1>3 DEF EvaluateSameKey, Verdicts
    <2>2. BadBaseline(res) \in BOOLEAN
      BY DEF BadBaseline
    <2>3. WasHeard
      BY <1>3, ObservedIsHeard
    <2> QED
      BY <2>1, <2>2, <2>3 DEF SameKeyReports
  <1> QED
    BY <1>1, <1>2, <1>3

\* While it runs, a check has reported nothing.
LEMMA NoReportYet ==
    /\ verdict = "none" /\ pc # "aborted" => Reported = Report!NoReport
    /\ verdict = "none" /\ pc = "aborted" => Reported = Report!GivenUp
  BY DEF Reported, Report!NoReport, Report!GivenUp

LEMMA HeardFrame ==
    ASSUME UNCHANGED <<outs, pending, answers>>
    PROVE  WasHeard' = WasHeard
  BY DEF WasHeard

\* Filling a slot can only let the check be heard, and an error is not heard.
LEMMA FillHears ==
    ASSUME NEW i \in Slots, NEW oc \in Outcomes, Fills(i, oc), TypeInv
    PROVE  /\ WasHeard => WasHeard'
           /\ oc.kind = "error" => WasHeard' = WasHeard
  <1>1. /\ outs[i].kind = "unsent"
        /\ outs'[i] = oc /\ pending' = pending
        /\ \A j \in Slots : j # i => outs'[j] = outs[j]
    BY UnsentKind DEF Fills, TypeInv, TypeOK
  <1>2. answers \subseteq answers' /\ (oc.kind = "error" => answers' = answers)
    BY DEF Fills, Receive
  <1>3. ASSUME NEW j \in Slots, outs[j].kind = "oversize" PROVE WasHeard'
    BY <1>1, <1>3 DEF WasHeard
  <1>4. WasHeard => WasHeard'
    <2>1. ASSUME pending.kind = "oversize" PROVE WasHeard'
      BY <1>1, <2>1 DEF WasHeard
    <2>2. ASSUME answers # {} PROVE WasHeard'
      BY <1>2, <2>2 DEF WasHeard
    <2> QED
      BY <1>3, <2>1, <2>2 DEF WasHeard
  <1>5. ASSUME oc.kind = "error", WasHeard' PROVE WasHeard
    <2>1. ASSUME NEW j \in Slots, outs'[j].kind = "oversize" PROVE WasHeard
      BY <1>1, <1>5, <2>1 DEF WasHeard
    <2> QED
      BY <1>1, <1>2, <1>5, <2>1 DEF WasHeard
  <1> QED
    BY <1>4, <1>5 DEF WasHeard

LEMMA ReportInit == Init => Report!Init
  <1> SUFFICES ASSUME Init PROVE Report!Init
    OBVIOUS
  <1>1. WasHeard = FALSE
    BY UnsentKind DEF Init, WasHeard
  <1>2. Reported = Report!NoReport
    BY NoReportYet DEF Init
  <1> QED
    BY <1>1, <1>2 DEF Init, Report!Init

\* Every step of the check is a step of its report, or none.
LEMMA ReportStep ==
    ReportInv /\ [Next]_vars => [Report!Next]_(Report!vars)
  <1> SUFFICES ASSUME ReportInv, [Next]_vars PROVE [Report!Next]_(Report!vars)
    OBVIOUS
  <1>a. TypeInv
    BY DEF ReportInv, Inv
  \* A step that changes nothing the run sees.
  <1>b. ASSUME ctxDone' = ctxDone, WasHeard' = WasHeard, Reported' = Reported
        PROVE  [Report!Next]_(Report!vars)
    BY <1>b DEF Report!vars
  \* A step that leaves the check unreported.
  <1>c. ASSUME UNCHANGED verdict, verdict = "none", pc # "aborted", pc' # "aborted"
        PROVE  Reported = Report!NoReport /\ Reported' = Reported
    BY <1>c DEF Reported, Report!NoReport
  \* A step in which the check is heard, or not.
  <1>d. ASSUME Reported = Report!NoReport, Reported' = Reported,
               UNCHANGED ctxDone, WasHeard => WasHeard',
               ctxDone => WasHeard' = WasHeard
        PROVE  [Report!Next]_(Report!vars)
    <2>1. CASE WasHeard' = WasHeard
      BY <1>b, <1>d, <2>1
    <2>2. CASE WasHeard' # WasHeard
      <3>1. ~ctxDone /\ WasHeard' = TRUE
        BY <1>d, <2>2 DEF WasHeard, TypeInv, TypeOK
      <3> QED
        BY <1>d, <3>1 DEF Report!Next, Report!Hear
    <2> QED
      BY <2>1, <2>2
  <1>1. ASSUME NEW i \in Slots, SendNext(i) PROVE [Report!Next]_(Report!vars)
    <2>1. PICK oc \in Outcomes : Fills(i, oc)
      BY <1>1 DEF SendNext, Fills
    <2>2. /\ verdict = "none" /\ UNCHANGED <<verdict, pc, ctxDone>>
          /\ pc = "send" /\ ~ctxDone
      BY <1>1, <1>a DEF SendNext, TypeInv, Control
    <2>3. WasHeard => WasHeard'
      BY <1>a, <2>1, FillHears
    <2> QED
      BY <1>c, <1>d, <2>2, <2>3
  <1>2. ASSUME NEW i \in Slots, WorkerAnswers(i) PROVE [Report!Next]_(Report!vars)
    <2>1. PICK oc \in DoOutcomes(ctxDone) : Fills(i, oc)
      BY <1>2, DoReturnsOutcomes DEF WorkerAnswers, Fills
    <2>2. oc \in Outcomes /\ (ctxDone => oc.kind = "error")
      BY <2>1, DoReturnsOutcomes DEF DoOutcomes, NoResponse
    <2>3. /\ verdict = "none" /\ UNCHANGED <<verdict, pc, ctxDone>> /\ pc = "burst"
      BY <1>2, <1>a DEF WorkerAnswers, TypeInv, Control
    <2>4. (WasHeard => WasHeard') /\ (ctxDone => WasHeard' = WasHeard)
      BY <1>a, <2>1, <2>2, FillHears
    <2> QED
      BY <1>c, <1>d, <2>3, <2>4
  <1>3. CASE AbortAtGate
    <2>1. verdict = "none" /\ pc = "gate" /\ pc' = "aborted" /\ ctxDone
          /\ UNCHANGED <<outs, pending, answers, verdict, ctxDone>>
      BY <1>3, <1>a DEF AbortAtGate, TypeInv, Control
    <2>2. ~WasHeard
      BY <2>1, <1>a, UnsentKind DEF ReportInv, Observed, Quiet, WasHeard, TypeInv, Control
    <2>3. WasHeard' = WasHeard
      BY <2>1, HeardFrame
    <2>4. Reported = Report!NoReport /\ Reported' = Report!GivenUp
      BY <2>1 DEF Reported, Report!NoReport, Report!GivenUp
    <2> QED
      BY <2>1, <2>2, <2>3, <2>4 DEF Report!Next, Report!GiveUp
  <1>4. CASE Evaluate
    <2>1. verdict = "none" /\ pc = "evaluate" /\ pc' = "done"
          /\ verdict' = EvaluateSameKey(res, replay)
          /\ UNCHANGED <<outs, pending, answers, res, ctxDone>>
      BY <1>4, <1>a DEF Evaluate, TypeInv, Control
    <2>2. WasHeard' = WasHeard
      BY <2>1, HeardFrame
    <2>3. verdict' # "none"
      BY <2>1, VerdictType DEF Verdicts
    <2>4. Reported' = [verdict |-> EvaluateSameKey(res, replay),
                       rejected |-> BadBaseline(res)]
      BY <2>1, <2>3 DEF Reported, BadBaseline
    <2>5. Reported = Report!NoReport
      BY <2>1, NoReportYet
    <2>6. Reported' \in Report!SameKeyReports(WasHeard)
      BY <2>4, EvaluationReports DEF SameKeyReports, Report!SameKeyReports,
         Verdicts, Report!Verdicts
    <2> QED
      BY <2>1, <2>2, <2>5, <2>6 DEF Report!Next, Report!Report
  <1>5. CASE Cancel
    <2>1. verdict = "none" /\ pc # "aborted" /\ ctxDone' = TRUE
          /\ UNCHANGED <<pc, outs, pending, answers, verdict>>
      BY <1>5, <1>a DEF Cancel, Finished, TypeInv, Control
    <2>2. WasHeard' = WasHeard
      BY <2>1, HeardFrame
    <2> QED
      BY <1>c, <2>1, <2>2 DEF Report!Next, Report!Cancel
  <1>6. CASE DeadlinePasses \/ UNCHANGED vars
    <2>1. UNCHANGED <<pc, outs, res, pending, answers, verdict, ctxDone>>
      BY <1>6 DEF DeadlinePasses, vars
    <2>2. Reported' = Reported
      BY <2>1 DEF Reported, BadBaseline
    <2> QED
      BY <1>b, <2>1, <2>2, HeardFrame
  <1>7. CASE \/ StopSending \/ OpenGate \/ BurstComplete \/ CollectNext
             \/ CollectDone \/ DecideReplay \/ MergeReplay
    <2>1. verdict = "none" /\ pc # "aborted" /\ pc' # "aborted"
          /\ UNCHANGED <<outs, pending, answers, verdict, ctxDone>>
      BY <1>7, <1>a DEF StopSending, OpenGate, BurstComplete, CollectNext,
         CollectDone, DecideReplay, MergeReplay, TypeInv, Control
    <2> QED
      BY <1>b, <1>c, <2>1, HeardFrame
  <1>8. CASE ReplayAttempt
    <2>1. /\ verdict = "none" /\ pc = "replay" /\ pc' = "classify"
          /\ pending = Unsent /\ UNCHANGED <<outs, verdict, ctxDone>>
      BY <1>8, <1>a DEF ReplayAttempt, ReportInv, Observed, TypeInv, Control
    <2>2. PICK oc \in DoOutcomes(ctxDone) : pending' = oc /\ Receive(oc)
      BY <1>8 DEF ReplayAttempt
    <2>3. answers \subseteq answers' /\ (oc.kind = "error" => answers' = answers)
      BY <2>2 DEF Receive
    <2>4. WasHeard => WasHeard'
      BY <2>1, <2>3, UnsentKind DEF WasHeard
    <2>5. ctxDone => WasHeard' = WasHeard
      <3>1. ctxDone => oc.kind = "error"
        BY <2>2 DEF DoOutcomes, NoResponse
      <3>2. oc.kind = "error" => WasHeard' = WasHeard
        BY <2>1, <2>2, <2>3, UnsentKind DEF WasHeard
      <3> QED
        BY <3>1, <3>2
    <2> QED
      BY <1>c, <1>d, <2>1, <2>4, <2>5
  \* The answer a retry drops is not an unreadable one.
  <1>9. CASE RetryReplay
    <2>1. /\ verdict = "none" /\ pc = "classify" /\ pc' = "replay"
          /\ pending' = Unsent /\ UNCHANGED <<outs, answers, verdict, ctxDone>>
      BY <1>9, <1>a DEF RetryReplay, TypeInv, Control
    <2>2. pending.kind # "oversize"
      BY <1>9 DEF RetryReplay, FinalAttempt, Conclusive
    <2>3. WasHeard' = WasHeard
      BY <2>1, <2>2, UnsentKind DEF WasHeard
    <2> QED
      BY <1>b, <1>c, <2>1, <2>3
  <1> QED
    BY <1>1, <1>2, <1>3, <1>4, <1>5, <1>6, <1>7, <1>8, <1>9
       DEF Next, Engine, Returned

\* A run may take a same-key check as the one step CheckReport makes of it:
\* an ERROR unless it was heard, and never heard after the run's Ctrl-C.
THEOREM CheckReports == Spec => ImplementsCheckReport
  <1>1. Init => ReportInv /\ Report!Init
    BY InitInv, InitObserved, InitQuiet, ReportInit DEF ReportInv, InvComplete
  <1>2. ReportInv /\ [Next]_vars => ReportInv' /\ [Report!Next]_(Report!vars)
    BY QuietStep, ObservedStep, NextType, SoundStep, OrderedStep, CountedStep,
       DecidedStep, ReportStep DEF ReportInv, Inv
  <1> QED
    BY <1>1, <1>2, PTL DEF Spec, ImplementsCheckReport, Report!Spec

-----------------------------------------------------------------------------
(* The counters.                                                           *)

\* Which counters an outcome belongs to.
LEMMA KindsOf ==
    ASSUME NEW oc \in Outcomes
    PROVE  /\ oc.kind = "error" <=> oc \in {NoResponse}
           /\ oc.kind = "oversize" <=> oc \in OversizeBodies
           /\ oc.kind # "error" <=> oc \in OversizeBodies \cup Responses
           /\ \A f \in Fingerprints :
                 oc.kind = "response" /\ FingerprintOf(oc) = f
                   <=> oc \in {r \in Responses : FingerprintOf(r) = f}
  <1>1. /\ \A r \in Responses : r.kind = "response"
        /\ \A r \in OversizeBodies : r.kind = "oversize"
        /\ NoResponse.kind = "error"
    BY DEF Responses, OversizeBodies, NoResponse
  <1> QED
    BY <1>1 DEF Outcomes

\* Each counter takes in an outcome of its kind, and no other.
LEMMA MergeCounts ==
    ASSUME NEW r \in Results, NEW oc \in Outcomes
    PROVE  LET m == Merge(r, oc)
               More(n, kinds) == n + (IF oc \in kinds THEN 1 ELSE 0) IN
           /\ m.requests = More(r.requests, Outcomes)
           /\ m.transport = More(r.transport, {NoResponse})
           /\ m.oversize = More(r.oversize, OversizeBodies)
           /\ m.observed = More(r.observed, OversizeBodies \cup Responses)
           /\ \A f \in Fingerprints :
                 m.groups[f] = More(r.groups[f],
                                    {x \in Responses : FingerprintOf(x) = f})
  <1>1. oc.kind = "response" => FingerprintOf(oc) \in Fingerprints
    BY OutcomeKinds
  <1>2. ASSUME NEW f \in Fingerprints
        PROVE  Merge(r, oc).groups[f] =
                  r.groups[f] + (IF oc.kind = "response" /\ FingerprintOf(oc) = f
                                 THEN 1 ELSE 0)
    BY <1>1 DEF Merge, CountIn, Results
  <1>3. /\ Merge(r, oc).requests = r.requests + 1
        /\ Merge(r, oc).observed = r.observed + (IF oc.kind = "error" THEN 0 ELSE 1)
        /\ Merge(r, oc).transport = r.transport + (IF oc.kind = "error" THEN 1 ELSE 0)
        /\ Merge(r, oc).oversize = r.oversize + (IF oc.kind = "oversize" THEN 1 ELSE 0)
    BY DEF Merge
  <1>4. ASSUME NEW f \in Fingerprints
        PROVE  Merge(r, oc).groups[f] =
                  r.groups[f] + (IF oc \in {x \in Responses : FingerprintOf(x) = f}
                                 THEN 1 ELSE 0)
    BY <1>2, KindsOf
  <1> QED
    BY <1>3, <1>4, KindsOf

\* Collecting a slot, or merging the replay, adds it to the tally.
LEMMA TallyCollect ==
    ASSUME TypeInv, CollectNext, NEW kinds
    PROVE  Tally(kinds)' = Tally(kinds) + (IF outs[next] \in kinds THEN 1 ELSE 0)
  <1> DEFINE S == {i \in 1..(next - 1) : outs[i] \in kinds}
  <1>1. /\ next \in Nat \ {0} /\ next' = next + 1
        /\ replay = "none" /\ UNCHANGED <<outs, replay>>
    BY NAssumption DEF TypeInv, TypeOK, Control, CollectNext
  <1>2. S' = IF outs[next] \in kinds THEN S \cup {next} ELSE S
    BY <1>1
  <1>3. IsFiniteSet(S) /\ Cardinality(S) \in Nat
    <2>1. IsFiniteSet(1..(next - 1)) /\ S \subseteq 1..(next - 1)
      BY <1>1, FS_Interval
    <2> QED
      BY <2>1, FS_Subset, FS_CardinalityType
  <1>4. next \notin S
    BY <1>1
  <1>5. Cardinality(S \cup {next}) = Cardinality(S) + 1
    BY <1>3, <1>4, FS_AddElement
  <1>6. Tally(kinds) = Cardinality(S) + 0 /\ Tally(kinds)' = Cardinality(S') + 0
    BY <1>1 DEF Tally
  <1>7. CASE outs[next] \in kinds
    <2>1. S' = S \cup {next}
      BY <1>2, <1>7
    <2> QED
      BY <1>3, <1>5, <1>6, <1>7, <2>1
  <1>8. CASE outs[next] \notin kinds
    <2>1. S' = S
      BY <1>2, <1>8
    <2> QED
      BY <1>3, <1>6, <1>8, <2>1
  <1> QED
    BY <1>7, <1>8

LEMMA TallyMerge ==
    ASSUME TypeInv, MergeReplay, NEW kinds
    PROVE  Tally(kinds)' = Tally(kinds) + (IF pending \in kinds THEN 1 ELSE 0)
  <1> DEFINE S == {i \in 1..(next - 1) : outs[i] \in kinds}
  <1>1. /\ replay = "none" /\ replay' # "none"
        /\ UNCHANGED <<outs, next, pending>>
    BY ReplayType DEF TypeInv, Control, MergeReplay
  <1>2. Cardinality(S) \in Nat
    <2>1. next \in Int
      BY DEF TypeInv, TypeOK
    <2>2. IsFiniteSet(1..(next - 1)) /\ S \subseteq 1..(next - 1)
      BY <2>1, FS_Interval
    <2> QED
      BY <2>2, FS_Subset, FS_CardinalityType
  <1>3. Tally(kinds) = Cardinality(S) + 0
    BY <1>1 DEF Tally
  <1>4. Tally(kinds)' = Cardinality(S) + (IF pending \in kinds THEN 1 ELSE 0)
    BY <1>1 DEF Tally
  <1> QED
    BY <1>2, <1>3, <1>4

\* Steps that change none of these leave the tally alone.
TallyFrame ==
    /\ UNCHANGED <<outs, next, res>>
    /\ \/ replay = "none" /\ replay' = "none"
       \/ UNCHANGED <<replay, pending>>

\* While slots are being filled nothing is collected.
LEMMA NothingYet ==
    ASSUME next = 1, replay = "none"
    PROVE  (\A kinds : Tally(kinds) = 0) /\ Answered = {}
  <1>1. ASSUME NEW kinds PROVE Tally(kinds) = 0
    <2>1. {i \in 1..(next - 1) : outs[i] \in kinds} = {}
      BY SMT
    <2> QED
      BY <2>1, FS_EmptySet DEF Tally
  <1>2. Answered = {}
    BY DEF Answered
  <1> QED
    BY <1>1, <1>2

\* What no merged outcome is, is not counted.
LEMMA NoneOfThem ==
    ASSUME NEW kinds, pending \notin kinds, \A i \in 1..(next - 1) : outs[i] \notin kinds
    PROVE  Tally(kinds) = 0
  <1>1. {i \in 1..(next - 1) : outs[i] \in kinds} = {}
    OBVIOUS
  <1>2. Cardinality({i \in 1..(next - 1) : outs[i] \in kinds}) = 0
    BY <1>1, FS_EmptySet
  <1> QED
    BY <1>2 DEF Tally

LEMMA EvidenceInit == Init => EvidenceAddsUp
  <1> SUFFICES ASSUME Init PROVE EvidenceAddsUp
    OBVIOUS
  <1>1. next = 1 /\ replay = "none" /\ res = EmptyResult
    BY DEF Init
  <1> QED
    BY <1>1, NothingYet DEF EvidenceAddsUp, EmptyResult

LEMMA EvidenceStep ==
    Inv /\ EvidenceAddsUp /\ [Next]_vars => EvidenceAddsUp'
  <1> SUFFICES ASSUME Inv, EvidenceAddsUp, [Next]_vars PROVE EvidenceAddsUp'
    OBVIOUS
  <1>1. ASSUME TallyFrame PROVE EvidenceAddsUp'
    <2>1. \A kinds : Tally(kinds)' = Tally(kinds)
      BY <1>1 DEF TallyFrame, Tally
    <2>2. Answered' = Answered
      BY <1>1 DEF TallyFrame, Answered
    <2> QED
      BY <1>1, <2>1, <2>2 DEF TallyFrame, EvidenceAddsUp
  <1>2. CASE Bookkeeping
    BY <1>1, <1>2, BookkeepingFrame DEF TallyFrame
  <1>3. ASSUME NEW i \in Slots, NEW oc \in Outcomes, Fills(i, oc)
        PROVE  EvidenceAddsUp'
    <2>1. next = 1 /\ replay = "none" /\ UNCHANGED <<next, replay, res>>
      BY <1>3 DEF Fills, Inv, Ordered, TypeInv, Control
    <2>2. ASSUME NEW kinds PROVE Tally(kinds) = 0 /\ Tally(kinds)' = 0
      <3>1. /\ {j \in 1..(next - 1) : outs[j] \in kinds} = {}
            /\ {j \in 1..(next' - 1) : outs'[j] \in kinds} = {}
        BY <2>1
      <3> QED
        BY <2>1, <3>1, FS_EmptySet DEF Tally
    <2>3. Answered = {} /\ Answered' = {}
      BY <2>1 DEF Answered
    <2> QED
      BY <2>1, <2>2, <2>3 DEF EvidenceAddsUp
  <1>4. CASE CollectNext
    <2> DEFINE a == outs[next]
    <2>1. /\ next \in Slots /\ a \in Outcomes
          /\ res \in Results /\ res' = Absorb(res, a)
          /\ next' = next + 1 /\ UNCHANGED outs
      BY <1>4, CollectedSlot DEF Inv, TypeInv, TypeOK, CollectNext
    <2>2. \A kinds : Tally(kinds)' = Tally(kinds) + (IF a \in kinds THEN 1 ELSE 0)
      BY <1>4, TallyCollect DEF Inv
    <2>3. /\ res'.requests = Tally(Outcomes)'
          /\ res'.transport = Tally({NoResponse})'
          /\ res'.oversize = Tally(OversizeBodies)'
          /\ res'.observed = Tally(OversizeBodies \cup Responses)'
          /\ \A f \in Fingerprints :
                res'.groups[f] = Tally({oc \in Responses : FingerprintOf(oc) = f})'
      BY <2>1, <2>2, MergeCounts, AbsorbEffect DEF EvidenceAddsUp
    <2>4. res'.baseline = IF res.baseline = 0 /\ a.kind # "error"
                          THEN a.status ELSE res.baseline
      BY <2>1, MergeType, MergeEffect DEF Absorb, Results
    <2>5. Answered' = IF a.kind # "error" THEN Answered \cup {next} ELSE Answered
      BY <2>1, NAssumption DEF Answered, Slots
    <2>6. \A i \in Answered : i \in Slots /\ i < next
      BY <2>1, NAssumption DEF Answered, Slots
    <2>7. \A i \in Answered : outs[i].status # 0
      <3>1. \A i \in Answered : outs[i] \in Outcomes /\ outs[i].kind # "error"
        BY <2>6 DEF Inv, Ordered, TypeInv, TypeOK, Answered
      <3> QED
        BY <3>1, OutcomeKinds, FingerprintsAssumption DEF Statuses
    <2>8. CASE Answered = {}
      <3>1. res.baseline = 0
        BY <2>8 DEF EvidenceAddsUp
      <3>2. \/ Answered' = {} /\ res'.baseline = 0
            \/ Answered' = {next} /\ res'.baseline = outs'[next].status
        BY <2>1, <2>4, <2>5, <2>8, <3>1
      <3> QED
        BY <2>1, <2>3, <3>2 DEF EvidenceAddsUp, Slots
    <2>9. CASE Answered # {}
      <3>1. PICK i \in Answered : /\ \A j \in Answered : i <= j
                                  /\ res.baseline = outs[i].status
        BY <2>9 DEF EvidenceAddsUp
      <3>2. i \in Answered' /\ \A j \in Answered' : i <= j
        BY <2>1, <2>5, <2>6, <3>1 DEF Slots
      <3>3. res'.baseline = outs'[i].status
        BY <2>1, <2>4, <2>7, <3>1
      <3> QED
        BY <2>3, <3>2, <3>3 DEF EvidenceAddsUp
    <2> QED
      BY <2>8, <2>9
  <1>5. CASE ReplayAttempt \/ RetryReplay
    <2>1. replay = "none" /\ UNCHANGED <<outs, next, res, replay>>
      BY <1>5 DEF Inv, TypeInv, Control, ReplayAttempt, RetryReplay
    <2> QED
      BY <1>1, <2>1 DEF TallyFrame
  <1>6. CASE MergeReplay
    <2>1. /\ pending \in Outcomes /\ res \in Results
          /\ res' = Merge(res, pending) /\ UNCHANGED <<outs, next, pending>>
      BY <1>6 DEF Inv, TypeInv, TypeOK, Control, MergeReplay
    <2>2. \A kinds :
             Tally(kinds)' = Tally(kinds) + (IF pending \in kinds THEN 1 ELSE 0)
      BY <1>6, TallyMerge DEF Inv
    <2>3. res'.baseline = res.baseline /\ Answered' = Answered
      BY <2>1, MergeEffect DEF Answered
    <2> QED
      BY <2>1, <2>2, <2>3, MergeCounts DEF EvidenceAddsUp
  <1> QED
    BY <1>2, <1>3, <1>4, <1>5, <1>6, StepCases, FillingSteps

\* What the report prints adds up: every slot and the final replay answer is
\* counted once, and the baseline is the first slot with a status.
THEOREM EvidenceCounted == Spec => []EvidenceAddsUp
  BY Invariance, EvidenceInit, EvidenceStep, PTL DEF Spec

=============================================================================
