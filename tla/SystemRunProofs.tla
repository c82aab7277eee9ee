-------------------------- MODULE SystemRunProofs --------------------------
(***************************************************************************)
(* Theorems about SystemRun, for every number of requests, of replay       *)
(* attempts and of faults, and for both endpoints.                         *)
(*                                                                         *)
(* Every step the system makes of the check is a step of SameKeyCheck, or  *)
(* starts it again, so that the invariant of SameKeyCheckProofs holds of   *)
(* both runs (CheckHolds) and its lemmas are cited from there.  The rest   *)
(* of the invariant is about what the check alone does not have:           *)
(*                                                                         *)
(*   Wired        what is in flight is awaited                             *)
(*   Budget       each transmission belongs to a request or to a fault     *)
(*   Endpoints    the handlers, the orders and the answers                 *)
(*   Genuine      a 2xx the check received names an order                  *)
(*   Traced, Few  where the orders of the first run come from              *)
(*   OneByOne, Undisturbed, Second        a quiet network                  *)
(*                                                                         *)
(* SysInv is their conjunction; the theorems follow from it.               *)
(***************************************************************************)
EXTENDS SystemRun, FiniteSetTheorems, TLAPS

CheckProofs == INSTANCE SameKeyCheckProofs WITH
            Bodies <- OrderIds \cup {0},
            Fingerprints <- Answers201 \cup {<<500, 0>>, Busy503}

-----------------------------------------------------------------------------
(* The check, as a component.                                              *)

\* The answers the check may get satisfy what SameKeyCheck assumes.
LEMMA CheckAssumptions ==
    /\ N \in Nat \ {0}
    /\ MaxAttempts \in Nat \ {0}
    /\ Transient \subseteq 100..599
    /\ Answers201 \cup {<<500, 0>>, Busy503} \subseteq (100..599) \X (OrderIds \cup {0})
  BY NAssumption, MaxAttemptsAssumption, TransientAssumption
     DEF Answers201, Busy503

CheckInv == CheckProofs!Inv /\ CheckProofs!EvidenceAddsUp

LEMMA CheckStarts == Check!Init => CheckInv
  <1> SUFFICES ASSUME Check!Init PROVE CheckInv
    OBVIOUS
  <1>1. CheckProofs!Init
    BY DEF Check!Init, CheckProofs!Init, Check!Slots, CheckProofs!Slots,
           Check!Unsent, CheckProofs!Unsent, Check!EmptyResult,
           CheckProofs!EmptyResult
  <1>2. CheckProofs!InvComplete
    BY <1>1, CheckAssumptions, CheckProofs!InitInv
  <1>3. CheckProofs!EvidenceAddsUp
    BY <1>1, CheckAssumptions, CheckProofs!EvidenceInit
  <1> QED
    BY <1>2, <1>3 DEF CheckInv, CheckProofs!InvComplete

LEMMA CheckContinues ==
    CheckInv /\ [CheckProofs!Next]_(CheckProofs!vars) => CheckInv'
  <1> SUFFICES ASSUME CheckInv, [CheckProofs!Next]_(CheckProofs!vars)
               PROVE  CheckInv'
    OBVIOUS
  <1>1. CheckProofs!TypeInv'
    BY CheckAssumptions, CheckProofs!NextType DEF CheckInv, CheckProofs!Inv
  <1>2. CheckProofs!Sound'
    BY CheckAssumptions, CheckProofs!SoundStep DEF CheckInv, CheckProofs!Inv
  <1>3. CheckProofs!Ordered'
    BY CheckAssumptions, CheckProofs!OrderedStep DEF CheckInv, CheckProofs!Inv
  <1>4. CheckProofs!Counted'
    BY CheckAssumptions, CheckProofs!CountedStep DEF CheckInv, CheckProofs!Inv
  <1>5. CheckProofs!Decided'
    BY CheckAssumptions, CheckProofs!DecidedStep DEF CheckInv, CheckProofs!Inv
  <1>6. CheckProofs!EvidenceAddsUp'
    BY CheckAssumptions, CheckProofs!EvidenceStep DEF CheckInv
  <1> QED
    BY <1>1, <1>2, <1>3, <1>4, <1>5, <1>6 DEF CheckInv, CheckProofs!Inv

-----------------------------------------------------------------------------
(* The invariant.                                                          *)

Heard201(oc) == oc.kind = "response" /\ Check!Success(oc.status)
Past == pc \in {"replay", "classify", "evaluate", "done"}
SlotFailed == \E i \in Check!Slots : outs[i].kind = "error"
Untouched == Past /\ \A i \in Check!Slots : ~Heard201(outs[i])

\* What is in flight is awaited, and each request has a transmission of its own.
Wired ==
    /\ sent \in Nat
    /\ flight \in [Calls -> Nat]
    /\ faults \in 0..FaultBound
    /\ \A i \in Calls : flight[i] <= sent
    /\ \A i \in Calls : flight[i] # 0 => Wants(i)
    /\ \A i, j \in Calls : i # j /\ flight[i] # 0 => flight[i] # flight[j]
    /\ pc \in {"gate", "burst"} => concurrent

\* Every transmission is accounted for: by a request of the check, by a replay
\* attempt, or by a fault.
Begun == {i \in Check!Slots : outs[i] # Check!Unsent \/ flight[i] # 0}
Budget ==
    sent <= Cardinality(Begun) + attempts + (IF flight[Replay] # 0 THEN 1 ELSE 0)
            + faults

\* The two endpoints.
UnsafeType ==
    /\ hpc \in [Transmissions -> {"none", "check", "work", "save", "write", "done"}]
    /\ id \in [Transmissions -> Nat]
    /\ saved \in Nat /\ nextID \in Nat
    /\ orders \subseteq 1..nextID
    /\ answer \in [Transmissions -> {Safe!Unanswered} \cup [status : {201}, by : Nat]]
    /\ accepted \in [{"key"} -> Nat]
    /\ endpoint \in {"safe", "unsafe"} /\ run \in {1, 2}

UnsafeHandlers ==
    /\ \A t \in Transmissions :
          /\ hpc[t] = "none" <=> t > sent
          /\ hpc[t] = "done" <=> answer[t] # Safe!Unanswered
          /\ hpc[t] \in {"save", "write", "done"} => id[t] \in orders
          /\ hpc[t] \in {"write", "done"} => saved # 0
          /\ hpc[t] = "done" => answer[t] = Safe!Order(id[t])
    /\ saved # 0 => saved \in orders

SafeHandlers ==
    \A t \in Transmissions : answer[t] # Safe!Unanswered =>
        accepted["key"] # 0 /\ answer[t] = Safe!Order(accepted["key"])

Endpoints ==
    /\ UnsafeType
    /\ endpoint = "unsafe" => UnsafeHandlers
    /\ endpoint = "safe" => SafeHandlers

\* The 2xx answers the check received came from the endpoint.
Genuine ==
    \A f \in answers : Check!Success(f[1]) =>
        /\ f[1] = 201
        /\ f[2] \in Created
        /\ endpoint = "unsafe" => saved # 0

\* Where the orders of the first run come from.
InFlight(t) == \E i \in Check!Slots : flight[i] = t
Got(b) == \E i \in Check!Slots : Heard201(outs[i]) /\ outs[i].body = b
Traced ==
    endpoint = "unsafe" /\ run = 1 /\ ~resent =>
        /\ \A t \in Transmissions :
              /\ hpc[t] = "check" => InFlight(t) \/ SlotFailed \/ Past
              /\ hpc[t] \in {"work", "save"} => InFlight(t) \/ SlotFailed \/ Untouched
        /\ \A b \in orders :
              \/ Got(b) \/ SlotFailed \/ Untouched
              \/ \E t \in Transmissions :
                    InFlight(t) /\ hpc[t] \in {"save", "done"} /\ id[t] = b

\* As long as no slot was answered by the endpoint, only replays reach it.
Few ==
    endpoint = "unsafe" /\ run = 1 /\ ~resent =>
        /\ \A b \in orders : \E t \in Transmissions :
              hpc[t] \in {"save", "done"} /\ id[t] = b
        /\ \/ \E i \in Check!Slots : flight[i] # 0 \/ Heard201(outs[i]) \/ outs[i].kind = "error"
           \/ sent <= attempts + (IF flight[Replay] # 0 THEN 1 ELSE 0)

\* On a quiet network a sequential check has one handler at a time.
OneByOne ==
    endpoint = "unsafe" /\ Quiet /\ ~concurrent =>
        /\ \A t \in Transmissions :
              hpc[t] \in {"check", "work", "save", "write"} =>
                  \E i \in Calls : flight[i] = t
        /\ \A t \in Transmissions : hpc[t] = "work" => orders = {}
        /\ \A t \in Transmissions : hpc[t] = "save" => orders = {id[t]}
        /\ \/ orders \subseteq {saved}
           \/ \E t \in Transmissions : hpc[t] = "save"

\* On a quiet network every request is answered with an order.
Served(oc) == oc = Check!Unsent \/ Heard201(oc)
Undisturbed ==
    /\ resent => faults > 0
    /\ ctxDone => cancelled
    /\ Quiet =>
          /\ \A f \in answers : Check!Success(f[1])
          /\ \A i \in Check!Slots : Served(outs[i])
          /\ Served(pending)
          /\ replay \in {"none", "confirmed"}
          /\ pc # "aborted"
          /\ pc \notin {"gate", "send", "burst"} =>
                \A i \in Check!Slots : outs[i] # Check!Unsent

\* The second run meets an endpoint that has saved the key.
Second ==
    /\ run = 1 => before = 0
    /\ Quiet /\ run = 2 =>
          /\ before = Cardinality(Created)
          /\ endpoint = "safe" => accepted["key"] # 0
          /\ endpoint = "unsafe" =>
                /\ saved # 0
                /\ \A t \in Transmissions :
                      /\ hpc[t] \notin {"work", "save"}
                      /\ hpc[t] \in {"write", "done"} => id[t] = saved
                /\ \A f \in answers : Check!Success(f[1]) => f[2] = saved
\* The definitions of the two instances are the same.
LEMMA SameOperators ==
    /\ Check!vars = CheckProofs!vars
    /\ Check!Slots = CheckProofs!Slots
    /\ Check!Unsent = CheckProofs!Unsent
    /\ Check!Outcomes = CheckProofs!Outcomes
    /\ Check!NoResponse = CheckProofs!NoResponse
    /\ \A c : Check!DoOutcomes(c) = CheckProofs!DoOutcomes(c)
    /\ Check!FinalAttempt <=> CheckProofs!FinalAttempt
    /\ Check!MoreToCollect <=> CheckProofs!MoreToCollect
    /\ Check!Finished <=> CheckProofs!Finished
  <1>1. /\ Check!Unsent = CheckProofs!Unsent
        /\ Check!Outcomes = CheckProofs!Outcomes
        /\ Check!NoResponse = CheckProofs!NoResponse
        /\ Check!Slots = CheckProofs!Slots
        /\ Check!vars = CheckProofs!vars
    BY DEF Check!Outcomes, CheckProofs!Outcomes, Check!Responses,
           CheckProofs!Responses, Check!OversizeBodies,
           CheckProofs!OversizeBodies, Check!Statuses, CheckProofs!Statuses,
           Check!NoResponse, CheckProofs!NoResponse, Check!Unsent,
           CheckProofs!Unsent, Check!Slots, CheckProofs!Slots, Check!vars,
           CheckProofs!vars
  <1>2. /\ Check!FinalAttempt <=> CheckProofs!FinalAttempt
        /\ Check!Finished <=> CheckProofs!Finished
    BY DEF Check!FinalAttempt, CheckProofs!FinalAttempt, Check!Conclusive,
           CheckProofs!Conclusive, Check!IsTransient, CheckProofs!IsTransient,
           Check!BudgetSpent, CheckProofs!BudgetSpent, Check!Finished,
           CheckProofs!Finished
  <1>3. Check!MoreToCollect <=> CheckProofs!MoreToCollect
    BY <1>1 DEF Check!MoreToCollect, CheckProofs!MoreToCollect
  <1>4. \A c : Check!DoOutcomes(c) = CheckProofs!DoOutcomes(c)
    BY <1>1 DEF Check!DoOutcomes, CheckProofs!DoOutcomes
  <1> QED
    BY <1>1, <1>2, <1>3, <1>4

\* Each step the system makes of the check is one of the check.
LEMMA GetsIsCheck ==
    ASSUME NEW i \in Calls, NEW oc, Gets(i, oc)
    PROVE  CheckProofs!Next
  <1> USE SameOperators
  <1>1. CASE i = Replay
    <2>1. CheckProofs!ReplayAttempt
      BY <1>1 DEF Gets, Check!ReplayAttempt, CheckProofs!ReplayAttempt,
         Check!Receive, CheckProofs!Receive, Check!FingerprintOf,
         CheckProofs!FingerprintOf
    <2> QED
      BY <2>1 DEF CheckProofs!Next, CheckProofs!Engine
  <1>2. CASE i # Replay
    <2>1. i \in CheckProofs!Slots
      BY <1>2, NAssumption DEF Calls, Replay, CheckProofs!Slots
    <2>2. CheckProofs!SendNext(i) \/ CheckProofs!WorkerAnswers(i)
      BY <1>2 DEF Gets, Check!SendNext, CheckProofs!SendNext,
         Check!WorkerAnswers, CheckProofs!WorkerAnswers, Check!Receive,
         CheckProofs!Receive, Check!FingerprintOf, CheckProofs!FingerprintOf
    <2> QED
      BY <2>1, <2>2 DEF CheckProofs!Next, CheckProofs!Engine
  <1> QED
    BY <1>1, <1>2

LEMMA EngineIsCheck == Engine \/ Cancel => CheckProofs!Next
  <1> USE SameOperators DEF CheckProofs!Next, CheckProofs!Engine
  <1>1. CASE Check!StopSending
    BY <1>1 DEF Check!StopSending, CheckProofs!StopSending
  <1>2. CASE Check!OpenGate
    BY <1>2 DEF Check!OpenGate, CheckProofs!OpenGate
  <1>3. CASE Check!AbortAtGate
    BY <1>3 DEF Check!AbortAtGate, CheckProofs!AbortAtGate
  <1>4. CASE Check!BurstComplete
    BY <1>4 DEF Check!BurstComplete, CheckProofs!BurstComplete
  <1>5. CASE Check!CollectNext
    BY <1>5 DEF Check!CollectNext, CheckProofs!CollectNext, Check!Absorb,
       CheckProofs!Absorb, Check!Merge, CheckProofs!Merge, Check!CountIn,
       CheckProofs!CountIn, Check!FingerprintOf, CheckProofs!FingerprintOf
  <1>6. CASE Check!CollectDone
    BY <1>6 DEF Check!CollectDone, CheckProofs!CollectDone
  <1>7. CASE Check!DecideReplay
    BY <1>7 DEF Check!DecideReplay, CheckProofs!DecideReplay,
       Check!NeedsReplay, CheckProofs!NeedsReplay, Check!BaselineRejected,
       CheckProofs!BaselineRejected, Check!TransientSeen,
       CheckProofs!TransientSeen, Check!Seen, CheckProofs!Seen, Check!Success,
       CheckProofs!Success, Check!IsTransient, CheckProofs!IsTransient
  <1>8. CASE Check!RetryReplay
    BY <1>8 DEF Check!RetryReplay, CheckProofs!RetryReplay
  <1>9. CASE Check!MergeReplay
    BY <1>9 DEF Check!MergeReplay, CheckProofs!MergeReplay, Check!Merge,
       CheckProofs!Merge, Check!CountIn, CheckProofs!CountIn,
       Check!FingerprintOf, CheckProofs!FingerprintOf, Check!ClassifyReplay,
       CheckProofs!ClassifyReplay, Check!Success, CheckProofs!Success,
       Check!IsTransient, CheckProofs!IsTransient
  <1>10. CASE Check!Evaluate
    BY <1>10 DEF Check!Evaluate, CheckProofs!Evaluate, Check!EvaluateSameKey,
       CheckProofs!EvaluateSameKey, Check!Diverged, CheckProofs!Diverged,
       Check!SuccessBodies, CheckProofs!SuccessBodies, Check!Seen,
       CheckProofs!Seen, Check!Success, CheckProofs!Success,
       Check!TransientSeen, CheckProofs!TransientSeen, Check!UnknownSeen,
       CheckProofs!UnknownSeen, Check!IsTransient, CheckProofs!IsTransient
  <1>11. CASE Check!DeadlinePasses
    BY <1>11 DEF Check!DeadlinePasses, CheckProofs!DeadlinePasses
  <1>12. CASE Cancel
    BY <1>12 DEF Cancel, Check!Cancel, CheckProofs!Cancel
  <1> QED
    BY <1>1, <1>2, <1>3, <1>4, <1>5, <1>6, <1>7, <1>8, <1>9, <1>10, <1>11,
       <1>12 DEF Engine

\* The system's steps, one by one.
LEMMA StepCases ==
    ASSUME [Next]_vars
    PROVE  \/ \E i \in Calls : Transmit(i)
           \/ \E i \in Calls : Receive(i)
           \/ \E i \in Calls : Fail(i)
           \/ \E i \in Calls : Throttle(i)
           \/ \E i \in Calls : Resend(i)
           \/ \E t \in Transmissions : Serve(t)
           \/ Engine \/ Cancel \/ RunAgain \/ UNCHANGED vars
  BY DEF Next, Over

\* The check goes on, or starts again.
LEMMA CheckStep == CheckInv /\ [Next]_vars => CheckInv' \/ Check!Init'
  <1> SUFFICES ASSUME CheckInv, [Next]_vars PROVE CheckInv' \/ Check!Init'
    OBVIOUS
  <1>1. ASSUME NEW i \in Calls, Transmit(i) \/ Resend(i)
        PROVE  UNCHANGED CheckProofs!vars
    BY <1>1 DEF Transmit, Resend, check, CheckProofs!vars
  <1>2. ASSUME NEW i \in Calls, Receive(i) \/ Fail(i) \/ Throttle(i)
        PROVE  CheckProofs!Next
    BY <1>2, GetsIsCheck DEF Receive, Fail, Throttle
  <1>3. ASSUME NEW t \in Transmissions, Serve(t)
        PROVE  UNCHANGED CheckProofs!vars
    BY <1>3 DEF Serve, check, CheckProofs!vars
  <1>4. ASSUME RunAgain PROVE Check!Init'
    <2>1. concurrent \in BOOLEAN
      BY DEF CheckInv, CheckProofs!Inv, CheckProofs!TypeInv, CheckProofs!TypeOK
    <2> QED
      BY <1>4, <2>1 DEF RunAgain, Check!Init
  <1>5. ASSUME UNCHANGED vars PROVE UNCHANGED CheckProofs!vars
    BY <1>5 DEF vars, check, CheckProofs!vars
  <1> QED
    BY <1>1, <1>2, <1>3, <1>4, <1>5, EngineIsCheck, StepCases, CheckContinues

\* What is proved of one check holds of both runs.
LEMMA CheckHolds == Spec => []CheckInv
  <1>1. Init => Check!Init
    BY DEF Init
  <1> QED
    BY <1>1, CheckStarts, CheckStep, PTL DEF Spec

\* What the proofs below use of it.
LEMMA CheckFacts ==
    ASSUME CheckInv
    PROVE  /\ Check!TypeOK
           /\ pc = "replay" => attempts < MaxAttempts
           /\ pc = "classify" => pending \in Check!Outcomes
           /\ pc \notin {"evaluate", "done", "aborted"} => replay = "none"
           /\ (verdict # "none") <=> (pc = "done")
           /\ \A i \in Check!Slots :
                 outs[i].kind = "response" => <<outs[i].status, outs[i].body>> \in answers
           /\ \A i \in Check!Slots : \A j \in Check!Slots :
                 pc # "burst" /\ j < i /\ outs[i] # Check!Unsent => outs[j] # Check!Unsent
  <1>1. Check!TypeOK
    BY SameOperators
       DEF CheckInv, CheckProofs!Inv, CheckProofs!TypeInv, CheckProofs!TypeOK,
           Check!TypeOK, Check!Results, CheckProofs!Results, Check!Statuses,
           CheckProofs!Statuses, Check!Verdicts, CheckProofs!Verdicts,
           Check!Replays, CheckProofs!Replays
  <1>2. /\ pc = "replay" => attempts < MaxAttempts
        /\ pc = "classify" => pending \in Check!Outcomes
        /\ pc \notin {"evaluate", "done", "aborted"} => replay = "none"
        /\ (verdict # "none") <=> (pc = "done")
    BY <1>1, SameOperators DEF CheckInv, CheckProofs!Inv, CheckProofs!TypeInv,
       CheckProofs!Control, Check!TypeOK
  <1>3. \A i \in Check!Slots :
           outs[i].kind = "response" => <<outs[i].status, outs[i].body>> \in answers
    BY SameOperators DEF CheckInv, CheckProofs!Inv, CheckProofs!Sound,
       CheckProofs!FingerprintOf
  <1>4. \A i \in Check!Slots : \A j \in Check!Slots :
           pc # "burst" /\ j < i /\ outs[i] # Check!Unsent => outs[j] # Check!Unsent
    BY SameOperators DEF CheckInv, CheckProofs!Inv, CheckProofs!Ordered
  <1> QED
    BY <1>1, <1>2, <1>3, <1>4

-----------------------------------------------------------------------------
(* The steps.                                                              *)

LEMMA CallsAre ==
    /\ Calls = {Replay} \cup Check!Slots /\ Replay \notin Check!Slots
    /\ IsFiniteSet(Check!Slots) /\ Cardinality(Check!Slots) = N
    /\ Check!Slots \subseteq Nat
  <1>1. IsFiniteSet(1..N) /\ Cardinality(1..N) = N
    BY NAssumption, FS_Interval
  <1> QED
    BY <1>1, NAssumption DEF Calls, Replay, Check!Slots

\* What the check does with an answer.
LEMMA GetsEffect ==
    ASSUME CheckInv, NEW i \in Calls, NEW oc, Gets(i, oc)
    PROVE  /\ flight' = [flight EXCEPT ![i] = 0]
           /\ oc \in Check!Outcomes
           /\ answers' = answers \cup (IF oc.kind = "response"
                                       THEN {<<oc.status, oc.body>>} ELSE {})
           /\ UNCHANGED <<concurrent, next, res, replay, ctxDone, late, verdict>>
           /\ i = Replay =>
                 /\ pc = "replay" /\ pc' = "classify"
                 /\ attempts' = attempts + 1 /\ pending' = oc
                 /\ UNCHANGED outs
           /\ i # Replay =>
                 /\ i \in Check!Slots
                 /\ pc \in {"send", "burst"} /\ outs[i] = Check!Unsent
                 /\ outs' = [outs EXCEPT ![i] = oc]
                 /\ UNCHANGED <<pc, pending, attempts>>
  <1>1. outs \in [Check!Slots -> Check!Outcomes \cup {Check!Unsent}]
    BY CheckFacts DEF Check!TypeOK
  <1>2. CASE i = Replay
    BY <1>2 DEF Gets, Check!ReplayAttempt, Check!DoOutcomes, Check!Receive,
       Check!FingerprintOf, Check!Outcomes
  <1>3. CASE i # Replay
    <2>1. i \in Check!Slots
      BY <1>3, CallsAre
    <2>2. PICK o \in Check!Outcomes :
             /\ outs' = [outs EXCEPT ![i] = o]
             /\ Check!Receive(o)
             /\ UNCHANGED <<concurrent, pc, next, res, pending, attempts, replay,
                            ctxDone, late, verdict>>
             /\ pc \in {"send", "burst"} /\ outs[i] = Check!Unsent
      BY <1>3 DEF Gets, Check!SendNext, Check!WorkerAnswers, Check!DoOutcomes,
         Check!Outcomes
    <2>3. o = oc
      BY <1>1, <1>3, <2>1, <2>2 DEF Gets
    <2> QED
      BY <1>3, <2>1, <2>2, <2>3 DEF Gets, Check!Receive, Check!FingerprintOf
  <1> QED
    BY <1>2, <1>3

\* What the engine does by itself touches neither slots nor answers.
LEMMA EngineFrame ==
    ASSUME Engine
    PROVE  /\ UNCHANGED <<concurrent, outs, attempts, ctxDone, answers, api, wire,
                          about>>
           /\ pending' \in {pending, Check!Unsent}
           /\ Past => Past'
           /\ pc = "replay" => pc' = pc
           /\ pc' \in {"gate", "burst"} => pc \in {"gate", "burst"}
           /\ \/ pc \notin {"send", "burst"} \/ pc' = pc
              \/ pc = "send" /\ ctxDone
              \/ \A i \in Check!Slots : outs[i] # Check!Unsent
  BY DEF Engine, Check!StopSending, Check!OpenGate, Check!AbortAtGate,
     Check!BurstComplete, Check!CollectNext, Check!CollectDone,
     Check!DecideReplay, Check!RetryReplay, Check!MergeReplay, Check!Evaluate,
     Check!DeadlinePasses, Past
-----------------------------------------------------------------------------
(* What is in flight.                                                      *)

\* Only one request of the check is wanted at a time, but in a burst.
LEMMA OneWanted ==
    ASSUME Wired, pc # "burst", NEW i \in Calls, NEW j \in Calls,
           flight[i] # 0, Wants(j)
    PROVE  i = j
  <1>1. Wants(i)
    BY DEF Wired
  <1> QED
    BY <1>1, CallsAre DEF Wants, Check!Slots

LEMMA WiredInit == Init => Wired
  BY FaultsAssumption DEF Init, Check!Init, Wired, FaultBound, Calls

LEMMA WiredStep == CheckInv /\ Wired /\ [Next]_vars => Wired'
  <1> SUFFICES ASSUME CheckInv, Wired, [Next]_vars PROVE Wired'
    OBVIOUS
  <1>1. ASSUME NEW i \in Calls, Transmit(i) \/ Resend(i) PROVE Wired'
    <2>1. /\ flight' = [flight EXCEPT ![i] = sent + 1] /\ sent' = sent + 1
          /\ Wants(i) /\ UNCHANGED check
          /\ faults' = faults \/ (faults < FaultBound /\ faults' = faults + 1)
      BY <1>1 DEF Transmit, Resend, Arrives, Wired
    <2>4. faults' \in 0..FaultBound
      BY <2>1, FaultsAssumption DEF Wired, FaultBound
    <2>2. /\ UNCHANGED <<pc, concurrent, outs, ctxDone>>
      BY <2>1 DEF check
    <2>3. \A j \in Calls : Wants(j)' <=> Wants(j)
      BY <2>2, SameOperators DEF Wants
    <2> QED
      BY <2>1, <2>2, <2>3, <2>4 DEF Wired, FaultBound
  <1>2. ASSUME NEW i \in Calls, NEW oc, Gets(i, oc), UNCHANGED sent,
               faults' \in 0..FaultBound
        PROVE  Wired'
    <2>1. flight' = [flight EXCEPT ![i] = 0] /\ UNCHANGED <<concurrent, ctxDone>>
      BY <1>2, GetsEffect
    <2>2. ASSUME NEW j \in Calls, flight'[j] # 0 PROVE Wants(j)'
      <3>1. j # i /\ flight[j] # 0 /\ Wants(j)
        BY <2>1, <2>2 DEF Wired
      <3>2. Wants(i) /\ pc # "burst" => i = j
        BY <3>1, OneWanted
      <3>3. outs \in [Check!Slots -> Check!Outcomes \cup {Check!Unsent}]
        BY CheckFacts DEF Check!TypeOK
      <3>4. Wants(i)
        <4>1. CASE i = Replay
          BY <1>2, <4>1, GetsEffect DEF Wants
        <4>2. CASE i # Replay
          BY <1>2, <4>2 DEF Gets, Check!SendNext, Check!WorkerAnswers, Wants
        <4> QED
          BY <4>1, <4>2
      <3>5. pc = "burst"
        BY <3>1, <3>2, <3>4
      <3>6. i # Replay /\ j # Replay
        BY <3>1, <3>4, <3>5 DEF Wants
      <3>7. outs'[j] = outs[j] /\ pc' = "burst"
        BY <1>2, <3>1, <3>3, <3>5, <3>6, GetsEffect, CallsAre
      <3> QED
        BY <3>1, <3>6, <3>7 DEF Wants
    <2>3. pc' \in {"gate", "burst"} => pc \in {"gate", "burst"}
      BY <1>2, GetsEffect
    <2> QED
      BY <1>2, <2>1, <2>2, <2>3 DEF Wired, FaultBound
  <1>3. ASSUME NEW i \in Calls, Receive(i) PROVE Wired'
    BY <1>2, <1>3 DEF Receive, Wired
  <1>4. ASSUME NEW i \in Calls, Fail(i) PROVE Wired'
    <2>1. faults' \in 0..FaultBound
      BY <1>4, FaultsAssumption DEF Fail, Wired, FaultBound
    <2> QED
      BY <1>2, <1>4, <2>1 DEF Fail
  <1>5. ASSUME NEW i \in Calls, Throttle(i) PROVE Wired'
    <2>1. faults' \in 0..FaultBound
      BY <1>5, FaultsAssumption DEF Throttle, Wired, FaultBound
    <2> QED
      BY <1>2, <1>5, <2>1 DEF Throttle
  <1>6. ASSUME NEW t \in Transmissions, Serve(t) PROVE Wired'
    BY <1>6 DEF Serve, check, wire, Wired, Wants, FaultBound
  <1>7. CASE Engine
    <2>1. UNCHANGED <<concurrent, outs, ctxDone, sent, flight, faults>>
      BY <1>7, EngineFrame DEF wire
    <2>2. ASSUME NEW j \in Calls, flight[j] # 0 PROVE Wants(j)'
      <3>1. Wants(j)
        BY <2>2 DEF Wired
      <3> QED
        BY <1>7, <2>1, <3>1, EngineFrame, CallsAre DEF Wants
    <2>3. pc' \in {"gate", "burst"} => pc \in {"gate", "burst"}
      BY <1>7, EngineFrame
    <2> QED
      BY <2>1, <2>2, <2>3 DEF Wired, FaultBound
  <1>8. CASE Cancel
    <2>1. /\ UNCHANGED <<pc, outs, concurrent, sent, flight, faults>>
          /\ pc = "send" => \A j \in Calls : flight[j] = 0
      BY <1>8 DEF Cancel, Check!Cancel, wire
    <2> QED
      BY <2>1 DEF Wired, Wants, FaultBound
  <1>9. CASE RunAgain
    BY <1>9 DEF RunAgain, Wired, FaultBound, Calls
  <1>10. CASE UNCHANGED vars
    BY <1>10 DEF vars, check, wire, Wired, Wants, FaultBound
  <1> QED
    BY <1>1, <1>3, <1>4, <1>5, <1>6, <1>7, <1>8, <1>9, <1>10, StepCases

-----------------------------------------------------------------------------
(* The number of transmissions.                                            *)

LEMMA BegunFinite ==
    /\ IsFiniteSet(Begun) /\ Cardinality(Begun) \in Nat
    /\ Cardinality(Begun) <= N
  <1>1. Begun \subseteq Check!Slots
    BY DEF Begun
  <1> QED
    BY <1>1, CallsAre, FS_Subset, FS_CardinalityType

\* There are never more transmissions than the bound.
LEMMA SentBound == ASSUME CheckInv, Wired, Budget PROVE sent \in 0..MaxSent
  <1>1. attempts \in Nat /\ attempts <= MaxAttempts
    BY CheckFacts, MaxAttemptsAssumption DEF Check!TypeOK
  <1>2. flight[Replay] # 0 => attempts < MaxAttempts
    BY CallsAre, CheckFacts DEF Wired, Wants
  <1>3. faults \in Nat /\ faults <= MaxFaults
    BY FaultsAssumption DEF Wired, FaultBound
  <1>4. sent \in Nat
    BY DEF Wired
  <1> QED
    BY <1>1, <1>2, <1>3, <1>4, BegunFinite, NAssumption,
       MaxAttemptsAssumption, FaultsAssumption DEF Budget, MaxSent

LEMMA BudgetInit == Init => Budget
  <1> SUFFICES ASSUME Init PROVE Budget
    OBVIOUS
  <1>1. sent = 0 /\ attempts = 0 /\ faults = 0 /\ flight[Replay] = 0
    BY CallsAre DEF Init, Check!Init
  <1> QED
    BY <1>1, BegunFinite DEF Budget

LEMMA BudgetStep == CheckInv /\ Wired /\ Budget /\ [Next]_vars => Budget'
  <1> SUFFICES ASSUME CheckInv, Wired, Budget, [Next]_vars PROVE Budget'
    OBVIOUS
  <1> USE CallsAre
  <1>1. /\ attempts \in Nat /\ sent \in Nat /\ faults \in Nat
        /\ flight \in [Calls -> Nat]
        /\ outs \in [Check!Slots -> Check!Outcomes \cup {Check!Unsent}]
    BY CheckFacts, FaultsAssumption, MaxAttemptsAssumption DEF Check!TypeOK, Wired, FaultBound
  <1>2. ASSUME NEW i \in Check!Slots
        PROVE  /\ Cardinality(Begun \cup {i}) \in Nat
               /\ i \notin Begun => Cardinality(Begun \cup {i}) = Cardinality(Begun) + 1
               /\ Cardinality(Begun \cup {i}) >= Cardinality(Begun)
    <2>1. Cardinality(Begun \cup {i}) =
             IF i \in Begun THEN Cardinality(Begun) ELSE Cardinality(Begun) + 1
      BY BegunFinite, FS_AddElement
    <2> QED
      BY <2>1, BegunFinite
  <1>3. ASSUME NEW i \in Calls, Transmit(i) PROVE Budget'
    <2>1. /\ flight[i] = 0 /\ flight' = [flight EXCEPT ![i] = sent + 1]
          /\ sent' = sent + 1 /\ UNCHANGED <<outs, attempts, faults>>
          /\ Wants(i)
      BY <1>3 DEF Transmit, Arrives, check
    <2>2. CASE i = Replay
      <3>1. Begun' = Begun
        BY <1>1, <2>1, <2>2 DEF Begun
      <3> QED
        BY <1>1, <2>1, <2>2, <3>1, BegunFinite DEF Budget
    <2>3. CASE i # Replay
      <3>1. i \in Check!Slots /\ i \notin Begun
        BY <2>1, <2>3 DEF Wants, Begun
      <3>2. Begun' = Begun \cup {i}
        BY <1>1, <2>1, <3>1 DEF Begun
      <3>3. flight'[Replay] = flight[Replay]
        BY <1>1, <2>1, <2>3
      <3> QED
        BY <1>1, <1>2, <2>1, <3>1, <3>2, <3>3, BegunFinite DEF Budget
    <2> QED
      BY <2>2, <2>3
  <1>4. ASSUME NEW i \in Calls, NEW oc, Gets(i, oc), UNCHANGED sent,
               faults' \in Nat, faults' >= faults
        PROVE  Budget'
    <2>1. CASE i = Replay
      <3>1. /\ attempts' = attempts + 1 /\ UNCHANGED outs
            /\ flight' = [flight EXCEPT ![i] = 0]
        BY <1>4, <2>1, GetsEffect
      <3>2. Begun' = Begun
        BY <1>1, <2>1, <3>1 DEF Begun
      <3> QED
        BY <1>1, <1>4, <2>1, <3>1, <3>2, BegunFinite DEF Budget
    <2>2. CASE i # Replay
      <3>1. /\ i \in Check!Slots
            /\ UNCHANGED attempts /\ outs' = [outs EXCEPT ![i] = oc]
            /\ flight' = [flight EXCEPT ![i] = 0] /\ oc # Check!Unsent
        <4>1. oc \in CheckProofs!Outcomes
          BY <1>4, GetsEffect, SameOperators
        <4>2. oc # Check!Unsent
          BY <4>1, SameOperators, CheckAssumptions, CheckProofs!OutcomeKinds
        <4> QED
          BY <1>4, <2>2, <4>2, GetsEffect
      <3>2. Begun' = Begun \cup {i}
        BY <1>1, <3>1 DEF Begun
      <3>3. flight'[Replay] = flight[Replay]
        BY <1>1, <2>2, <3>1
      <3> QED
        BY <1>1, <1>2, <1>4, <3>1, <3>2, <3>3, BegunFinite DEF Budget
    <2> QED
      BY <2>1, <2>2
  <1>5. ASSUME NEW i \in Calls, Receive(i) \/ Fail(i) \/ Throttle(i)
        PROVE  Budget'
    BY <1>1, <1>4, <1>5 DEF Receive, Fail, Throttle
  <1>6. ASSUME NEW i \in Calls, Resend(i) PROVE Budget'
    <2>1. /\ flight[i] # 0 /\ flight' = [flight EXCEPT ![i] = sent + 1]
          /\ sent' = sent + 1 /\ faults' = faults + 1
          /\ UNCHANGED <<outs, attempts>>
      BY <1>6 DEF Resend, Arrives, check
    <2>2. Begun' = Begun /\ (flight'[Replay] # 0 <=> flight[Replay] # 0)
      BY <1>1, <2>1 DEF Begun
    <2> QED
      BY <1>1, <2>1, <2>2, BegunFinite DEF Budget
  <1>7. ASSUME UNCHANGED <<outs, flight, sent, attempts, faults>> PROVE Budget'
    BY <1>7 DEF Budget, Begun
  <1>8. ASSUME NEW t \in Transmissions, Serve(t) PROVE Budget'
    BY <1>7, <1>8 DEF Serve, check, wire
  <1>9. CASE Engine \/ Cancel
    BY <1>7, <1>9, EngineFrame DEF Cancel, Check!Cancel, wire
  <1>10. CASE RunAgain
    <2>1. /\ sent' = 0 /\ attempts' = 0 /\ faults' = faults
          /\ flight'[Replay] = 0
      BY <1>10 DEF RunAgain
    <2>2. Cardinality(Begun') \in Nat
      <3>1. Begun' \subseteq Check!Slots
        BY DEF Begun
      <3> QED
        BY <3>1, FS_Subset, FS_CardinalityType
    <2> QED
      BY <1>1, <2>1, <2>2 DEF Budget
  <1>11. CASE UNCHANGED vars
    BY <1>7, <1>11 DEF vars, check, wire
  <1> QED
    BY <1>3, <1>5, <1>6, <1>8, <1>9, <1>10, <1>11, StepCases

-----------------------------------------------------------------------------
(* The endpoints.                                                          *)

\* SentBound, as a predicate.
Bounded == sent \in 0..MaxSent

\* A handler's step, whichever endpoint it is of.
LEMMA ServeCases ==
    ASSUME NEW t \in Transmissions, Serve(t)
    PROVE  /\ t <= sent
           /\ UNCHANGED <<check, wire, about>>
           /\ \/ /\ endpoint = "unsafe" /\ UNCHANGED accepted
                 /\ \/ Unsafe!CheckKey(t) \/ Unsafe!Insert(t)
                    \/ Unsafe!SaveKey(t) \/ Unsafe!WriteOrder(t)
              \/ /\ endpoint = "safe"
                 /\ Safe!Accept(t) \/ Safe!Replay(t)
                 /\ UNCHANGED <<hpc, id, saved, nextID, orders>>
  BY DEF Serve, Unsafe!Handler

\* A transmission that arrives is a new one.
LEMMA ArrivesEffect ==
    ASSUME Wired, Endpoints, Bounded', NEW i \in Calls, Transmit(i) \/ Resend(i)
    PROVE  /\ sent + 1 \in Transmissions /\ sent' = sent + 1
           /\ flight' = [flight EXCEPT ![i] = sent + 1]
           /\ UNCHANGED <<check, about, id, saved, nextID, orders, accepted, answer>>
           /\ endpoint = "unsafe" =>
                 hpc[sent + 1] = "none" /\ hpc' = [hpc EXCEPT ![sent + 1] = "check"]
           /\ endpoint = "safe" => UNCHANGED hpc
           /\ Resend(i) => resent' /\ faults' = faults + 1
           /\ Transmit(i) =>
                 /\ Wants(i) /\ flight[i] = 0 /\ UNCHANGED <<faults, resent>>
  <1>1. sent' = sent + 1 /\ flight' = [flight EXCEPT ![i] = sent + 1]
        /\ UNCHANGED <<check, about>>
    BY DEF Transmit, Resend, Arrives
  <1>2. sent + 1 \in Transmissions
    <2>1. sent + 1 \in 0..MaxSent /\ sent \in Nat
      BY <1>1 DEF Bounded, Wired
    <2> QED
      BY <2>1 DEF Transmissions, MaxSent
  <1> QED
    BY <1>1, <1>2 DEF Transmit, Resend, Arrives, Unsafe!Arrive, Unsafe!Goto, api

LEMMA EndpointsInit == Init => Endpoints
  <1> SUFFICES ASSUME Init PROVE Endpoints
    OBVIOUS
  <1>1. /\ sent = 0 /\ \A t \in Transmissions : t \in Nat \ {0}
        /\ hpc = [t \in Transmissions |-> "none"]
        /\ id = [t \in Transmissions |-> 0]
        /\ answer = [t \in Transmissions |-> Safe!Unanswered]
        /\ saved = 0 /\ nextID = 0 /\ orders = {}
        /\ accepted = [k \in {"key"} |-> 0]
        /\ endpoint \in {"safe", "unsafe"} /\ run = 1
    BY DEF Init, Unsafe!Init, Unsafe!Unanswered, Safe!Unanswered, Transmissions
  <1>2. UnsafeType
    BY <1>1 DEF UnsafeType
  <1>3. UnsafeHandlers /\ SafeHandlers
    BY <1>1 DEF UnsafeHandlers, SafeHandlers
  <1> QED
    BY <1>2, <1>3 DEF Endpoints

LEMMA EndpointsStep ==
    Wired /\ Endpoints /\ Bounded' /\ [Next]_vars => Endpoints'
  <1> SUFFICES ASSUME Wired, Endpoints, Bounded', [Next]_vars PROVE Endpoints'
    OBVIOUS
  <1> USE DEF Endpoints, UnsafeType, UnsafeHandlers, SafeHandlers
  <1>1. ASSUME NEW i \in Calls, Transmit(i) \/ Resend(i) PROVE Endpoints'
    <2>1. /\ sent + 1 \in Transmissions /\ sent' = sent + 1 /\ sent \in Nat
          /\ UNCHANGED <<endpoint, run, id, saved, nextID, orders, accepted, answer>>
          /\ endpoint = "unsafe" =>
                hpc[sent + 1] = "none" /\ hpc' = [hpc EXCEPT ![sent + 1] = "check"]
          /\ endpoint = "safe" => UNCHANGED hpc
      BY <1>1, ArrivesEffect DEF about, Wired
    <2>2. UnsafeType'
      BY <2>1
    <2>3. endpoint = "unsafe" => UnsafeHandlers'
      <3> SUFFICES ASSUME endpoint = "unsafe" PROVE UnsafeHandlers'
        OBVIOUS
      <3>1. \A t \in Transmissions :
               hpc'[t] = IF t = sent + 1 THEN "check" ELSE hpc[t]
        BY <2>1
      <3>2. \A t \in Transmissions : t \in Nat
        BY DEF Transmissions
      <3>3. \A t \in Transmissions :
               /\ hpc'[t] = "none" <=> t > sent'
               /\ hpc'[t] = "done" <=> answer'[t] # Safe!Unanswered
        BY <2>1, <3>1, <3>2
      <3> QED
        BY <2>1, <3>1, <3>3
    <2>4. endpoint = "safe" => SafeHandlers'
      BY <2>1
    <2> QED
      BY <2>1, <2>2, <2>3, <2>4
  <1>2. ASSUME UNCHANGED <<hpc, id, saved, nextID, orders, accepted, answer,
                           endpoint, run, sent>>
        PROVE  Endpoints'
    BY <1>2
  <1>3. ASSUME NEW i \in Calls, Receive(i) \/ Fail(i) \/ Throttle(i)
        PROVE  Endpoints'
    BY <1>2, <1>3 DEF Receive, Fail, Throttle, api, about
  <1>4. ASSUME NEW t \in Transmissions, Serve(t) PROVE Endpoints'
    <2>1. UNCHANGED <<sent, endpoint, run>> /\ t <= sent
      BY <1>4, ServeCases DEF wire, about
    <2> USE DEF Unsafe!Goto, Unsafe!Order, Unsafe!Vanished, Safe!Order,
            Safe!Unanswered
    <2>2. CASE endpoint = "unsafe" /\ UNCHANGED accepted /\ Unsafe!CheckKey(t)
      BY <2>1, <2>2 DEF Unsafe!CheckKey
    <2>3. CASE endpoint = "unsafe" /\ UNCHANGED accepted /\ Unsafe!Insert(t)
      BY <2>1, <2>3 DEF Unsafe!Insert
    <2>4. CASE endpoint = "unsafe" /\ UNCHANGED accepted /\ Unsafe!SaveKey(t)
      BY <2>1, <2>4 DEF Unsafe!SaveKey
    <2>5. CASE endpoint = "unsafe" /\ UNCHANGED accepted /\ Unsafe!WriteOrder(t)
      BY <2>1, <2>5 DEF Unsafe!WriteOrder
    <2>6. CASE /\ endpoint = "safe" /\ Safe!Accept(t)
               /\ UNCHANGED <<hpc, id, saved, nextID, orders>>
      BY <2>1, <2>6 DEF Safe!Accept, Safe!Reply, Safe!KeyOf, Transmissions
    <2>7. CASE /\ endpoint = "safe" /\ Safe!Replay(t)
               /\ UNCHANGED <<hpc, id, saved, nextID, orders>>
      BY <2>1, <2>7 DEF Safe!Replay, Safe!Reply, Safe!KeyOf
    <2> QED
      BY <1>4, <2>2, <2>3, <2>4, <2>5, <2>6, <2>7, ServeCases
  <1>5. CASE Engine
    BY <1>2, <1>5, EngineFrame DEF api, about, wire
  <1>6. CASE Cancel
    BY <1>2, <1>6 DEF Cancel, api, wire
  <1>7. CASE RunAgain
    BY <1>7 DEF RunAgain, Transmissions, Safe!Unanswered
  <1>8. CASE UNCHANGED vars
    BY <1>2, <1>8 DEF vars, api, about, wire
  <1> QED
    BY <1>1, <1>3, <1>4, <1>5, <1>6, <1>7, <1>8, StepCases


-----------------------------------------------------------------------------
(* The answers.                                                            *)

\* A handler that has answered named an order the endpoint has.
LEMMA AnswerIs ==
    ASSUME Wired, Endpoints, Bounded, NEW i \in Calls, flight[i] # 0,
           answer[flight[i]] # Safe!Unanswered
    PROVE  /\ flight[i] \in Transmissions
           /\ Heard201(Outcome(answer[flight[i]]))
           /\ Outcome(answer[flight[i]]).status = 201
           /\ Outcome(answer[flight[i]]).body \in Created
           /\ endpoint = "unsafe" =>
                 /\ hpc[flight[i]] = "done" /\ saved # 0
                 /\ Outcome(answer[flight[i]]).body = id[flight[i]]
           /\ endpoint = "safe" =>
                 Outcome(answer[flight[i]]).body = accepted["key"]
  <1> DEFINE t == flight[i]
  <1>1. t \in Transmissions
    <2>1. t \in Nat /\ t <= sent /\ sent \in 0..MaxSent
      BY DEF Wired, Bounded
    <2>2. MaxSent \in Nat
      BY NAssumption, MaxAttemptsAssumption, FaultsAssumption DEF MaxSent
    <2> QED
      BY <2>1, <2>2 DEF Transmissions
  <1>2. CASE endpoint = "unsafe"
    <2>1. /\ hpc[t] = "done" /\ saved # 0 /\ id[t] \in orders
          /\ answer[t] = [status |-> 201, by |-> id[t]]
      BY <1>1, <1>2 DEF Endpoints, UnsafeHandlers, Safe!Order
    <2> QED
      BY <1>1, <1>2, <2>1 DEF Outcome, Heard201, Check!Success, Created
  <1>3. CASE endpoint = "safe"
    <2>1. /\ accepted["key"] # 0
          /\ answer[t] = [status |-> 201, by |-> accepted["key"]]
      BY <1>1, <1>3 DEF Endpoints, SafeHandlers, Safe!Order
    <2> QED
      BY <1>1, <1>3, <2>1 DEF Outcome, Heard201, Check!Success, Created
  <1> QED
    BY <1>2, <1>3 DEF Endpoints, UnsafeType

\* A request that fails leaves nothing to compare, one that is refused a 503.
LEMMA NotHeard ==
    /\ Check!NoResponse.kind = "error" /\ ~Heard201(Check!NoResponse)
    /\ LET oc == [kind |-> "response", status |-> 503, body |-> 0]
       IN  oc.kind = "response" /\ oc.status = 503 /\ ~Heard201(oc)
  BY DEF Heard201, Check!Success, Check!NoResponse

\* Orders stay, and so does the fact that one is saved.
LEMMA ServeKeeps ==
    ASSUME Endpoints, NEW t \in Transmissions, Serve(t)
    PROVE  /\ UNCHANGED <<check, wire, about>>
           /\ Created \subseteq Created'
           /\ saved # 0 => saved' # 0
           /\ accepted["key"] # 0 => UNCHANGED accepted
  <1>1. CASE endpoint = "unsafe" /\ UNCHANGED accepted
    <2>1. /\ orders \subseteq orders' /\ UNCHANGED <<check, wire, about>>
          /\ saved' = saved \/ (saved' = id[t] /\ id[t] \in orders)
      BY <1>1, ServeCases DEF Endpoints, UnsafeHandlers, Unsafe!CheckKey,
         Unsafe!Insert, Unsafe!SaveKey, Unsafe!WriteOrder
    <2>2. \A b \in orders : b # 0
      BY DEF Endpoints, UnsafeType
    <2> QED
      BY <1>1, <2>1, <2>2 DEF Created, about
  <1>2. CASE endpoint = "safe" /\ UNCHANGED saved
    <2>1. UNCHANGED <<check, wire, about>>
      BY ServeCases
    <2>2. accepted["key"] # 0 => UNCHANGED accepted
      BY <1>2, ServeCases DEF Safe!Accept, Safe!KeyOf, Safe!Replay
    <2> QED
      BY <1>2, <2>1, <2>2 DEF Created, about
  <1> QED
    BY <1>1, <1>2, ServeCases

LEMMA GenuineInit == Init => Genuine
  BY DEF Init, Check!Init, Genuine

LEMMA GenuineStep ==
    /\ CheckInv /\ Wired /\ Endpoints /\ Bounded
    /\ Genuine /\ [Next]_vars
    => Genuine'
  <1> SUFFICES ASSUME CheckInv, Wired, Endpoints, Bounded, Genuine, [Next]_vars
               PROVE  Genuine'
    OBVIOUS
  <1>1. ASSUME answers' \subseteq answers, UNCHANGED endpoint,
               Created \subseteq Created', saved # 0 => saved' # 0
        PROVE  Genuine'
    BY <1>1 DEF Genuine
  <1>2. ASSUME UNCHANGED <<answers, api, endpoint>> PROVE Genuine'
    BY <1>1, <1>2 DEF api, Created
  <1>3. ASSUME NEW i \in Calls, Transmit(i) \/ Resend(i) PROVE Genuine'
    BY <1>1, <1>3 DEF Transmit, Resend, Arrives, Unsafe!Arrive, check, about,
       api, Created
  <1>4. ASSUME NEW i \in Calls, Receive(i) PROVE Genuine'
    <2> DEFINE oc == Outcome(answer[flight[i]])
    <2>1. /\ UNCHANGED <<api, endpoint>>
          /\ answers' = answers \cup {<<oc.status, oc.body>>}
      BY <1>4, GetsEffect DEF Receive, about, Outcome
    <2>2. /\ oc.status = 201 /\ oc.body \in Created
          /\ endpoint = "unsafe" => saved # 0
      BY <1>4, AnswerIs DEF Receive
    <2> QED
      BY <2>1, <2>2 DEF Genuine, api, Created
  <1>5. ASSUME NEW i \in Calls, Fail(i) PROVE Genuine'
    <2>1. UNCHANGED <<api, endpoint, answers>>
      BY <1>5, GetsEffect, NotHeard DEF Fail, about
    <2> QED
      BY <1>2, <2>1
  <1>6. ASSUME NEW i \in Calls, Throttle(i) PROVE Genuine'
    <2>1. UNCHANGED <<api, endpoint>> /\ answers' = answers \cup {<<503, 0>>}
      BY <1>6, GetsEffect DEF Throttle, about
    <2> QED
      BY <2>1 DEF Genuine, api, Created, Check!Success
  <1>7. ASSUME NEW t \in Transmissions, Serve(t) PROVE Genuine'
    BY <1>1, <1>7, ServeKeeps DEF check, about
  <1>8. CASE Engine
    BY <1>2, <1>8, EngineFrame DEF about
  <1>9. CASE Cancel
    BY <1>2, <1>9 DEF Cancel, Check!Cancel
  <1>10. CASE RunAgain
    BY <1>10 DEF RunAgain, Genuine
  <1>11. CASE UNCHANGED vars
    BY <1>2, <1>11 DEF vars, check, about
  <1> QED
    BY <1>3, <1>4, <1>5, <1>6, <1>7, <1>8, <1>9, <1>10, <1>11, StepCases

-----------------------------------------------------------------------------
(* A quiet network.                                                        *)

LEMMA UndisturbedInit == Init => Undisturbed
  BY DEF Init, Check!Init, Undisturbed, Quiet, Served

\* A quiet step begins in a quiet state, and disturbs nothing.
LEMMA QuietStep ==
    ASSUME Wired, Undisturbed, [Next]_vars, Quiet'
    PROVE  /\ Quiet /\ ~resent
           /\ \A i \in Calls : ~Fail(i) /\ ~Throttle(i) /\ ~Resend(i)
           /\ ~Cancel /\ ~ctxDone
  <1>1. faults \in Nat /\ faults' = 0 /\ ~cancelled'
    BY FaultsAssumption DEF Wired, FaultBound, Quiet
  <1>2. \A i \in Calls : Fail(i) \/ Throttle(i) \/ Resend(i) => ctxDone /\ Fail(i)
    BY <1>1 DEF Fail, Throttle, Resend
  <1>3. ~Cancel
    BY <1>1 DEF Cancel
  <1>4. Quiet
    <2>1. UNCHANGED faults \/ faults' = faults + 1
      BY StepCases DEF Transmit, Receive, Fail, Throttle, Resend, Serve, Engine,
         Cancel, RunAgain, vars, wire
    <2>2. UNCHANGED cancelled \/ Cancel
      BY StepCases DEF Transmit, Receive, Fail, Throttle, Resend, Serve, Engine,
         RunAgain, vars, about
    <2> QED
      BY <1>1, <1>3, <2>1, <2>2 DEF Quiet
  <1> QED
    BY <1>1, <1>2, <1>3, <1>4 DEF Undisturbed, Quiet

LEMMA UndisturbedStep ==
    /\ CheckInv /\ Wired /\ Endpoints /\ Bounded
    /\ Undisturbed /\ [Next]_vars
    => Undisturbed'
  <1> SUFFICES ASSUME CheckInv, Wired, Endpoints, Bounded, Undisturbed, [Next]_vars
               PROVE  Undisturbed'
    OBVIOUS
  <1>1. (resent => faults > 0)'
    <2>1. faults \in Nat
      BY FaultsAssumption DEF Wired, FaultBound
    <2>2. faults' = faults + 1 \/ UNCHANGED <<resent, faults>>
      BY StepCases DEF Transmit, Receive, Fail, Throttle, Resend, Serve, Engine,
         Cancel, RunAgain, vars, wire
    <2>3. resent => faults > 0
      BY DEF Undisturbed
    <2>4. CASE faults' = faults + 1
      BY <2>1, <2>4
    <2>5. CASE UNCHANGED <<resent, faults>>
      BY <2>3, <2>5
    <2> QED
      BY <2>2, <2>4, <2>5
  <1>2. (ctxDone => cancelled)'
    <2>1. UNCHANGED ctxDone \/ Cancel \/ RunAgain
      BY StepCases, GetsEffect, EngineFrame DEF Transmit, Receive, Fail, Throttle,
         Resend, Serve, vars, check
    <2>2. cancelled => cancelled'
      BY StepCases, EngineFrame DEF Transmit, Receive, Fail, Throttle, Resend,
         Serve, Cancel, RunAgain, vars, about
    <2> QED
      BY <2>1, <2>2 DEF Undisturbed, Cancel, RunAgain
  <1>3. ASSUME Quiet'
        PROVE  /\ \A f \in answers' : Check!Success(f[1])
               /\ \A i \in Check!Slots : Served(outs'[i])
               /\ Served(pending')
               /\ replay' \in {"none", "confirmed"}
               /\ pc' # "aborted"
               /\ pc' \notin {"gate", "send", "burst"} =>
                     \A i \in Check!Slots : outs'[i] # Check!Unsent
    <2> DEFINE Goal ==
            /\ \A f \in answers' : Check!Success(f[1])
            /\ \A i \in Check!Slots : Served(outs'[i])
            /\ Served(pending')
            /\ replay' \in {"none", "confirmed"}
            /\ pc' # "aborted"
            /\ pc' \notin {"gate", "send", "burst"} =>
                  \A i \in Check!Slots : outs'[i] # Check!Unsent
    <2>1. /\ Quiet /\ ~Cancel /\ ~ctxDone
          /\ \A i \in Calls : ~Fail(i) /\ ~Throttle(i) /\ ~Resend(i)
      BY <1>3, QuietStep
    <2>2. ASSUME UNCHANGED check PROVE Goal
      BY <2>1, <2>2 DEF Undisturbed, check
    <2>3. ASSUME NEW i \in Calls, Receive(i) PROVE Goal
      <3> DEFINE oc == Outcome(answer[flight[i]])
      <3>1. Gets(i, oc) /\ Heard201(oc) /\ oc.kind = "response" /\ Served(oc)
        BY <2>3, AnswerIs DEF Receive, Outcome, Served
      <3>2. \A f \in answers' : Check!Success(f[1])
        <4> HIDE DEF oc
        <4>1. answers' = answers \cup {<<oc.status, oc.body>>}
          BY <3>1, GetsEffect
        <4> QED
          BY <2>1, <3>1, <4>1 DEF Undisturbed, Heard201
      <3>3. outs \in [Check!Slots -> Check!Outcomes \cup {Check!Unsent}]
        BY CheckFacts DEF Check!TypeOK
      <3>4. oc # Check!Unsent
        BY <3>1 DEF Check!Unsent
      <3> HIDE DEF oc
      <3>5. CASE i = Replay
        BY <2>1, <3>1, <3>2, <3>5, GetsEffect DEF Undisturbed
      <3>6. CASE i # Replay
        BY <2>1, <3>1, <3>2, <3>3, <3>6, GetsEffect DEF Undisturbed
      <3> QED
        BY <3>5, <3>6
    <2>4. CASE Engine
      <3>1. /\ UNCHANGED <<outs, answers>> /\ Served(pending')
            /\ pc' # "aborted"
        <4>1. pc' # "aborted"
          BY <2>1, <2>4 DEF Undisturbed, Engine, Check!StopSending,
             Check!OpenGate, Check!AbortAtGate, Check!BurstComplete,
             Check!CollectNext, Check!CollectDone, Check!DecideReplay,
             Check!RetryReplay, Check!MergeReplay, Check!Evaluate,
             Check!DeadlinePasses
        <4> QED
          BY <2>1, <2>4, <4>1, EngineFrame DEF Undisturbed, Served
      <3>2. replay' \in {"none", "confirmed"}
        <4>1. UNCHANGED replay \/ Check!MergeReplay
          BY <2>4 DEF Engine, Check!StopSending, Check!OpenGate,
             Check!AbortAtGate, Check!BurstComplete, Check!CollectNext,
             Check!CollectDone, Check!DecideReplay, Check!RetryReplay,
             Check!Evaluate, Check!DeadlinePasses
        <4>2. CASE Check!MergeReplay
          <5>1. pending \in CheckProofs!Outcomes
            BY <4>2, CheckFacts, SameOperators DEF Check!MergeReplay
          <5>2. pending # CheckProofs!Unsent
            BY <5>1, CheckAssumptions, CheckProofs!OutcomeKinds
          <5>3. Heard201(pending)
            BY <2>1, <5>2, SameOperators DEF Undisturbed, Served
          <5>4. replay' = CheckProofs!ClassifyReplay(pending)
            BY <4>2 DEF Check!MergeReplay, Check!ClassifyReplay,
               CheckProofs!ClassifyReplay, Check!Success, CheckProofs!Success,
               Check!IsTransient, CheckProofs!IsTransient
          <5>5. CheckProofs!ClassifyReplay(pending) = "confirmed"
            BY <5>1, <5>3, CheckAssumptions, CheckProofs!ReplayType
               DEF Heard201, Check!Success, CheckProofs!Success
          <5> QED
            BY <5>4, <5>5
        <4> QED
          BY <2>1, <4>1, <4>2 DEF Undisturbed
      <3>3. pc' \notin {"gate", "send", "burst"} =>
               \A i \in Check!Slots : outs'[i] # Check!Unsent
        BY <2>1, <2>4, <3>1 DEF Undisturbed, Engine, Check!StopSending,
           Check!OpenGate, Check!AbortAtGate, Check!BurstComplete,
           Check!CollectNext, Check!CollectDone, Check!DecideReplay,
           Check!RetryReplay, Check!MergeReplay, Check!Evaluate,
           Check!DeadlinePasses
      <3> QED
        BY <2>1, <3>1, <3>2, <3>3 DEF Undisturbed
    <2>5. CASE RunAgain
      BY <2>5 DEF RunAgain, Served
    <2> QED
      BY <2>1, <2>2, <2>3, <2>4, <2>5, StepCases DEF Transmit, Serve, vars
  <1> QED
    BY <1>1, <1>2, <1>3 DEF Undisturbed

-----------------------------------------------------------------------------
(* A quiet sequential check.                                               *)

\* Only one request of a sequential check is in flight.
LEMMA OneFlight ==
    ASSUME Wired, ~concurrent, NEW i \in Calls, NEW j \in Calls,
           flight[i] # 0, flight[j] # 0
    PROVE  i = j
  <1>1. pc # "burst" /\ Wants(j)
    BY DEF Wired
  <1> QED
    BY <1>1, OneWanted

LEMMA OneByOneInit == Init => OneByOne
  BY DEF Init, Unsafe!Init, OneByOne

LEMMA OneByOneStep ==
    /\ CheckInv /\ Wired /\ Endpoints /\ Bounded /\ Bounded' /\ Undisturbed
    /\ OneByOne /\ [Next]_vars
    => OneByOne'
  <1> SUFFICES ASSUME CheckInv, Wired, Endpoints, Bounded, Bounded',
                      Undisturbed, OneByOne, [Next]_vars,
                      endpoint' = "unsafe", Quiet', ~concurrent'
               PROVE  OneByOne'
    BY DEF OneByOne
  <1>1. UNCHANGED <<endpoint, concurrent>>
    BY StepCases, GetsEffect, EngineFrame DEF Transmit, Receive, Fail, Throttle,
       Resend, Serve, Cancel, Check!Cancel, RunAgain, vars, check, about
  <1>2. /\ endpoint = "unsafe" /\ Quiet /\ ~concurrent
        /\ \A i \in Calls : ~Fail(i) /\ ~Throttle(i) /\ ~Resend(i)
        /\ ~Cancel
    BY <1>1, QuietStep
  <1>3. /\ \A t \in Transmissions :
              hpc[t] \in {"check", "work", "save", "write"} =>
                  \E i \in Calls : flight[i] = t
        /\ \A t \in Transmissions : hpc[t] = "work" => orders = {}
        /\ \A t \in Transmissions : hpc[t] = "save" => orders = {id[t]}
        /\ orders \subseteq {saved} \/ \E t \in Transmissions : hpc[t] = "save"
    BY <1>2 DEF OneByOne
  <1>4. /\ hpc \in [Transmissions -> {"none", "check", "work", "save", "write", "done"}]
        /\ id \in [Transmissions -> Nat]
        /\ flight \in [Calls -> Nat]
        /\ 0 \notin orders
        /\ \A t \in Transmissions : t # 0
    BY DEF Endpoints, UnsafeType, Wired, Transmissions
  <1>5. ASSUME NEW i \in Calls, Transmit(i) PROVE OneByOne'
    <2>1. /\ sent + 1 \in Transmissions
          /\ flight[i] = 0 /\ flight' = [flight EXCEPT ![i] = sent + 1]
          /\ hpc' = [hpc EXCEPT ![sent + 1] = "check"] /\ hpc[sent + 1] = "none"
          /\ UNCHANGED <<id, saved, orders>>
      BY <1>2, <1>5, ArrivesEffect
    <2> QED
      BY <1>3, <1>4, <2>1 DEF OneByOne
  <1>6. ASSUME NEW i \in Calls, Receive(i) PROVE OneByOne'
    <2>1. /\ hpc[flight[i]] = "done"
          /\ flight' = [flight EXCEPT ![i] = 0]
          /\ UNCHANGED <<hpc, id, saved, orders>>
      BY <1>2, <1>6, AnswerIs, GetsEffect DEF Receive, api
    <2> QED
      BY <1>3, <1>4, <2>1 DEF OneByOne
  <1>7. ASSUME NEW t \in Transmissions, Serve(t) PROVE OneByOne'
    <2>1. /\ UNCHANGED flight
          /\ \/ Unsafe!CheckKey(t) \/ Unsafe!Insert(t)
             \/ Unsafe!SaveKey(t) \/ Unsafe!WriteOrder(t)
      BY <1>2, <1>7, ServeCases DEF wire
    <2>2. ASSUME NEW t2 \in Transmissions, t2 # t
          PROVE  ~(hpc[t2] \in {"check", "work", "save", "write"})
      <3>1. hpc[t] \in {"check", "work", "save", "write"}
        BY <2>1 DEF Unsafe!CheckKey, Unsafe!Insert, Unsafe!SaveKey,
           Unsafe!WriteOrder
      <3>2. PICK i \in Calls : flight[i] = t
        BY <1>3, <3>1
      <3>3. ASSUME NEW j \in Calls, flight[j] = t2 PROVE FALSE
        BY <1>2, <1>4, <2>2, <3>2, <3>3, OneFlight
      <3> QED
        BY <1>3, <3>3
    <2> USE DEF Unsafe!Goto
    <2>3. CASE Unsafe!CheckKey(t)
      <3>1. saved = 0 => orders = {}
        BY <1>3, <1>4, <2>2, <2>3 DEF Unsafe!CheckKey
      <3> QED
        BY <1>3, <1>4, <2>1, <2>2, <2>3, <3>1 DEF Unsafe!CheckKey, OneByOne
    <2>4. CASE Unsafe!Insert(t)
      <3>1. orders = {}
        BY <1>3, <2>4 DEF Unsafe!Insert
      <3>2. /\ orders' = {id'[t]} /\ hpc'[t] = "save"
            /\ \A t2 \in Transmissions : t2 # t => hpc'[t2] = hpc[t2]
        BY <1>4, <2>4, <3>1 DEF Unsafe!Insert
      <3> QED
        BY <1>3, <1>4, <2>1, <2>2, <2>4, <3>2 DEF Unsafe!Insert, OneByOne
    <2>5. CASE Unsafe!SaveKey(t)
      <3>1. orders' = {saved'}
        BY <1>3, <2>5 DEF Unsafe!SaveKey
      <3> QED
        BY <1>3, <1>4, <2>1, <2>2, <2>5, <3>1 DEF Unsafe!SaveKey, OneByOne
    <2>6. CASE Unsafe!WriteOrder(t)
      BY <1>3, <1>4, <2>1, <2>2, <2>6 DEF Unsafe!WriteOrder, OneByOne
    <2> QED
      BY <2>1, <2>3, <2>4, <2>5, <2>6
  <1>8. ASSUME UNCHANGED <<api, flight>> PROVE OneByOne'
    BY <1>3, <1>8 DEF OneByOne, api
  <1>9. CASE RunAgain
    <2>1. ASSUME NEW t \in Transmissions PROVE hpc[t] # "save"
      <3>1. t \in 1..sent => answer[t] # Safe!Unanswered
        BY <1>9 DEF RunAgain
      <3>2. t \notin 1..sent => t > sent
        BY DEF Transmissions, Bounded
      <3> QED
        BY <1>2, <3>1, <3>2 DEF Endpoints, UnsafeHandlers
    <2> QED
      BY <1>3, <1>9, <2>1 DEF RunAgain, OneByOne
  <1> QED
    BY <1>2, <1>5, <1>6, <1>7, <1>8, <1>9, StepCases, EngineFrame
       DEF vars, wire

-----------------------------------------------------------------------------
(* The second run.                                                         *)

LEMMA SecondInit == Init => Second
  BY DEF Init, Second

LEMMA SecondStep ==
    /\ CheckInv /\ Wired /\ Endpoints /\ Bounded /\ Bounded' /\ Genuine
    /\ Undisturbed /\ Second /\ [Next]_vars
    => Second'
  <1> SUFFICES ASSUME CheckInv, Wired, Endpoints, Bounded, Bounded', Genuine,
                      Undisturbed, Second, [Next]_vars
               PROVE  Second'
    OBVIOUS
  <1>1. (run = 1 => before = 0)'
    <2>1. UNCHANGED <<run, before>> \/ run' = 2
      BY StepCases, EngineFrame DEF Transmit, Receive, Fail, Throttle, Resend,
         Serve, Cancel, RunAgain, vars, about
    <2> QED
      BY <2>1 DEF Second
  <1> SUFFICES ASSUME Quiet', run' = 2 PROVE Second'
    BY <1>1 DEF Second
  <1>2. /\ Quiet /\ ~Cancel
        /\ \A i \in Calls : ~Fail(i) /\ ~Throttle(i) /\ ~Resend(i)
    BY QuietStep
  <1>3. CASE RunAgain
    <2>1. pc = "done" /\ \A i \in Check!Slots : Heard201(outs[i])
      BY <1>2, <1>3 DEF RunAgain, Check!Finished, Undisturbed, Served
    <2>2. 1 \in Check!Slots
      BY NAssumption DEF Check!Slots
    <2>3. <<outs[1].status, outs[1].body>> \in answers /\ Check!Success(outs[1].status)
      BY <2>1, <2>2, CheckFacts DEF Heard201
    <2>4. \E b : b \in Created /\ (endpoint = "unsafe" => saved # 0)
      BY <2>3 DEF Genuine
    <2>5. /\ endpoint = "safe" => accepted["key"] # 0
          /\ endpoint = "unsafe" => saved # 0
      BY <2>4 DEF Created
    <2>6. before' = Cardinality(Created')
      BY <1>3 DEF RunAgain, Created
    <2>7. \A t \in Transmissions : hpc'[t] = "none"
      BY <1>3 DEF RunAgain
    <2> QED
      BY <1>1, <1>3, <2>5, <2>6, <2>7 DEF RunAgain, Second
  <1>4. CASE ~RunAgain
    <2>1. UNCHANGED <<run, endpoint, before>>
      BY <1>4, StepCases, EngineFrame DEF Transmit, Receive, Fail, Throttle,
         Resend, Serve, Cancel, vars, about
    <2>2. /\ before = Cardinality(Created)
          /\ endpoint = "safe" => accepted["key"] # 0
          /\ endpoint = "unsafe" =>
                /\ saved # 0
                /\ \A t \in Transmissions :
                      /\ hpc[t] \notin {"work", "save"}
                      /\ hpc[t] \in {"write", "done"} => id[t] = saved
                /\ \A f \in answers : Check!Success(f[1]) => f[2] = saved
      BY <1>2, <2>1 DEF Second
    <2>3. ASSUME UNCHANGED <<answers, accepted, saved, orders, hpc, id>>
          PROVE  Second'
      BY <1>1, <2>1, <2>2, <2>3 DEF Second, Created
    <2>4. ASSUME NEW i \in Calls, Transmit(i) PROVE Second'
      <3>1. /\ UNCHANGED <<id, saved, orders, accepted, answers>>
            /\ endpoint = "unsafe" => hpc' = [hpc EXCEPT ![sent + 1] = "check"]
        BY <2>4, ArrivesEffect DEF check
      <3>2. hpc \in [Transmissions -> {"none", "check", "work", "save", "write", "done"}]
        BY DEF Endpoints, UnsafeType
      <3> QED
        BY <1>1, <2>1, <2>2, <3>1, <3>2 DEF Second, Created
    <2>5. ASSUME NEW i \in Calls, Receive(i) PROVE Second'
      <3> DEFINE oc == Outcome(answer[flight[i]])
      <3>1. /\ UNCHANGED <<id, saved, orders, accepted, hpc>>
            /\ answers' = answers \cup {<<oc.status, oc.body>>}
        BY <2>5, GetsEffect DEF Receive, Outcome, api
      <3>2. endpoint = "unsafe" => oc.body = saved
        BY <2>2, <2>5, AnswerIs DEF Receive
      <3> QED
        BY <1>1, <2>1, <2>2, <3>1, <3>2 DEF Second, Created
    <2>6. ASSUME NEW t \in Transmissions, Serve(t) PROVE Second'
      <3>1. UNCHANGED answers
        BY <2>6, ServeCases DEF check
      <3>2. CASE endpoint = "safe"
        <4>1. UNCHANGED <<accepted, saved, orders, hpc, id>>
          BY <2>2, <2>6, <3>2, ServeCases, ServeKeeps
        <4> QED
          BY <2>3, <3>1, <4>1
      <3>3. CASE endpoint = "unsafe"
        <4>1. /\ UNCHANGED <<saved, orders, accepted>>
              /\ \/ hpc[t] = "check" /\ hpc' = [hpc EXCEPT ![t] = "write"]
                    /\ id' = [id EXCEPT ![t] = saved]
                 \/ hpc[t] = "write" /\ hpc' = [hpc EXCEPT ![t] = "done"]
                    /\ UNCHANGED id
          BY <2>2, <2>6, <3>3, ServeCases DEF Unsafe!CheckKey, Unsafe!Insert,
             Unsafe!SaveKey, Unsafe!WriteOrder, Unsafe!Goto
        <4>2. /\ hpc \in [Transmissions -> {"none", "check", "work", "save", "write", "done"}]
              /\ id \in [Transmissions -> Nat]
          BY DEF Endpoints, UnsafeType
        <4>3. \A t2 \in Transmissions :
                 /\ hpc'[t2] \notin {"work", "save"}
                 /\ hpc'[t2] \in {"write", "done"} => id'[t2] = saved
          BY <2>2, <3>3, <4>1, <4>2
        <4> QED
          BY <1>1, <2>1, <2>2, <3>1, <3>3, <4>1, <4>3 DEF Second, Created
      <3> QED
        BY <3>2, <3>3 DEF Endpoints, UnsafeType
    <2>7. CASE Engine
      BY <2>3, <2>7, EngineFrame DEF api
    <2> QED
      BY <1>2, <1>4, <2>3, <2>4, <2>5, <2>6, <2>7, StepCases DEF vars, check, api
  <1> QED
    BY <1>3, <1>4

-----------------------------------------------------------------------------
(* Where the orders of the first run come from.                            *)

LEMMA TracedInit == Init => Traced /\ Few
  <1> SUFFICES ASSUME Init PROVE Traced /\ Few
    OBVIOUS
  <1>1. /\ orders = {} /\ hpc = [t \in Transmissions |-> "none"]
        /\ sent = 0 /\ attempts = 0 /\ flight[Replay] = 0
    BY CallsAre DEF Init, Unsafe!Init, Check!Init
  <1> QED
    BY <1>1 DEF Traced, Few

\* An answered request is no longer sent, and was not answered before.
LEMMA SlotFilled ==
    ASSUME CheckInv, NEW i \in Check!Slots, outs[i] = Check!Unsent,
           NEW oc \in Check!Outcomes, outs' = [outs EXCEPT ![i] = oc]
    PROVE  /\ outs'[i] = oc
           /\ \A j \in Check!Slots : j # i => outs'[j] = outs[j]
           /\ ~Heard201(outs[i]) /\ outs[i].kind # "error"
  <1>1. outs \in [Check!Slots -> Check!Outcomes \cup {Check!Unsent}]
    BY CheckFacts DEF Check!TypeOK
  <1> QED
    BY <1>1 DEF Heard201, Check!Unsent

\* Every 2xx slot answer of an unsafe endpoint was preceded by a save.
LEMMA HeardIsSaved ==
    ASSUME CheckInv, Genuine, endpoint = "unsafe",
           NEW i \in Check!Slots, Heard201(outs[i])
    PROVE  saved # 0
  <1>1. <<outs[i].status, outs[i].body>> \in answers
    BY CheckFacts DEF Heard201
  <1> QED
    BY <1>1 DEF Genuine, Heard201

LEMMA TracedStep ==
    /\ CheckInv /\ Wired /\ Endpoints /\ Bounded /\ Bounded' /\ Genuine
    /\ Traced /\ [Next]_vars
    => Traced'
  <1> SUFFICES ASSUME CheckInv, Wired, Endpoints, Bounded, Bounded', Genuine,
                      Traced, [Next]_vars,
                      endpoint' = "unsafe", run' = 1, ~resent'
               PROVE  Traced'
    BY DEF Traced
  <1>1. /\ UNCHANGED endpoint /\ ~RunAgain
        /\ UNCHANGED run /\ UNCHANGED resent /\ \A i \in Calls : ~Resend(i)
    <2>1. ~RunAgain /\ \A i \in Calls : ~Resend(i)
      BY DEF RunAgain, Resend
    <2> QED
      BY <2>1, StepCases, EngineFrame DEF Transmit, Receive, Fail, Throttle,
         Serve, Cancel, vars, about, wire
  <1>2. /\ endpoint = "unsafe"
        /\ \A t \in Transmissions :
              /\ hpc[t] = "check" => InFlight(t) \/ SlotFailed \/ Past
              /\ hpc[t] \in {"work", "save"} => InFlight(t) \/ SlotFailed \/ Untouched
        /\ \A b \in orders :
              \/ Got(b) \/ SlotFailed \/ Untouched
              \/ \E t \in Transmissions :
                    InFlight(t) /\ hpc[t] \in {"save", "done"} /\ id[t] = b
    BY <1>1 DEF Traced
  <1>3. /\ hpc \in [Transmissions -> {"none", "check", "work", "save", "write", "done"}]
        /\ id \in [Transmissions -> Nat]
        /\ flight \in [Calls -> Nat]
        /\ \A t \in Transmissions : t # 0
    BY DEF Endpoints, UnsafeType, Wired, Transmissions
  <1>4. ASSUME /\ UNCHANGED <<hpc, id, orders>>
               /\ \A t \in Transmissions : InFlight(t) => InFlight(t)'
               /\ SlotFailed => SlotFailed'
               /\ Past => Past'
               /\ Untouched => Untouched'
               /\ \A b : Got(b) => Got(b)'
        PROVE  Traced'
    BY <1>1, <1>2, <1>4 DEF Traced
  <1>5. ASSUME NEW i \in Calls, Transmit(i) PROVE Traced'
    <2>1. /\ sent + 1 \in Transmissions
          /\ flight[i] = 0 /\ flight' = [flight EXCEPT ![i] = sent + 1]
          /\ hpc' = [hpc EXCEPT ![sent + 1] = "check"] /\ hpc[sent + 1] = "none"
          /\ UNCHANGED <<id, orders, outs, pc>> /\ Wants(i)
      BY <1>2, <1>5, ArrivesEffect DEF check
    <2>2. \A t \in Transmissions : InFlight(t) => InFlight(t)'
      BY <1>3, <2>1, CallsAre DEF InFlight
    <2>3. Past \/ \E j \in Check!Slots : flight'[j] = sent + 1
      <3>1. CASE i = Replay
        BY <2>1, <3>1 DEF Wants, Past
      <3>2. CASE i # Replay
        BY <1>3, <2>1, <3>2, CallsAre
      <3> QED
        BY <3>1, <3>2
    <2>4. /\ SlotFailed' <=> SlotFailed
          /\ Past' <=> Past
          /\ Untouched' <=> Untouched
          /\ \A b : Got(b)' <=> Got(b)
      BY <2>1 DEF SlotFailed, Past, Untouched, Got
    <2>5. \A t \in Transmissions :
             hpc'[t] = IF t = sent + 1 THEN "check" ELSE hpc[t]
      BY <1>3, <2>1
    <2>6. \A t \in Transmissions : hpc'[t] = "check" =>
             InFlight(t)' \/ SlotFailed' \/ Past'
      <3> SUFFICES ASSUME NEW t \in Transmissions, hpc'[t] = "check"
                   PROVE  InFlight(t)' \/ SlotFailed' \/ Past'
        OBVIOUS
      <3>1. CASE t = sent + 1
        BY <2>3, <2>4, <3>1 DEF InFlight
      <3>2. CASE t # sent + 1
        BY <1>2, <2>2, <2>4, <2>5, <3>2
      <3> QED
        BY <3>1, <3>2
    <2>7. \A t \in Transmissions : hpc'[t] \in {"work", "save"} =>
             InFlight(t)' \/ SlotFailed' \/ Untouched'
      BY <1>2, <2>2, <2>4, <2>5
    <2>8. ASSUME NEW b \in orders
          PROVE  \/ Got(b)' \/ SlotFailed' \/ Untouched'
                 \/ \E t \in Transmissions :
                       InFlight(t)' /\ hpc'[t] \in {"save", "done"} /\ id'[t] = b
      <3>1. ASSUME NEW t \in Transmissions, InFlight(t),
                   hpc[t] \in {"save", "done"}, id[t] = b
            PROVE  InFlight(t)' /\ hpc'[t] \in {"save", "done"} /\ id'[t] = b
        BY <2>1, <2>2, <2>5, <3>1
      <3> QED
        BY <1>2, <2>4, <3>1
    <2> QED
      BY <2>1, <2>6, <2>7, <2>8 DEF Traced
  <1>6. ASSUME NEW i \in Calls, NEW oc, Gets(i, oc), i = Replay,
               UNCHANGED <<hpc, id, orders>>
        PROVE  Traced'
    <2>1. /\ pc' = "classify" /\ UNCHANGED outs
          /\ flight' = [flight EXCEPT ![i] = 0]
      BY <1>6, GetsEffect
    <2>2. \A t : InFlight(t) => InFlight(t)'
      BY <1>3, <1>6, <2>1, CallsAre DEF InFlight
    <2> QED
      BY <1>4, <1>6, <2>1, <2>2 DEF SlotFailed, Past, Untouched, Got
  <1>7. ASSUME NEW i \in Calls, NEW oc, Gets(i, oc), i # Replay
        PROVE  /\ i \in Check!Slots /\ ~Past /\ ~Past' /\ outs'[i] = oc
               /\ flight' = [flight EXCEPT ![i] = 0]
               /\ SlotFailed => SlotFailed'
               /\ \A b : Got(b) => Got(b)'
    <2>1. /\ i \in Check!Slots /\ UNCHANGED pc /\ pc \in {"send", "burst"}
          /\ outs' = [outs EXCEPT ![i] = oc] /\ outs[i] = Check!Unsent
          /\ flight' = [flight EXCEPT ![i] = 0] /\ oc \in Check!Outcomes
      BY <1>7, GetsEffect
    <2>2. /\ outs'[i] = oc /\ ~Heard201(outs[i]) /\ outs[i].kind # "error"
          /\ \A j \in Check!Slots : j # i => outs'[j] = outs[j]
      BY <2>1, SlotFilled
    <2>3. SlotFailed => SlotFailed'
      BY <2>2 DEF SlotFailed
    <2>4. \A b : Got(b) => Got(b)'
      BY <2>2 DEF Got
    <2> QED
      BY <2>1, <2>2, <2>3, <2>4 DEF Past
  <1>8. ASSUME NEW i \in Calls, Receive(i) PROVE Traced'
    <2> DEFINE t0 == flight[i]  oc == Outcome(answer[flight[i]])
    <2>1. /\ t0 \in Transmissions /\ hpc[t0] = "done" /\ flight[i] # 0
          /\ Heard201(oc) /\ oc.body = id[t0] /\ Gets(i, oc)
          /\ UNCHANGED <<hpc, id, orders>>
      BY <1>2, <1>8, AnswerIs DEF Receive, api
    <2> HIDE DEF oc
    <2>2. CASE i = Replay
      BY <1>6, <2>1, <2>2
    <2>3. CASE i # Replay
      <3>1. /\ i \in Check!Slots /\ ~Past /\ ~Past' /\ outs'[i] = oc
            /\ flight' = [flight EXCEPT ![i] = 0]
            /\ SlotFailed => SlotFailed'
            /\ \A b : Got(b) => Got(b)'
        BY <1>7, <2>1, <2>3
      <3>2. \A t \in Transmissions : t # t0 /\ InFlight(t) => InFlight(t)'
        BY <1>3, <3>1, CallsAre DEF InFlight
      <3>3. ASSUME NEW b, b = id[t0] PROVE Got(b)'
        BY <3>3, <2>1, <3>1 DEF Got
      <3>4. ~Untouched
        BY <3>1 DEF Untouched
      <3>5. ASSUME NEW b \in orders
            PROVE  \/ Got(b)' \/ SlotFailed'
                   \/ \E t \in Transmissions :
                         InFlight(t)' /\ hpc[t] \in {"save", "done"} /\ id[t] = b
        <4>1. CASE Got(b) \/ SlotFailed
          BY <3>1, <4>1
        <4>2. ASSUME NEW t \in Transmissions, InFlight(t),
                     hpc[t] \in {"save", "done"}, id[t] = b
              PROVE  Got(b)' \/ InFlight(t)'
          BY <3>2, <3>3, <4>2
        <4> QED
          BY <1>2, <3>4, <4>1, <4>2
      <3>6. \A t \in Transmissions :
               hpc[t] \in {"check", "work", "save"} => InFlight(t)' \/ SlotFailed'
        BY <1>2, <2>1, <3>1, <3>2, <3>4
      <3> QED
        BY <2>1, <3>5, <3>6 DEF Traced
    <2> QED
      BY <2>2, <2>3
  <1>9. ASSUME NEW i \in Calls, Fail(i) PROVE Traced'
    <2>1. Gets(i, Check!NoResponse) /\ UNCHANGED <<hpc, id, orders>>
      BY <1>9 DEF Fail, api
    <2>2. CASE i # Replay
      <3>1. SlotFailed'
        BY <1>7, <2>1, <2>2, NotHeard DEF SlotFailed
      <3> QED
        BY <3>1 DEF Traced
    <2> QED
      BY <1>6, <2>1, <2>2
  <1>10. ASSUME NEW i \in Calls, Throttle(i) PROVE Traced'
    <2> DEFINE oc == [kind |-> "response", status |-> 503, body |-> 0]
    <2>1. Gets(i, oc) /\ UNCHANGED <<hpc, id, orders>> /\ flight[i] = 0
      BY <1>10 DEF Throttle, api
    <2> HIDE DEF oc
    <2>2. CASE i # Replay
      <3>1. /\ i \in Check!Slots /\ ~Past /\ ~Past'
            /\ flight' = [flight EXCEPT ![i] = 0]
            /\ SlotFailed => SlotFailed'
            /\ \A b : Got(b) => Got(b)'
        BY <1>7, <2>1, <2>2
      <3>2. UNCHANGED flight
        BY <1>3, <2>1, <3>1
      <3> QED
        BY <1>4, <2>1, <3>1, <3>2 DEF InFlight, Untouched
    <2> QED
      BY <1>6, <2>1, <2>2
  <1>11. ASSUME NEW t \in Transmissions, Serve(t) PROVE Traced'
    <2>1. /\ UNCHANGED <<outs, pc, flight>>
          /\ \/ Unsafe!CheckKey(t) \/ Unsafe!Insert(t)
             \/ Unsafe!SaveKey(t) \/ Unsafe!WriteOrder(t)
      BY <1>2, <1>11, ServeCases DEF wire, check
    <2>2. /\ \A t2 : InFlight(t2)' <=> InFlight(t2)
          /\ SlotFailed' <=> SlotFailed
          /\ Past' <=> Past
          /\ Untouched' <=> Untouched
          /\ \A b : Got(b)' <=> Got(b)
      BY <2>1 DEF InFlight, SlotFailed, Past, Untouched, Got
    <2> USE DEF Unsafe!Goto
    <2>3. CASE Unsafe!CheckKey(t)
      <3>1. saved = 0 /\ Past => Untouched
        BY <1>2, HeardIsSaved DEF Untouched
      <3>2. /\ hpc[t] = "check" /\ UNCHANGED orders
            /\ hpc'[t] \in {"write", "work"} /\ (saved # 0 => hpc'[t] = "write")
            /\ \A t2 \in Transmissions :
                  t2 # t => hpc'[t2] = hpc[t2] /\ id'[t2] = id[t2]
        BY <1>3, <2>3 DEF Unsafe!CheckKey
      <3> QED
        BY <1>2, <2>2, <3>1, <3>2 DEF Traced
    <2>4. CASE Unsafe!Insert(t)
      <3>1. /\ hpc[t] = "work" /\ hpc'[t] = "save"
            /\ orders' = orders \cup {id'[t]}
            /\ \A t2 \in Transmissions :
                  t2 # t => hpc'[t2] = hpc[t2] /\ id'[t2] = id[t2]
        BY <1>3, <2>4 DEF Unsafe!Insert
      <3> QED
        BY <1>2, <2>2, <3>1 DEF Traced
    <2>5. CASE Unsafe!SaveKey(t) \/ Unsafe!WriteOrder(t)
      <3>1. /\ hpc[t] \in {"save", "write"} /\ hpc'[t] = "done"
            /\ UNCHANGED <<id, orders>>
            /\ \A t2 \in Transmissions : t2 # t => hpc'[t2] = hpc[t2]
        BY <1>3, <2>5 DEF Unsafe!SaveKey, Unsafe!WriteOrder
      <3> QED
        BY <1>2, <2>2, <3>1 DEF Traced
    <2> QED
      BY <2>1, <2>3, <2>4, <2>5
  <1>12. CASE Engine
    BY <1>4, <1>12, EngineFrame
       DEF api, wire, InFlight, SlotFailed, Untouched, Got
  <1>13. CASE Cancel
    BY <1>4, <1>13 DEF Cancel, Check!Cancel, api, wire, InFlight, SlotFailed,
       Past, Untouched, Got
  <1>14. CASE UNCHANGED vars
    BY <1>4, <1>14 DEF vars, check, api, wire, InFlight, SlotFailed, Past,
       Untouched, Got
  <1> QED
    BY <1>1, <1>5, <1>8, <1>9, <1>10, <1>11, <1>12, <1>13, <1>14, StepCases

\* A slot that is on its way, answered or failed stays one of these, and a
\* replay attempt that is over is counted.
LEMMA FewStep ==
    /\ CheckInv /\ Wired /\ Endpoints /\ Bounded /\ Bounded'
    /\ Few /\ [Next]_vars
    => Few'
  <1> DEFINE Counting(i) ==
          flight[i] # 0 \/ Heard201(outs[i]) \/ outs[i].kind = "error"
             Open == IF flight[Replay] # 0 THEN 1 ELSE 0
  <1> SUFFICES ASSUME CheckInv, Wired, Endpoints, Bounded, Bounded', Few,
                      [Next]_vars, endpoint' = "unsafe", run' = 1, ~resent'
               PROVE  Few'
    BY DEF Few
  <1>1. /\ UNCHANGED endpoint /\ ~RunAgain
        /\ UNCHANGED run /\ UNCHANGED resent /\ \A i \in Calls : ~Resend(i)
    <2>1. ~RunAgain /\ \A i \in Calls : ~Resend(i)
      BY DEF RunAgain, Resend
    <2> QED
      BY <2>1, StepCases, EngineFrame DEF Transmit, Receive, Fail, Throttle,
         Serve, Cancel, vars, about, wire
  <1>2. /\ endpoint = "unsafe"
        /\ \A b \in orders : \E t \in Transmissions :
              hpc[t] \in {"save", "done"} /\ id[t] = b
        /\ (\E i \in Check!Slots : Counting(i)) \/ sent <= attempts + Open
    BY <1>1 DEF Few
  <1>3. /\ hpc \in [Transmissions -> {"none", "check", "work", "save", "write", "done"}]
        /\ id \in [Transmissions -> Nat]
        /\ flight \in [Calls -> Nat] /\ sent \in Nat
        /\ attempts \in Nat
    BY CheckFacts, MaxAttemptsAssumption
       DEF Endpoints, UnsafeType, Wired, Check!TypeOK
  <1>4. ASSUME /\ \A b \in orders' : \E t \in Transmissions :
                     hpc'[t] \in {"save", "done"} /\ id'[t] = b
               /\ (\E i \in Check!Slots : Counting(i)') \/ sent' <= attempts' + Open'
        PROVE  Few'
    BY <1>4 DEF Few
  <1> HIDE DEF Counting, Open
  <1>5. ASSUME NEW i \in Calls, Transmit(i) PROVE Few'
    <2>1. /\ flight[i] = 0 /\ flight' = [flight EXCEPT ![i] = sent + 1]
          /\ sent' = sent + 1
          /\ hpc' = [hpc EXCEPT ![sent + 1] = "check"] /\ hpc[sent + 1] = "none"
          /\ UNCHANGED <<id, orders, outs, attempts>>
      BY <1>2, <1>5, ArrivesEffect DEF check
    <2>2. \A b \in orders' : \E t \in Transmissions :
             hpc'[t] \in {"save", "done"} /\ id'[t] = b
      BY <1>2, <1>3, <2>1
    <2>3. CASE i = Replay
      <3>1. /\ Open = 0 /\ Open' = 1
            /\ \A j \in Check!Slots : Counting(j) => Counting(j)'
        BY <1>3, <2>1, <2>3, CallsAre DEF Open, Counting
      <3> QED
        BY <1>2, <1>3, <1>4, <2>1, <2>2, <3>1
    <2>4. CASE i # Replay
      <3>1. i \in Check!Slots /\ Counting(i)'
        BY <1>3, <2>1, <2>4, CallsAre DEF Counting
      <3> QED
        BY <1>4, <2>2, <3>1
    <2> QED
      BY <2>3, <2>4
  <1>6. ASSUME NEW i \in Calls, NEW oc, Gets(i, oc), UNCHANGED <<api, sent>>,
               i # Replay => Heard201(oc) \/ oc.kind = "error" \/ flight[i] = 0
        PROVE  Few'
    <2>1. /\ UNCHANGED <<hpc, id, orders>>
          /\ flight' = [flight EXCEPT ![i] = 0]
      BY <1>6, GetsEffect DEF api
    <2>2. CASE i = Replay
      <3>1. attempts' = attempts + 1 /\ UNCHANGED outs
        BY <1>6, <2>2, GetsEffect
      <3>2. /\ Open \in 0..1 /\ Open' = 0
            /\ \A j \in Check!Slots : Counting(j) => Counting(j)'
        BY <1>3, <2>1, <2>2, <3>1, CallsAre DEF Open, Counting
      <3> QED
        BY <1>2, <1>3, <1>4, <1>6, <2>1, <3>1, <3>2
    <2>3. CASE i # Replay
      <3>1. /\ i \in Check!Slots /\ outs[i] = Check!Unsent
            /\ outs' = [outs EXCEPT ![i] = oc] /\ UNCHANGED attempts
            /\ oc \in Check!Outcomes
        BY <1>6, <2>3, GetsEffect
      <3>2. /\ outs'[i] = oc /\ ~Heard201(outs[i]) /\ outs[i].kind # "error"
            /\ \A j \in Check!Slots : j # i => outs'[j] = outs[j]
        BY <3>1, SlotFilled
      <3>3. \A j \in Check!Slots : Counting(j) => Counting(j)'
        BY <1>3, <1>6, <2>1, <2>3, <3>1, <3>2, CallsAre DEF Counting
      <3>4. Open' = Open
        BY <1>3, <2>1, <2>3, CallsAre DEF Open
      <3> QED
        BY <1>2, <1>4, <1>6, <2>1, <3>1, <3>3, <3>4
    <2> QED
      BY <2>2, <2>3
  <1>7. ASSUME NEW i \in Calls, Receive(i) PROVE Few'
    BY <1>6, <1>7, AnswerIs DEF Receive
  <1>8. ASSUME NEW i \in Calls, Fail(i) PROVE Few'
    BY <1>6, <1>8, NotHeard DEF Fail
  <1>9. ASSUME NEW i \in Calls, Throttle(i) PROVE Few'
    BY <1>6, <1>9 DEF Throttle
  <1>10. ASSUME UNCHANGED <<outs, attempts, sent, flight>>
         PROVE  (\E i \in Check!Slots : Counting(i)') \/ sent' <= attempts' + Open'
    BY <1>2, <1>10 DEF Counting, Open
  <1>11. ASSUME NEW t \in Transmissions, Serve(t) PROVE Few'
    <2>1. /\ UNCHANGED <<outs, attempts, sent, flight>>
          /\ \/ Unsafe!CheckKey(t) \/ Unsafe!Insert(t)
             \/ Unsafe!SaveKey(t) \/ Unsafe!WriteOrder(t)
      BY <1>2, <1>11, ServeCases DEF wire, check
    <2>2. \A t2 \in Transmissions :
             t2 # t => hpc'[t2] = hpc[t2] /\ id'[t2] = id[t2]
      BY <1>3, <2>1 DEF Unsafe!CheckKey, Unsafe!Insert, Unsafe!SaveKey,
         Unsafe!WriteOrder, Unsafe!Goto
    <2>3. \/ hpc[t] \notin {"save", "done"} /\ UNCHANGED orders
          \/ /\ hpc[t] = "work" /\ hpc'[t] = "save"
             /\ orders' = orders \cup {id'[t]}
          \/ hpc'[t] = "done" /\ UNCHANGED <<id, orders>>
      BY <1>3, <2>1 DEF Unsafe!CheckKey, Unsafe!Insert, Unsafe!SaveKey,
         Unsafe!WriteOrder, Unsafe!Goto
    <2>4. \A b \in orders' : \E t2 \in Transmissions :
             hpc'[t2] \in {"save", "done"} /\ id'[t2] = b
      BY <1>2, <2>2, <2>3
    <2> QED
      BY <1>4, <1>10, <2>1, <2>4
  <1>12. ASSUME UNCHANGED <<outs, attempts, sent, flight, api>> PROVE Few'
    BY <1>2, <1>4, <1>10, <1>12 DEF api
  <1>13. CASE Engine \/ Cancel
    BY <1>12, <1>13, EngineFrame DEF Cancel, Check!Cancel, wire
  <1>14. CASE UNCHANGED vars
    BY <1>12, <1>14 DEF vars, check, wire
  <1> QED
    BY <1>1, <1>5, <1>7, <1>8, <1>9, <1>11, <1>13, <1>14, StepCases

-----------------------------------------------------------------------------
(* The invariant of the system.                                            *)

SysInv ==
    /\ CheckInv /\ Wired /\ Budget /\ Bounded /\ Endpoints /\ Genuine
    /\ Undisturbed /\ OneByOne /\ Second /\ Traced /\ Few

\* Every reachable state of the two runs satisfies all of its parts.
THEOREM Invariance == Spec => []SysInv
  <1>1. Spec => [](CheckInv /\ Wired)
    BY CheckHolds, WiredInit, WiredStep, PTL DEF Spec
  <1>2. Spec => [](CheckInv /\ Wired /\ Budget)
    BY <1>1, BudgetInit, BudgetStep, PTL DEF Spec
  <1>3. Spec => [](CheckInv /\ Wired /\ Budget /\ Bounded)
    <2>1. CheckInv /\ Wired /\ Budget => Bounded
      BY SentBound DEF Bounded
    <2> QED
      BY <1>2, <2>1, PTL
  <1>4. Spec => [](CheckInv /\ Wired /\ Bounded /\ Endpoints)
    BY <1>3, EndpointsInit, EndpointsStep, PTL DEF Spec
  <1>5. Spec => []Genuine
    BY <1>4, GenuineInit, GenuineStep, PTL DEF Spec
  <1>6. Spec => []Undisturbed
    BY <1>4, UndisturbedInit, UndisturbedStep, PTL DEF Spec
  <1>7. Spec => []OneByOne
    BY <1>4, <1>6, OneByOneInit, OneByOneStep, PTL DEF Spec
  <1>8. Spec => []Second
    BY <1>4, <1>5, <1>6, SecondInit, SecondStep, PTL DEF Spec
  <1>9. Spec => []Traced
    BY <1>4, <1>5, TracedInit, TracedStep, PTL DEF Spec
  <1>10. Spec => []Few
    BY <1>4, TracedInit, FewStep, PTL DEF Spec
  <1> QED
    BY <1>3, <1>4, <1>5, <1>6, <1>7, <1>8, <1>9, <1>10, PTL DEF SysInv

\* The variables keep their types, and no run makes more transmissions than it
\* has requests, replay attempts and faults.
THEOREM TypeCorrect == Spec => []TypeOK
  <1>1. SysInv => TypeOK
    <2> SUFFICES ASSUME SysInv PROVE TypeOK
      OBVIOUS
    <2>1. Check!TypeOK
      BY CheckFacts DEF SysInv
    <2>2. sent \in 0..MaxSent /\ MaxSent \in Nat
      BY NAssumption, MaxAttemptsAssumption, FaultsAssumption
         DEF SysInv, Bounded, MaxSent
    <2>3. flight \in [Calls -> Nat] /\ \A i \in Calls : flight[i] <= sent
      BY DEF SysInv, Wired
    <2>4. \A i \in Calls : flight[i] \in 0..MaxSent
      BY <2>2, <2>3
    <2>5. flight \in [Calls -> 0..MaxSent]
      BY <2>3, <2>4
    <2> QED
      BY <2>1, <2>2, <2>5 DEF TypeOK, SysInv, Wired
  <1> QED
    BY <1>1, Invariance, PTL

\* The order that is saved for a key was inserted before: a handler that found
\* it always finds the order.
THEOREM OrdersStay == Spec => []NoOrderVanishes
  <1>1. SysInv => NoOrderVanishes
    BY DEF SysInv, Endpoints, UnsafeType, NoOrderVanishes, Safe!Unanswered
  <1> QED
    BY <1>1, Invariance, PTL

-----------------------------------------------------------------------------
(* The verdicts.                                                           *)

LEMMA TwoElements ==
    ASSUME NEW S, IsFiniteSet(S)
    PROVE  Cardinality(S) > 1 <=> \E a, b \in S : a # b
  <1>1. Cardinality(S) \in Nat
    BY FS_CardinalityType
  <1>2. Cardinality(S) = 0 <=> S = {}
    BY FS_EmptySet
  <1>3. Cardinality(S) = 1 <=> \E x : S = {x}
    BY FS_Singleton
  <1>4. ASSUME \E a, b \in S : a # b PROVE Cardinality(S) > 1
    <2>1. S # {} /\ ~(\E x : S = {x})
      BY <1>4
    <2> QED
      BY <1>1, <1>2, <1>3, <2>1
  <1>5. ASSUME Cardinality(S) > 1 PROVE \E a, b \in S : a # b
    <2>1. S # {} /\ ~(\E x : S = {x})
      BY <1>2, <1>3, <1>5
    <2>2. PICK a \in S : TRUE
      BY <2>1
    <2>3. PICK b \in S : b # a
      BY <2>1, <2>2
    <2> QED
      BY <2>2, <2>3
  <1> QED
    BY <1>4, <1>5

\* The safe endpoint has one order at most.
LEMMA CreatedSize ==
    ASSUME Endpoints
    PROVE  /\ IsFiniteSet(Created) /\ Cardinality(Created) \in Nat
           /\ Cardinality(Created) > 1 <=> \E a, b \in Created : a # b
           /\ endpoint = "safe" => ~(Cardinality(Created) > 1)
  <1>1. IsFiniteSet(Created)
    <2>1. CASE endpoint = "safe"
      <3>1. IsFiniteSet({accepted["key"]})
        BY FS_Singleton
      <3> QED
        BY <2>1, <3>1, FS_Subset DEF Created
    <2>2. CASE endpoint = "unsafe"
      <3>1. nextID \in Nat /\ orders \subseteq 1..nextID
        BY DEF Endpoints, UnsafeType
      <3>2. IsFiniteSet(1..nextID)
        BY <3>1, FS_Interval
      <3> QED
        BY <2>2, <3>1, <3>2, FS_Subset DEF Created
    <2> QED
      BY <2>1, <2>2 DEF Endpoints, UnsafeType
  <1>2. Cardinality(Created) > 1 <=> \E a, b \in Created : a # b
    BY <1>1, TwoElements
  <1> QED
    BY <1>1, <1>2, FS_CardinalityType DEF Created

\* An answer that is counted was received.
LEMMA CountedReceived ==
    ASSUME CheckInv,
           NEW f \in Answers201 \cup {<<500, 0>>, Busy503}, CheckProofs!Counts(f)
    PROVE  f \in answers
  BY DEF CheckInv, CheckProofs!Inv, CheckProofs!Sound, CheckProofs!Counts

\* When the check is done, every slot is collected and shows in a counter.
LEMMA SlotCounted ==
    ASSUME CheckInv, pc = "done", NEW i \in Check!Slots, outs[i] # Check!Unsent
    PROVE  /\ i < next
           /\ CheckProofs!Shows(outs[i])
  BY SameOperators DEF CheckInv, CheckProofs!Inv, CheckProofs!TypeInv,
     CheckProofs!TypeOK, CheckProofs!Ordered, CheckProofs!Counted,
     CheckProofs!Slots

LEMMA HeardCounts ==
    ASSUME CheckInv, pc = "done", NEW i \in Check!Slots, Heard201(outs[i])
    PROVE  LET f == <<outs[i].status, outs[i].body>> IN
           /\ f \in Answers201 \cup {<<500, 0>>, Busy503}
           /\ CheckProofs!Counts(f) /\ CheckProofs!Success(f[1])
  <1>1. outs[i].kind = "response" /\ outs[i] # Check!Unsent
    BY DEF Heard201, Check!Unsent
  <1>2. CheckProofs!Shows(outs[i])
    BY <1>1, SlotCounted
  <1>3. <<outs[i].status, outs[i].body>> \in answers
    BY <1>1, CheckFacts
  <1>4. answers \subseteq Answers201 \cup {<<500, 0>>, Busy503}
    BY CheckFacts DEF Check!TypeOK
  <1> QED
    BY <1>1, <1>2, <1>3, <1>4 DEF CheckProofs!Shows, CheckProofs!FingerprintOf,
       Heard201, Check!Success, CheckProofs!Success

\* Two slots that name different orders are a divergence.
LEMMA TwoHeardDiverge ==
    ASSUME CheckInv, pc = "done", NEW i \in Check!Slots, NEW j \in Check!Slots,
           Heard201(outs[i]), Heard201(outs[j]), outs[i].body # outs[j].body
    PROVE  CheckProofs!Diverged(res)
  <1> DEFINE f == <<outs[i].status, outs[i].body>>
             g == <<outs[j].status, outs[j].body>>
  <1>1. /\ f \in Answers201 \cup {<<500, 0>>, Busy503}
        /\ CheckProofs!Counts(f) /\ CheckProofs!Success(f[1])
    BY HeardCounts
  <1>2. /\ g \in Answers201 \cup {<<500, 0>>, Busy503}
        /\ CheckProofs!Counts(g) /\ CheckProofs!Success(g[1])
    BY HeardCounts
  <1>3. f[2] # g[2]
    OBVIOUS
  <1> HIDE DEF f, g
  <1> QED
    BY <1>1, <1>2, <1>3, CheckAssumptions, CheckProofs!DivergedMeaning

\* A divergence means two orders of an unsafe endpoint.
LEMMA DivergedCreated ==
    ASSUME CheckInv, Endpoints, Genuine, CheckProofs!Diverged(res)
    PROVE  /\ endpoint = "unsafe" /\ Cardinality(Created) > 1
           /\ \E f, g \in answers : /\ Check!Success(f[1]) /\ Check!Success(g[1])
                                    /\ f[2] # g[2]
  <1>1. PICK f, g \in Answers201 \cup {<<500, 0>>, Busy503} :
           /\ CheckProofs!Counts(f) /\ CheckProofs!Success(f[1])
           /\ CheckProofs!Counts(g) /\ CheckProofs!Success(g[1])
           /\ f[2] # g[2]
    BY CheckAssumptions, CheckProofs!DivergedMeaning
  <1>2. /\ f \in answers /\ Check!Success(f[1])
        /\ g \in answers /\ Check!Success(g[1])
    BY <1>1, CountedReceived DEF Check!Success, CheckProofs!Success
  <1>3. f[2] \in Created /\ g[2] \in Created
    BY <1>2 DEF Genuine
  <1>4. Cardinality(Created) > 1
    BY <1>1, <1>3, CreatedSize
  <1>5. endpoint = "unsafe"
    BY <1>4, CreatedSize DEF Endpoints, UnsafeType
  <1> QED
    BY <1>1, <1>2, <1>4, <1>5

\* When the check is done nothing of it is in flight, so that every order of
\* the first run is in a slot, or no slot heard of one.
LEMMA DoneTraced ==
    ASSUME Wired, Traced, pc = "done", ~SlotFailed, ~resent,
           endpoint = "unsafe", run = 1,
           NEW b \in orders
    PROVE  Got(b) \/ Untouched
  <1>1. \A i \in Check!Slots : flight[i] = 0
    BY CallsAre DEF Wired, Wants
  <1>2. \A t \in Transmissions : ~InFlight(t)
    BY <1>1 DEF InFlight, Transmissions
  <1> QED
    BY <1>2 DEF Traced

\* The tool never accuses: a FAIL means that the unsafe endpoint made two
\* orders for one key, whatever was lost, delayed, repeated or interrupted.
THEOREM FailIsEarned == Spec => []FailMeansTwoOrders
  <1>1. SysInv => FailMeansTwoOrders
    <2> SUFFICES ASSUME SysInv, verdict = "fail"
                 PROVE  endpoint = "unsafe" /\ Cardinality(Created) > 1
      BY DEF FailMeansTwoOrders
    <2>1. pc = "done"
      BY CheckFacts DEF SysInv
    <2>2. CheckProofs!EvaluateSameKey(res, replay) = "fail"
      BY <2>1 DEF SysInv, CheckInv, CheckProofs!Inv, CheckProofs!Decided
    <2>3. CheckProofs!Diverged(res)
      BY <2>2 DEF CheckProofs!EvaluateSameKey
    <2> QED
      BY <2>3, DivergedCreated DEF SysInv
  <1> QED
    BY <1>1, Invariance, PTL

\* A PASS of the first run hides a second order only behind a retransmission
\* of net/http, or behind a replay attempt that was given up while its handler
\* went on, after no other request was answered with an order.
THEOREM PassHides == Spec => []PassHidesOnlyRepeats
  <1>1. SysInv => PassHidesOnlyRepeats
    <2> SUFFICES ASSUME SysInv, verdict = "pass", run = 1,
                        Cardinality(Created) > 1, ~resent
                 PROVE  NoneSucceeded /\ attempts > 1
      BY DEF PassHidesOnlyRepeats
    <2>1. /\ pc = "done" /\ ~CheckProofs!Diverged(res)
          /\ res.transport = 0
      BY CheckAssumptions, CheckProofs!PassRules DEF SysInv, CheckInv
    <2>2. ~SlotFailed
      <3> SUFFICES ASSUME NEW i \in Check!Slots, outs[i].kind = "error"
                   PROVE  FALSE
        BY DEF SlotFailed
      <3>1. CheckProofs!Shows(outs[i])
        BY <2>1, SlotCounted DEF SysInv, Check!Unsent
      <3> QED
        BY <2>1, <3>1 DEF CheckProofs!Shows
    <2>3. endpoint = "unsafe" /\ Created = orders
      BY CreatedSize DEF SysInv, Endpoints, UnsafeType, Created
    <2>4. PICK a, b \in orders : a # b
      BY <2>3, CreatedSize DEF SysInv
    <2>5. Untouched
      <3>1. CASE Got(a) /\ Got(b)
        <4>1. PICK i \in Check!Slots : Heard201(outs[i]) /\ outs[i].body = a
          BY <3>1 DEF Got
        <4>2. PICK j \in Check!Slots : Heard201(outs[j]) /\ outs[j].body = b
          BY <3>1 DEF Got
        <4> QED
          BY <2>1, <2>4, <4>1, <4>2, TwoHeardDiverge DEF SysInv
      <3> QED
        BY <2>1, <2>2, <2>3, <2>4, <3>1, DoneTraced DEF SysInv
    <2>6. NoneSucceeded
      BY <2>5 DEF Untouched, NoneSucceeded, Heard201
    <2>7. sent <= attempts
      <3>1. \A i \in Calls : flight[i] = 0
        BY <2>1, CallsAre DEF SysInv, Wired, Wants
      <3>2. \A i \in Check!Slots :
               ~(flight[i] # 0 \/ Heard201(outs[i]) \/ outs[i].kind = "error")
        BY <2>2, <2>5, <3>1, CallsAre DEF Untouched, SlotFailed
      <3>3. flight[Replay] = 0
        BY <3>1, CallsAre
      <3>4. sent <= attempts + 0
        BY <2>3, <3>2, <3>3 DEF SysInv, Few
      <3>5. attempts \in Nat
        BY CheckFacts, MaxAttemptsAssumption DEF SysInv, Check!TypeOK
      <3> QED
        BY <3>4, <3>5
    <2>8. sent > 1
      <3>1. PICK t \in Transmissions : hpc[t] \in {"save", "done"} /\ id[t] = a
        BY <2>3 DEF SysInv, Few
      <3>2. PICK u \in Transmissions : hpc[u] \in {"save", "done"} /\ id[u] = b
        BY <2>3 DEF SysInv, Few
      <3>3. ~(t > sent) /\ ~(u > sent)
        BY <2>3, <3>1, <3>2 DEF SysInv, Endpoints, UnsafeHandlers
      <3>4. t # u /\ t \in Nat \ {0} /\ u \in Nat \ {0} /\ sent \in Nat
        BY <2>4, <3>1, <3>2 DEF Transmissions, SysInv, Wired
      <3> QED
        BY <3>3, <3>4
    <2>9. attempts \in Nat /\ sent \in Nat
      BY CheckFacts, MaxAttemptsAssumption DEF SysInv, Check!TypeOK, Wired
    <2> QED
      BY <2>6, <2>7, <2>8, <2>9
  <1> QED
    BY <1>1, Invariance, PTL

\* Sequential requests on a quiet network make one order, on the endpoint that
\* loses the race as well.
THEOREM SequentialIsIdempotent == Spec => []SequentialLooksIdempotent
  <1>1. SysInv => SequentialLooksIdempotent
    <2> SUFFICES ASSUME SysInv, Quiet, ~concurrent
                 PROVE  ~(Cardinality(Created) > 1)
      BY CreatedSize DEF SequentialLooksIdempotent, SysInv
    <2>1. CASE endpoint = "safe"
      BY <2>1, CreatedSize DEF SysInv
    <2>2. CASE endpoint = "unsafe"
      <3>1. \E x : orders \subseteq {x}
        BY <2>2 DEF SysInv, OneByOne
      <3>2. ~ \E a, b \in Created : a # b
        BY <2>2, <3>1 DEF Created
      <3> QED
        BY <3>2, CreatedSize DEF SysInv
    <2> QED
      BY <2>1, <2>2 DEF SysInv, Endpoints, UnsafeType
  <1> QED
    BY <1>1, Invariance, PTL

\* On a quiet network the evidence is complete: nothing is lost, unreadable or
\* refused, and the verdict is decided by the bodies.
LEMMA QuietVerdict ==
    ASSUME SysInv, Quiet, verdict # "none"
    PROVE  /\ pc = "done" /\ \A i \in Check!Slots : Heard201(outs[i])
           /\ verdict = IF CheckProofs!Diverged(res) THEN "fail" ELSE "pass"
  <1>1. pc = "done"
    BY CheckFacts DEF SysInv
  <1>2. \A i \in Check!Slots : outs[i] # Check!Unsent /\ Heard201(outs[i])
    BY <1>1 DEF SysInv, Undisturbed, Served
  <1>3. pending = Check!Unsent \/ Heard201(pending)
    BY DEF SysInv, Undisturbed, Served
  <1>4. ASSUME NEW kinds, \A oc \in kinds : oc.kind \in {"error", "oversize"}
        PROVE  CheckProofs!Tally(kinds) = 0
    <2>1. pending \notin kinds
      BY <1>3, <1>4 DEF Heard201, Check!Unsent
    <2>2. \A i \in 1..(next - 1) : i \in Check!Slots
      BY NAssumption, CheckFacts DEF SysInv, Check!TypeOK, Check!Slots
    <2>3. \A i \in 1..(next - 1) : outs[i] \notin kinds
      BY <1>2, <1>4, <2>2 DEF Heard201
    <2> QED
      BY <2>1, <2>3, CheckAssumptions, CheckProofs!NoneOfThem
  <1>5. res.transport = 0 /\ res.oversize = 0
    <2>1. CheckProofs!Tally({CheckProofs!NoResponse}) = 0
      BY <1>4 DEF CheckProofs!NoResponse
    <2>2. CheckProofs!Tally(CheckProofs!OversizeBodies) = 0
      BY <1>4 DEF CheckProofs!OversizeBodies
    <2> QED
      BY <2>1, <2>2 DEF SysInv, CheckInv, CheckProofs!EvidenceAddsUp
  <1>6. \A f \in Answers201 \cup {<<500, 0>>, Busy503} :
           CheckProofs!Counts(f) => CheckProofs!Success(f[1])
    BY CountedReceived
       DEF SysInv, Undisturbed, Check!Success, CheckProofs!Success
  <1>7. ~CheckProofs!UnknownSeen(res) /\ ~CheckProofs!TransientSeen(res)
    BY <1>6 DEF CheckProofs!UnknownSeen, CheckProofs!TransientSeen,
       CheckProofs!Seen, CheckProofs!Counts
  <1>8. PICK f \in Answers201 \cup {<<500, 0>>, Busy503} :
           CheckProofs!Counts(f) /\ CheckProofs!Success(f[1])
    <2>1. 1 \in Check!Slots
      BY NAssumption DEF Check!Slots
    <2> QED
      BY <1>1, <1>2, <2>1, HeardCounts DEF SysInv
  <1>9. CheckProofs!SuccessBodies(res) # {}
    BY <1>8 DEF CheckProofs!SuccessBodies, CheckProofs!Seen, CheckProofs!Counts
  <1>10. res.observed > 0
    BY <1>8 DEF SysInv, CheckInv, CheckProofs!Inv, CheckProofs!Counted
  <1>11. verdict = CheckProofs!EvaluateSameKey(res, replay)
    BY <1>1 DEF SysInv, CheckInv, CheckProofs!Inv, CheckProofs!Decided
  <1> QED
    BY <1>1, <1>2, <1>5, <1>7, <1>9, <1>10, <1>11
       DEF CheckProofs!EvaluateSameKey

\* On a quiet network the verdict of the first run with a key counts the orders
\* the endpoint made for it: a FAIL when it made two, else a PASS.
THEOREM VerdictCounts == Spec => []VerdictCountsOrders
  <1>1. SysInv => VerdictCountsOrders
    <2> SUFFICES ASSUME SysInv, Quiet, run = 1, verdict # "none"
                 PROVE  verdict = IF Cardinality(Created) > 1 THEN "fail" ELSE "pass"
      BY DEF VerdictCountsOrders
    <2>1. /\ pc = "done" /\ \A i \in Check!Slots : Heard201(outs[i])
          /\ verdict = IF CheckProofs!Diverged(res) THEN "fail" ELSE "pass"
      BY QuietVerdict
    <2>2. Cardinality(Created) \in Nat
      BY CreatedSize DEF SysInv
    <2>3. CheckProofs!Diverged(res) => Cardinality(Created) > 1
      BY DivergedCreated DEF SysInv
    <2>4. ASSUME Cardinality(Created) > 1 PROVE CheckProofs!Diverged(res)
      <3>1. endpoint = "unsafe" /\ Created = orders
        BY <2>4, CreatedSize DEF SysInv, Endpoints, UnsafeType, Created
      <3>2. PICK a, b \in orders : a # b
        BY <2>4, <3>1, CreatedSize DEF SysInv
      <3>3. ~SlotFailed
        BY <2>1 DEF SlotFailed, Heard201
      <3>4. ~Untouched
        <4>1. 1 \in Check!Slots
          BY NAssumption DEF Check!Slots
        <4> QED
          BY <2>1, <4>1 DEF Untouched
      <3>5. ~resent
        BY DEF SysInv, Undisturbed, Quiet
      <3>6. Got(a) /\ Got(b)
        BY <2>1, <3>1, <3>3, <3>4, <3>5, DoneTraced DEF SysInv
      <3>7. PICK i \in Check!Slots : Heard201(outs[i]) /\ outs[i].body = a
        BY <3>6 DEF Got
      <3>8. PICK j \in Check!Slots : Heard201(outs[j]) /\ outs[j].body = b
        BY <3>6 DEF Got
      <3> QED
        BY <2>1, <3>2, <3>7, <3>8, TwoHeardDiverge DEF SysInv
    <2> QED
      BY <2>1, <2>2, <2>3, <2>4
  <1> QED
    BY <1>1, Invariance, PTL

\* On a quiet network the second run with a key passes, whatever the first one
\* found: the endpoint replays the order it has saved.  No failure is reproduced,
\* for any number of requests.
THEOREM RerunPasses ==
    Spec => [](Quiet /\ run = 2 /\ verdict # "none" => verdict = "pass")
  <1>1. SysInv => (Quiet /\ run = 2 /\ verdict # "none" => verdict = "pass")
    <2> SUFFICES ASSUME SysInv, Quiet, run = 2, verdict # "none"
                 PROVE  verdict = "pass"
      OBVIOUS
    <2>1. verdict = IF CheckProofs!Diverged(res) THEN "fail" ELSE "pass"
      BY QuietVerdict
    <2>2. CheckProofs!Diverged(res) =>
             /\ endpoint = "unsafe"
             /\ \E f, g \in answers : /\ Check!Success(f[1]) /\ Check!Success(g[1])
                                      /\ f[2] # g[2]
      BY DivergedCreated DEF SysInv
    <2>3. ~CheckProofs!Diverged(res)
      BY <2>2 DEF SysInv, Second
    <2> QED
      BY <2>1, <2>3
  <1> QED
    BY <1>1, Invariance, PTL

=============================================================================
