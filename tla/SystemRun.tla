----------------------------- MODULE SystemRun ------------------------------
(***************************************************************************)
(* The tool at work: one same-key check (SameKeyCheck) against an order    *)
(* endpoint, the safe one, as the IdempotentEndpoint it implements, or the *)
(* unsafe one (UnsafeOrderApi), and then the same check again with the     *)
(* same key against the endpoint that remembers it.                        *)
(*                                                                         *)
(* A request of the check is a transmission with a handler of its own at   *)
(* the endpoint.  What the check gets for it is the handler's answer, or   *)
(* nothing: the request may be lost, refused with a 503 before it reaches  *)
(* the endpoint, or timed out, and then its handler goes on by itself; and *)
(* net/http sends a keyed request again, unseen, when the connection it    *)
(* reused closes before the answer.                                        *)
(***************************************************************************)
EXTENDS Integers, FiniteSets

CONSTANTS
    N,              \* requests of the check
    MaxAttempts,    \* replay attempts
    Transient,      \* the statuses the policy tolerates
    MaxFaults,      \* bound: requests the network disturbs, of a sequential
    MaxBurstFaults  \* check and of a burst

ASSUME NAssumption == N \in Nat \ {0}
ASSUME MaxAttemptsAssumption == MaxAttempts \in Nat \ {0}
ASSUME TransientAssumption == Transient \subseteq 100..599
ASSUME FaultsAssumption == MaxFaults \in Nat /\ MaxBurstFaults \in 0..MaxFaults

VARIABLES
    \* the check
    concurrent, pc, outs, next, res, pending, attempts, replay, ctxDone, late,
    verdict, answers,
    \* the unsafe endpoint
    hpc, id, saved, nextID, orders,
    \* the safe endpoint
    accepted,
    \* both: what each handler answered
    answer,
    \* between them
    endpoint,   \* which endpoint is under test
    run,        \* the first run with the key or the second
    sent,       \* transmissions so far
    flight,     \* per request of the check: its transmission, 0 when none
    faults,     \* history: requests the network disturbed
    resent,     \* history: net/http sent a request again
    cancelled,  \* history: a run was cancelled
    before      \* history: orders the key had when the run began

MaxSent == N + MaxAttempts + MaxFaults
Transmissions == 1..MaxSent
OrderIds == 1..(2 * MaxSent)
Busy503 == <<503, 0>>
Answers201 == {<<201, b>> : b \in OrderIds}

Check == INSTANCE SameKeyCheck WITH
            Bodies <- OrderIds \cup {0},
            Fingerprints <- Answers201 \cup {<<500, 0>>, Busy503}
Unsafe == INSTANCE UnsafeOrderApi WITH Requests <- Transmissions
Safe == INSTANCE IdempotentEndpoint WITH
            Requests <- Transmissions, Keys <- {"key"}, Payloads <- {"body"},
            Nobody <- 0,
            ask <- [t \in Transmissions |-> [key |-> "key", payload |-> "body"]]

check == <<concurrent, pc, outs, next, res, pending, attempts, replay, ctxDone,
           late, verdict, answers>>
api == <<hpc, id, saved, nextID, orders, accepted, answer>>
wire == <<sent, flight, faults, resent>>
about == <<endpoint, run, cancelled, before>>
vars == <<check, api, wire, about>>

FaultBound == IF concurrent THEN MaxBurstFaults ELSE MaxFaults

Replay == 0
Calls == 0..N

\* The orders the endpoint has created for the key.
Created == IF endpoint = "safe"
           THEN {accepted["key"]} \ {0} ELSE orders

Init ==
    /\ Check!Init
    /\ Unsafe!Init
    /\ accepted = [k \in {"key"} |-> 0]
    /\ endpoint \in {"safe", "unsafe"}
    /\ run = 1
    /\ sent = 0
    /\ flight = [i \in Calls |-> 0]
    /\ faults = 0
    /\ resent = FALSE
    /\ cancelled = FALSE
    /\ before = 0

-----------------------------------------------------------------------------
(* The requests of the check.                                              *)

\* The check is about to make, or waits for, this request.
Wants(i) ==
    IF i = Replay THEN pc = "replay"
    ELSE /\ outs[i] = Check!Unsent
         /\ \/ pc = "burst"
            \/ /\ pc = "send" /\ ~ctxDone
               /\ \A j \in 1..(i - 1) : outs[j] # Check!Unsent

\* The check gets oc for the request.
Gets(i, oc) ==
    /\ IF i = Replay THEN Check!ReplayAttempt /\ pending' = oc
       ELSE (Check!SendNext(i) \/ Check!WorkerAnswers(i)) /\ outs'[i] = oc
    /\ flight' = [flight EXCEPT ![i] = 0]

\* The request reaches the endpoint.
Arrives(t) ==
    /\ sent' = t
    /\ IF endpoint = "unsafe" THEN Unsafe!Arrive(t) /\ UNCHANGED accepted
                              ELSE UNCHANGED api

Transmit(i) ==
    /\ Wants(i) /\ ~ctxDone
    /\ flight[i] = 0
    /\ flight' = [flight EXCEPT ![i] = sent + 1]
    /\ Arrives(sent + 1)
    /\ UNCHANGED <<check, faults, resent, about>>

Outcome(a) ==
    [kind |-> "response", status |-> a.status,
     body |-> IF a.status = 201 THEN a.by ELSE 0]

Receive(i) ==
    /\ flight[i] # 0
    /\ answer[flight[i]] # Safe!Unanswered
    /\ Gets(i, Outcome(answer[flight[i]]))
    /\ UNCHANGED <<api, sent, faults, resent, about>>

\* Not sent, lost on the way, timed out, or given up with the context.
Fail(i) ==
    /\ Wants(i)
    /\ \/ ctxDone /\ UNCHANGED faults
       \/ ~ctxDone /\ faults < FaultBound /\ faults' = faults + 1
    /\ Gets(i, Check!NoResponse)
    /\ UNCHANGED <<api, sent, resent, about>>

\* A gateway refuses the request in place of the endpoint.
Throttle(i) ==
    /\ Wants(i) /\ ~ctxDone
    /\ flight[i] = 0
    /\ faults < FaultBound /\ faults' = faults + 1
    /\ Gets(i, [kind |-> "response", status |-> 503, body |-> 0])
    /\ UNCHANGED <<api, sent, resent, about>>

\* Only the first request of the tool has no connection to reuse.
Resend(i) ==
    /\ flight[i] # 0 /\ ~ctxDone
    /\ concurrent \/ run = 2 \/ i # 1
    /\ faults < FaultBound /\ faults' = faults + 1
    /\ resent' = TRUE
    /\ flight' = [flight EXCEPT ![i] = sent + 1]
    /\ Arrives(sent + 1)
    /\ UNCHANGED <<check, about>>

\* Steps of the check that read nothing of the endpoint and nothing the
\* endpoint reads: in any order with a handler's step they come to the same,
\* so the handlers wait for them here, and the context and the deadline change
\* only where the check reads them next.
Local == {"collect", "finalize", "evaluate"}

Serve(t) ==
    /\ t <= sent
    /\ pc \notin Local
    /\ \/ /\ endpoint = "unsafe" /\ Unsafe!Handler(t)
          /\ UNCHANGED accepted
       \/ /\ endpoint = "safe" /\ (Safe!Accept(t) \/ Safe!Replay(t))
          /\ UNCHANGED <<hpc, id, saved, nextID, orders>>
    /\ UNCHANGED <<check, wire, about>>

-----------------------------------------------------------------------------
(* What the check does by itself, and the second run.                      *)

Engine ==
    /\ \/ Check!StopSending \/ Check!OpenGate \/ Check!AbortAtGate
       \/ Check!BurstComplete \/ Check!CollectNext \/ Check!CollectDone
       \/ Check!DecideReplay \/ Check!RetryReplay \/ Check!MergeReplay
       \/ Check!Evaluate
       \/ Check!DeadlinePasses /\ ~Check!FinalAttempt
    /\ UNCHANGED <<api, wire, about>>

\* A request in flight fails with the context: first Fail, then Cancel.
Cancel ==
    /\ Check!Cancel
    /\ pc \notin Local
    /\ pc = "send" => \A i \in Calls : flight[i] = 0
    /\ cancelled' = TRUE
    /\ UNCHANGED <<api, wire, endpoint, run, before>>

\* The tool is started again with the same --key, once the endpoint is done
\* with the first run.  The endpoint keeps its orders; the transmissions of the
\* second run are counted from 1 again.
RunAgain ==
    /\ Check!Finished
    /\ run = 1 /\ run' = 2
    /\ \A t \in 1..sent : answer[t] # Safe!Unanswered
    /\ before' = Cardinality(Created)
    /\ concurrent' = concurrent
    /\ pc' = IF concurrent THEN "gate" ELSE "send"
    /\ outs' = [i \in Check!Slots |-> Check!Unsent]
    /\ next' = 1
    /\ res' = Check!EmptyResult
    /\ pending' = Check!Unsent
    /\ attempts' = 0
    /\ replay' = "none"
    /\ ctxDone' = FALSE
    /\ late' = FALSE
    /\ verdict' = "none"
    /\ answers' = {}
    /\ hpc' = [t \in Transmissions |-> "none"]
    /\ id' = [t \in Transmissions |-> 0]
    /\ answer' = [t \in Transmissions |-> Safe!Unanswered]
    /\ sent' = 0
    /\ flight' = [i \in Calls |-> 0]
    /\ UNCHANGED <<saved, nextID, orders, accepted, faults, resent, endpoint,
                   cancelled>>

Over == Check!Finished /\ run = 2 /\ UNCHANGED vars

Next ==
    \/ \E i \in Calls :
          Transmit(i) \/ Receive(i) \/ Fail(i) \/ Throttle(i) \/ Resend(i)
    \/ \E t \in Transmissions : Serve(t)
    \/ Engine \/ Cancel \/ RunAgain \/ Over

Spec == Init /\ [][Next]_vars

-----------------------------------------------------------------------------
(* Properties.                                                             *)

TypeOK ==
    /\ Check!TypeOK
    /\ sent \in 0..MaxSent
    /\ flight \in [Calls -> 0..MaxSent]
    /\ faults \in 0..FaultBound

Quiet == faults = 0 /\ ~cancelled

\* The tool never accuses: whatever the network loses, delays or repeats and
\* whenever the run is interrupted, a FAIL means that the endpoint made two
\* orders for one key.  The safe endpoint makes one.
FailMeansTwoOrders ==
    verdict = "fail" => endpoint = "unsafe" /\ Cardinality(Created) > 1

\* On a quiet network the verdict of a run with a new key says how many orders
\* the endpoint made: every double order of a burst is reported, whichever
\* handler saves the key last.
VerdictCountsOrders ==
    Quiet /\ run = 1 /\ verdict # "none" =>
        verdict = IF Cardinality(Created) > 1 THEN "fail" ELSE "pass"

\* "Deterministic re-run of a reported failure" with its --key: on a quiet
\* network, where a first run that made two orders has failed
\* (VerdictCountsOrders), the second run with the same key fails again.
RerunReproducesFailure ==
    Quiet /\ run = 2 /\ before > 1 /\ verdict # "none" => verdict = "fail"

\* No request but the replay's was answered with an order.
NoneSucceeded ==
    \A i \in Check!Slots :
        outs[i].kind = "response" => ~Check!Success(outs[i].status)

\* A PASS of the first run with a key hides a second order only if net/http
\* sent a request again, which the tool cannot see, or if every request was
\* refused on its way and the replay, timed out once, was tried again while
\* the endpoint still worked on it: the attempt that is given up is dropped.
PassHidesOnlyRepeats ==
    verdict = "pass" /\ run = 1 /\ Cardinality(Created) > 1 =>
        resent \/ (NoneSucceeded /\ attempts > 1)

\* "Sequential retries look idempotent, only concurrency breaks it."
SequentialLooksIdempotent ==
    Quiet /\ ~concurrent => Cardinality(Created) <= 1

\* The order whose id is saved for a key is there: no request is answered
\* 500 "order vanished".
NoOrderVanishes ==
    \A t \in Transmissions : answer[t].status # 500

=============================================================================
