---------------------------- MODULE BarrierBurst ----------------------------
(***************************************************************************)
(* The barrier-synchronized burst of the concurrent check: the N worker    *)
(* goroutines and the goroutine that holds the gate                        *)
(* (internal/engine/concurrency.go, Concurrent and buildTimings).          *)
(*                                                                         *)
(* The channels are what the program uses them for: `ready` counts tokens, *)
(* `start` is open until it is closed, and `release` is a variable that    *)
(* one goroutine writes and the workers read without a lock.  How a burst  *)
(* becomes a verdict is SameKeyCheck.  A definition named X_Y is X with the *)
(* fault Y seeded; no specification uses it.                               *)
(***************************************************************************)
EXTENDS Integers, FiniteSets

CONSTANT Workers

ASSUME WorkersAssumption == IsFiniteSet(Workers) /\ Workers # {}

N == Cardinality(Workers)

VARIABLES
    pc,         \* the gate holder
    wpc,        \* each worker
    ready,      \* tokens in the buffered channel
    received,   \* tokens the gate holder took out
    start,      \* the start channel: "open" or "closed"
    release,    \* the release timestamp has been written
    ctxDone,    \* the run's context is cancelled
    out,        \* each worker's outcome slot
    offset,     \* each worker's offset: read from a written release or not
    wire        \* history: workers whose request reached the network

vars == <<pc, wpc, ready, received, start, release, ctxDone, out, offset, wire>>

Slot == {"empty", "answer", "failed", "aborted"}

TypeOK ==
    /\ pc \in {"hold", "release", "wait", "giveup", "returned", "error"}
    /\ wpc \in [Workers -> {"spawned", "parked", "sending", "exited"}]
    /\ ready \in Nat /\ received \in Nat /\ ready + received <= N
    /\ start \in {"open", "closed"}
    /\ release \in BOOLEAN
    /\ ctxDone \in BOOLEAN
    /\ out \in [Workers -> Slot]
    /\ offset \in [Workers -> {"zero", "measured", "garbage"}]
    /\ wire \subseteq Workers

Init ==
    /\ pc = "hold"
    /\ wpc = [w \in Workers |-> "spawned"]
    /\ ready = 0 /\ received = 0
    /\ start = "open"
    /\ release = FALSE
    /\ ctxDone = FALSE
    /\ out = [w \in Workers |-> "empty"]
    /\ offset = [w \in Workers |-> "zero"]
    /\ wire = {}

-----------------------------------------------------------------------------
(* A worker: signal READY, park on start, fire.                            *)

MaySignal_Again(w) == wpc[w] \in {"spawned", "parked"}
MaySignal_AfterStart(w) == wpc[w] = "spawned" /\ start = "closed"
MaySignal(w) == wpc[w] = "spawned"

Signal(w) ==
    /\ MaySignal(w)
    /\ ready < N                          \* the channel's buffer
    /\ ready' = ready + 1
    /\ wpc' = [wpc EXCEPT ![w] = "parked"]
    /\ UNCHANGED <<pc, received, start, release, ctxDone, out, offset, wire>>

\* Nothing of a request whose context is done reaches the wire.
Sent(w) == IF ctxDone THEN {} ELSE {w}

Fire(w) ==
    /\ wpc[w] = "parked"
    /\ start = "closed"
    /\ offset' = [offset EXCEPT ![w] = IF release THEN "measured" ELSE "garbage"]
    /\ wire' = wire \cup Sent(w)
    /\ wpc' = [wpc EXCEPT ![w] = "sending"]
    /\ UNCHANGED <<pc, ready, received, start, release, ctxDone, out>>

\* The select may as well take ctx.Done when both are ready.
Abandon(w) ==
    /\ wpc[w] = "parked"
    /\ ctxDone
    /\ out' = [out EXCEPT ![w] = "aborted"]
    /\ wpc' = [wpc EXCEPT ![w] = "exited"]
    /\ UNCHANGED <<pc, ready, received, start, release, ctxDone, offset, wire>>

Complete(w) ==
    /\ wpc[w] = "sending"
    /\ \E o \in IF w \in wire THEN {"answer", "failed"} ELSE {"failed"} :
          out' = [out EXCEPT ![w] = o]
    /\ wpc' = [wpc EXCEPT ![w] = "exited"]
    /\ UNCHANGED <<pc, ready, received, start, release, ctxDone, offset, wire>>

-----------------------------------------------------------------------------
(* The gate holder.                                                        *)

AllReceived_OneShort == received >= N - 1
AllReceived == received = N

ReceiveReady ==
    /\ pc = "hold"
    /\ ~AllReceived
    /\ ready > 0
    /\ ready' = ready - 1
    /\ received' = received + 1
    /\ UNCHANGED <<pc, wpc, start, release, ctxDone, out, offset, wire>>

GiveUp ==
    /\ pc = "hold"
    /\ ~AllReceived
    /\ ctxDone
    /\ start' = "closed"
    /\ pc' = "giveup"
    /\ UNCHANGED <<wpc, ready, received, release, ctxDone, out, offset, wire>>

StampRelease ==
    /\ pc = "hold"
    /\ AllReceived
    /\ release' = TRUE
    /\ pc' = "release"
    /\ UNCHANGED <<wpc, ready, received, start, ctxDone, out, offset, wire>>

CloseStart ==
    /\ pc = "release"
    /\ start' = "closed"
    /\ pc' = "wait"
    /\ UNCHANGED <<wpc, ready, received, release, ctxDone, out, offset, wire>>

\* wg.Wait.
GroupDone_NotAwaitedOnError ==
    pc = "giveup" \/ \A w \in Workers : wpc[w] = "exited"
GroupDone == \A w \in Workers : wpc[w] = "exited"

Return ==
    /\ GroupDone
    /\ \/ pc = "wait" /\ pc' = "returned"
       \/ pc = "giveup" /\ pc' = "error"
    /\ UNCHANGED <<wpc, ready, received, start, release, ctxDone, out, offset, wire>>

\* buildTimings leaves out the workers that never called Do.
Timed_All == Workers
Timed == {w \in Workers : out[w] # "aborted"}

-----------------------------------------------------------------------------
Cancel ==
    /\ ~ctxDone
    /\ pc \notin {"returned", "error"}
    /\ ctxDone' = TRUE
    /\ UNCHANGED <<pc, wpc, ready, received, start, release, out, offset, wire>>

Worker(w) == Signal(w) \/ Fire(w) \/ Abandon(w) \/ Complete(w)
Main == ReceiveReady \/ GiveUp \/ StampRelease \/ CloseStart \/ Return
Over == pc \in {"returned", "error"} /\ UNCHANGED vars

Next == (\E w \in Workers : Worker(w)) \/ Main \/ Cancel \/ Over

\* The Go scheduler runs every goroutine that can run, and the client's
\* timeout ends every request.
Spec == Init /\ [][Next]_vars /\ WF_vars(Main) /\ \A w \in Workers : WF_vars(Worker(w))

-----------------------------------------------------------------------------
(* Properties.                                                             *)

\* The barrier: no request is on the wire before all workers were ready, and
\* an abandoned gate fires nothing, although giving up closes the very channel
\* the workers wait for (Concurrent, steps 1 to 5).
Barrier == INSTANCE Rendezvous WITH
    arrived <- {w \in Workers : wpc[w] # "spawned"},
    fired <- wire,
    calledOff <- pc \in {"giveup", "error"}
ImplementsRendezvous == Barrier!Spec

\* When Concurrent returns, no goroutine is left behind and every slot was
\* written by its worker, on the error path as well.
NoWorkerLeft ==
    pc \in {"returned", "error"} =>
        \A w \in Workers : wpc[w] = "exited" /\ out[w] # "empty"

\* Every timing record of a returned burst was measured from the release
\* timestamp: the workers read it only after it was written (the channel close
\* publishes it), and one that never fired has no record.
TimingsAreMeasured ==
    pc = "returned" => \A w \in Timed : offset[w] = "measured"

\* The burst returns whatever the interleaving of workers, gate and Ctrl-C:
\* nobody waits for a token or a close that never comes.
Returns == <>(pc \in {"returned", "error"})

=============================================================================
