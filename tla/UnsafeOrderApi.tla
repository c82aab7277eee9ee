--------------------------- MODULE UnsafeOrderApi ---------------------------
(***************************************************************************)
(* The unsafe demo endpoint (examples/unsafe-order-api/main.go) as the     *)
(* requests with one idempotency key and one payload meet it.  The check   *)
(* of the key, the insertion of the order and the saving of the key are    *)
(* critical sections of one mutex; between them the handler sleeps.        *)
(*                                                                         *)
(* A definition named X_Y is X with the fault Y seeded: no specification   *)
(* uses it; it shows which property notices that fault.                    *)
(***************************************************************************)
EXTENDS Integers

CONSTANT Requests   \* the requests that may arrive

VARIABLES
    hpc,        \* where the handler of a request is
    id,         \* existingID, or the id of the order it made
    saved,      \* s.keys[key], 0 when absent
    nextID,     \* s.nextID, counted from 0
    orders,     \* the ids in s.orders
    answer      \* what the handler has answered

api == <<hpc, id, saved, nextID, orders, answer>>

Unanswered == [status |-> 0]
Order(n) == [status |-> 201, by |-> n]
Vanished == [status |-> 500]

Init ==
    /\ hpc = [r \in Requests |-> "none"]
    /\ id = [r \in Requests |-> 0]
    /\ saved = 0
    /\ nextID = 0
    /\ orders = {}
    /\ answer = [r \in Requests |-> Unanswered]

Goto(r, place) == hpc' = [hpc EXCEPT ![r] = place]

Arrive(r) ==
    /\ hpc[r] = "none"
    /\ Goto(r, "check")
    /\ UNCHANGED <<id, saved, nextID, orders, answer>>

CheckKey(r) ==
    /\ hpc[r] = "check"
    /\ id' = [id EXCEPT ![r] = saved]
    /\ Goto(r, IF saved # 0 THEN "write" ELSE "work")
    /\ UNCHANGED <<saved, nextID, orders, answer>>

Insert_BeforeIncrement(r) ==
    /\ hpc[r] = "work"
    /\ nextID' = nextID + 1
    /\ id' = [id EXCEPT ![r] = nextID + 1]
    /\ orders' = orders \cup {nextID}
    /\ Goto(r, "save")
    /\ UNCHANGED <<saved, answer>>

\* After the sleep.
Insert(r) ==
    /\ hpc[r] = "work"
    /\ nextID' = nextID + 1
    /\ id' = [id EXCEPT ![r] = nextID + 1]
    /\ orders' = orders \cup {nextID + 1}
    /\ Goto(r, "save")
    /\ UNCHANGED <<saved, answer>>

SaveKey_Forgotten(r) ==
    /\ hpc[r] = "save"
    /\ answer' = [answer EXCEPT ![r] = Order(id[r])]
    /\ Goto(r, "done")
    /\ UNCHANGED <<id, saved, nextID, orders>>

SaveKey(r) ==
    /\ hpc[r] = "save"
    /\ saved' = id[r]
    /\ answer' = [answer EXCEPT ![r] = Order(id[r])]
    /\ Goto(r, "done")
    /\ UNCHANGED <<id, nextID, orders>>

WriteOrder(r) ==
    /\ hpc[r] = "write"
    /\ answer' = [answer EXCEPT ![r] =
                     IF id[r] \in orders THEN Order(id[r]) ELSE Vanished]
    /\ Goto(r, "done")
    /\ UNCHANGED <<id, saved, nextID, orders>>

Handler(r) == CheckKey(r) \/ Insert(r) \/ SaveKey(r) \/ WriteOrder(r)

=============================================================================
