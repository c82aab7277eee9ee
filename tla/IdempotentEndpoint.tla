------------------------- MODULE IdempotentEndpoint -------------------------
(***************************************************************************)
(* What an endpoint promises that honours Idempotency-Key: per key one     *)
(* request is accepted, and every other request with that key is answered  *)
(* with the accepted order, or refused when it asks for something else.    *)
(* Each request is served in one step, whatever runs at the same time.     *)
(*                                                                         *)
(* An order is named by the request that created it: its body holds that   *)
(* request's item, quantity and the time it was made.                      *)
(***************************************************************************)
CONSTANTS
    Requests,   \* the requests that reach the endpoint
    Keys,       \* their idempotency keys
    Payloads,   \* their well-formed bodies
    Nobody      \* no request: not one of Requests

VARIABLES
    ask,        \* what each request asks for
    accepted,   \* per key: the request whose order was created
    answer      \* per request: what it is answered

\* A request without a key, or without a body that can be read.
Malformed == [key |-> "none", payload |-> "none"]
Asks == [key : Keys, payload : Payloads] \cup {Malformed}

Order(r) == [status |-> 201, by |-> r]
Conflict == [status |-> 409]
BadRequest == [status |-> 400]
Unanswered == [status |-> 0]

KeyOf(r) == ask[r].key
Wellformed(r) == ask[r] # Malformed

Init ==
    /\ ask \in [Requests -> Asks]
    /\ accepted = [k \in Keys |-> Nobody]
    /\ answer = [r \in Requests |-> Unanswered]

Reply(r, a) ==
    /\ answer[r] = Unanswered
    /\ answer' = [answer EXCEPT ![r] = a]
    /\ UNCHANGED ask

Accept(r) ==
    /\ Wellformed(r)
    /\ accepted[KeyOf(r)] = Nobody
    /\ accepted' = [accepted EXCEPT ![KeyOf(r)] = r]
    /\ Reply(r, Order(r))

Replay(r) ==
    /\ Wellformed(r)
    /\ accepted[KeyOf(r)] # Nobody
    /\ ask[accepted[KeyOf(r)]].payload = ask[r].payload
    /\ Reply(r, Order(accepted[KeyOf(r)]))
    /\ UNCHANGED accepted

RefuseReuse(r) ==
    /\ Wellformed(r)
    /\ accepted[KeyOf(r)] # Nobody
    /\ ask[accepted[KeyOf(r)]].payload # ask[r].payload
    /\ Reply(r, Conflict)
    /\ UNCHANGED accepted

RefuseMalformed(r) ==
    /\ ~Wellformed(r)
    /\ Reply(r, BadRequest)
    /\ UNCHANGED accepted

Next == \E r \in Requests :
            Accept(r) \/ Replay(r) \/ RefuseReuse(r) \/ RefuseMalformed(r)

Spec == Init /\ [][Next]_<<ask, accepted, answer>>

=============================================================================
