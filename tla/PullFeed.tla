------------------------------ MODULE PullFeed ------------------------------
(***************************************************************************)
(* What the pull points of onvif/events.go promise their clients, without  *)
(* the locks, the wake-up token and the steps of a request: every event    *)
(* reaches a feed at most once and is answered at most once.  An event     *)
(* that was accepted is lost only when the feed is full, or because it was *)
(* in an answer beyond the client's limit, and then something older of the *)
(* same answer was delivered.                                              *)
(***************************************************************************)
EXTENDS Naturals, FiniteSets

CONSTANTS
    Sub,        \* the subscriptions
    Event,      \* the events, numbered as they are published
    MaxEvents   \* events a feed holds

VARIABLES
    pending,    \* pending[s]: events accepted, neither answered nor lost
    given       \* given[s]: events answered

Newer(A, B) == \A a \in A, b \in B : a > b

Init ==
    /\ pending = [s \in Sub |-> {}]
    /\ given = [s \in Sub |-> {}]

\* A new event; a full feed loses one it held.
Accept(s) ==
    \E n \in Event :
        /\ Newer({n}, pending[s] \cup given[s])
        /\ \/ pending' = [pending EXCEPT ![s] = @ \cup {n}]
           \/ /\ Cardinality(pending[s]) >= MaxEvents
              /\ \E o \in pending[s] :
                    pending' = [pending EXCEPT ![s] = (@ \ {o}) \cup {n}]
        /\ UNCHANGED given

\* An answer: B is delivered, the newer part L of the same batch is lost.
Answer(s) ==
    \E B \in SUBSET pending[s] : \E L \in SUBSET (pending[s] \ B) :
        /\ B # {}
        /\ Newer(L, B)
        /\ pending' = [pending EXCEPT ![s] = @ \ (B \cup L)]
        /\ given' = [given EXCEPT ![s] = @ \cup B]

Next == \E s \in Sub : Accept(s) \/ Answer(s)

Spec == Init /\ [][Next]_<<pending, given>>
=============================================================================
