------------------------------- MODULE Events -------------------------------
(***************************************************************************)
(* The pull-point subscriptions of onvif/events.go: the publisher (the PTZ *)
(* state's onChange callback), the HTTP requests PullMessages, Renew,      *)
(* Unsubscribe and CreatePullPointSubscription, and the cleanup loop.      *)
(*                                                                         *)
(* es.mu is held for reading by the publisher over its whole iteration and *)
(* for writing by the cleanup loop over its own; the other uses of it last *)
(* one action.  sub.mu never outlives an action.  Renew writes             *)
(* TerminationTime under sub.mu while the cleanup loop reads it under      *)
(* es.mu, so a renewal may fall between the loop's look and its delete.    *)
(*                                                                         *)
(* An event is its number; the clock counts in units of the durations that *)
(* matter.  A timer may fire at any time after it was set: a client may    *)
(* ask for any timeout.                                                    *)
(***************************************************************************)
EXTENDS Naturals, Sequences, FiniteSets

CONSTANTS
    Sub,        \* the subscriptions that are ever created
    Request,    \* concurrent HTTP requests
    MaxEvents,  \* maxEventsPerSub (100)
    Limits,     \* message limits clients ask for
    Lifetimes,  \* initial termination times clients ask for
    Renewal,    \* what Renew adds (60 s)
    MaxEvent,   \* bound: events published
    MaxClock,   \* bound: the clock stops here
    None        \* nil

ASSUME EventsAssumption ==
    /\ MaxEvents \in Nat \ {0}
    /\ Limits \subseteq Nat \ {0}
    /\ Lifetimes \subseteq Nat
    /\ Renewal \in Nat
    /\ MaxEvent \in Nat
    /\ MaxClock \in Nat
    /\ None \notin Sub /\ \A S \in SUBSET Sub : S # None

VARIABLES
    clock,
    created,      \* subscriptions handed out so far
    registered,   \* es.subs
    term,         \* term[s]: sub.TerminationTime
    events,       \* events[s]: sub.events
    notify,       \* notify[s]: the token is in sub.notify
    published,    \* number of the newest event
    pubTodo,      \* subscriptions the publisher has still to visit, or None
    pubAt,        \* the subscription it has appended to and not yet notified
    now,          \* the time the cleanup loop has sampled, or None
    clnTodo,      \* subscriptions it has still to look at, or None: no lock
    victim,       \* the one it found expired and has not deleted yet
    pc,           \* pc[r]: where request r is
    on,           \* on[r]: the subscription it got from getSub
    batch,        \* batch[r]: the events it has taken
    given,        \* history: given[s], the events answered
    late          \* history: renewed while the cleanup loop held es.mu

subVars == <<created, registered, term, events, notify>>
pubVars == <<published, pubTodo, pubAt>>
clnVars == <<now, clnTodo, victim>>
reqVars == <<pc, on, batch>>
hisVars == <<given, late>>
vars    == <<clock, subVars, pubVars, clnVars, reqVars, hisVars>>

Event == 1..MaxEvent

TypeOK ==
    /\ clock \in 0..MaxClock
    /\ registered \subseteq created /\ created \subseteq Sub
    /\ term \in [Sub -> Nat]
    /\ \A s \in Sub : events[s] \in Seq(Event) /\ Len(events[s]) <= MaxEvents
    /\ notify \in [Sub -> BOOLEAN]
    /\ published \in 0..MaxEvent
    /\ pubTodo = None \/ pubTodo \subseteq registered
    /\ pubAt \in Sub \cup {None}
    /\ now \in 0..MaxClock \cup {None}
    /\ clnTodo = None \/ clnTodo \subseteq registered
    /\ victim \in Sub \cup {None}
    /\ pc \in [Request -> {"idle", "pull", "empty", "waiting", "woken", "pulled", "renew"}]
    /\ on \in [Request -> Sub \cup {None}]
    /\ \A r \in Request : batch[r] \in Seq(Event)
    /\ given \in [Sub -> SUBSET Event]
    /\ late \subseteq Sub

Init ==
    /\ clock = 0
    /\ created = {} /\ registered = {}
    /\ term = [s \in Sub |-> 0]
    /\ events = [s \in Sub |-> <<>>]
    /\ notify = [s \in Sub |-> FALSE]
    /\ published = 0 /\ pubTodo = None /\ pubAt = None
    /\ now = None /\ clnTodo = None /\ victim = None
    /\ pc = [r \in Request |-> "idle"]
    /\ on = [r \in Request |-> None]
    /\ batch = [r \in Request |-> <<>>]
    /\ given = [s \in Sub |-> {}]
    /\ late = {}

Tick ==
    /\ clock < MaxClock
    /\ clock' = clock + 1
    /\ UNCHANGED <<subVars, pubVars, clnVars, reqVars, hisVars>>

\* es.mu
CanRead  == clnTodo = None
CanWrite == clnTodo = None /\ pubTodo = None
----------------------------------------------------------------------------
\* OnPTZPositionChanged

PublishBegin ==
    /\ pubTodo = None
    /\ CanRead
    /\ published < MaxEvent
    /\ published' = published + 1
    /\ pubTodo' = registered
    /\ UNCHANGED <<clock, subVars, pubAt, clnVars, reqVars, hisVars>>

\* Mutant: the oldest is dropped one too late.
PushOneMore(s) ==
    events' = [events EXCEPT ![s] =
        Append(IF Len(@) > MaxEvents THEN Tail(@) ELSE @, published)]

\* A full queue loses its oldest event.
Push(s) ==
    events' = [events EXCEPT ![s] =
        Append(IF Len(@) >= MaxEvents THEN Tail(@) ELSE @, published)]

PublishAppend ==
    /\ pubTodo # None /\ pubAt = None
    /\ \E s \in pubTodo :
        /\ Push(s)
        /\ pubTodo' = pubTodo \ {s}
        /\ pubAt' = s
    /\ UNCHANGED <<clock, created, registered, term, notify, published,
                   clnVars, reqVars, hisVars>>

\* Mutant: sub.notify has no buffer.
NotifyUnbuffered ==
    /\ pubAt # None
    /\ notify' = [notify EXCEPT ![pubAt] = \E r \in Request :
                                   on[r] = pubAt /\ pc[r] = "waiting"]
    /\ pubAt' = None
    /\ UNCHANGED <<clock, created, registered, term, events, published, pubTodo,
                   clnVars, reqVars, hisVars>>

\* Mutant: the send has no default branch.
NotifyBlocking ==
    /\ pubAt # None
    /\ ~notify[pubAt]
    /\ notify' = [notify EXCEPT ![pubAt] = TRUE]
    /\ pubAt' = None
    /\ UNCHANGED <<clock, created, registered, term, events, published, pubTodo,
                   clnVars, reqVars, hisVars>>

\* The non-blocking send on a channel of one.
PublishNotify ==
    /\ pubAt # None
    /\ notify' = [notify EXCEPT ![pubAt] = TRUE]
    /\ pubAt' = None
    /\ UNCHANGED <<clock, created, registered, term, events, published, pubTodo,
                   clnVars, reqVars, hisVars>>

PublishEnd ==
    /\ pubTodo = {} /\ pubAt = None
    /\ pubTodo' = None
    /\ UNCHANGED <<clock, subVars, published, pubAt, clnVars, reqVars, hisVars>>
----------------------------------------------------------------------------
\* Requests

Create(r, s) ==
    /\ pc[r] = "idle"
    /\ CanWrite
    /\ s \notin created
    /\ created' = created \cup {s}
    /\ registered' = registered \cup {s}
    /\ \E d \in Lifetimes : term' = [term EXCEPT ![s] = clock + d]
    /\ UNCHANGED <<clock, events, notify, pubVars, clnVars, reqVars, hisVars>>

\* Unsubscribe: removeSub, whether the subscription is known or not.
Unsubscribe(r, s) ==
    /\ pc[r] = "idle"
    /\ CanWrite
    /\ registered' = registered \ {s}
    /\ UNCHANGED <<clock, created, term, events, notify, pubVars, clnVars,
                   reqVars, hisVars>>

\* getSub: an unknown subscription is answered with a fault.
Find(r, s, op) ==
    /\ pc[r] = "idle"
    /\ CanRead
    /\ s \in registered
    /\ pc' = [pc EXCEPT ![r] = op]
    /\ on' = [on EXCEPT ![r] = s]
    /\ UNCHANGED <<clock, subVars, pubVars, clnVars, batch, hisVars>>

\* The queue goes to the request, under sub.mu.
TakeAll(r) ==
    /\ batch' = [batch EXCEPT ![r] = events[on[r]]]
    /\ events' = [events EXCEPT ![on[r]] = <<>>]

\* Mutant: sub.events is not reset.
PullTakeCopy(r) ==
    /\ pc[r] = "pull"
    /\ batch' = [batch EXCEPT ![r] = events[on[r]]]
    /\ pc' = [pc EXCEPT ![r] = IF events[on[r]] = <<>> THEN "empty" ELSE "pulled"]
    /\ UNCHANGED <<clock, subVars, pubVars, clnVars, on, hisVars>>

PullTake(r) ==
    /\ pc[r] = "pull"
    /\ TakeAll(r)
    /\ pc' = [pc EXCEPT ![r] = IF events[on[r]] = <<>> THEN "empty" ELSE "pulled"]
    /\ UNCHANGED <<clock, created, registered, term, notify, pubVars, clnVars,
                   on, hisVars>>

\* The timer is set and the request sleeps.
PullWait(r) ==
    /\ pc[r] = "empty"
    /\ pc' = [pc EXCEPT ![r] = "waiting"]
    /\ UNCHANGED <<clock, subVars, pubVars, clnVars, on, batch, hisVars>>

PullWake(r) ==
    /\ pc[r] = "waiting"
    /\ notify[on[r]]
    /\ notify' = [notify EXCEPT ![on[r]] = FALSE]
    /\ pc' = [pc EXCEPT ![r] = "woken"]
    /\ UNCHANGED <<clock, created, registered, term, events, pubVars, clnVars,
                   on, batch, hisVars>>

PullTimeout(r) ==
    /\ pc[r] = "waiting"
    /\ pc' = [pc EXCEPT ![r] = "pulled"]
    /\ UNCHANGED <<clock, subVars, pubVars, clnVars, on, batch, hisVars>>

\* The second take; a token left by an event that was already pulled finds
\* nothing, and the answer is empty.
PullRetake(r) ==
    /\ pc[r] = "woken"
    /\ TakeAll(r)
    /\ pc' = [pc EXCEPT ![r] = "pulled"]
    /\ UNCHANGED <<clock, created, registered, term, notify, pubVars, clnVars,
                   on, hisVars>>

\* Mutant: the answer is the newest part of the batch.
CutNewest(q, n) == IF Len(q) > n THEN SubSeq(q, Len(q) - n + 1, Len(q)) ELSE q

\* events[:limit]; the rest of the batch is gone.
Cut(q, n) == IF Len(q) > n THEN SubSeq(q, 1, n) ELSE q

Elements(q) == {q[i] : i \in 1..Len(q)}

PullAnswer(r) ==
    /\ pc[r] = "pulled"
    /\ \E n \in Limits :
        given' = [given EXCEPT ![on[r]] = @ \cup Elements(Cut(batch[r], n))]
    /\ pc' = [pc EXCEPT ![r] = "idle"]
    /\ on' = [on EXCEPT ![r] = None]
    /\ batch' = [batch EXCEPT ![r] = <<>>]
    /\ UNCHANGED <<clock, subVars, pubVars, clnVars, late>>

\* Renew, also of a subscription that was removed after getSub.
Renew(r) ==
    /\ pc[r] = "renew"
    /\ term' = [term EXCEPT ![on[r]] = clock + Renewal]
    /\ late' = IF clnTodo = None THEN late ELSE late \cup {on[r]}
    /\ pc' = [pc EXCEPT ![r] = "idle"]
    /\ on' = [on EXCEPT ![r] = None]
    /\ UNCHANGED <<clock, created, registered, events, notify, pubVars, clnVars,
                   batch, given>>
----------------------------------------------------------------------------
\* cleanupLoop

CleanSample ==
    /\ now = None
    /\ now' = clock
    /\ UNCHANGED <<clock, subVars, pubVars, clnTodo, victim, reqVars, hisVars>>

CleanLock ==
    /\ now # None
    /\ CanWrite
    /\ clnTodo' = registered
    /\ late' = {}
    /\ UNCHANGED <<clock, subVars, pubVars, now, victim, reqVars, given>>

\* Mutant: !now.Before(TerminationTime).
ExpiredOnTime(s) == now >= term[s]

\* now.After(TerminationTime)
Expired(s) == now > term[s]

CleanLook ==
    /\ clnTodo # None /\ victim = None
    /\ \E s \in clnTodo :
        /\ clnTodo' = clnTodo \ {s}
        /\ victim' = IF Expired(s) THEN s ELSE None
    /\ UNCHANGED <<clock, subVars, pubVars, now, reqVars, hisVars>>

CleanDelete ==
    /\ victim # None
    /\ registered' = registered \ {victim}
    /\ victim' = None
    /\ UNCHANGED <<clock, created, term, events, notify, pubVars, now, clnTodo,
                   reqVars, hisVars>>

CleanUnlock ==
    /\ clnTodo = {} /\ victim = None
    /\ clnTodo' = None
    /\ now' = None
    /\ UNCHANGED <<clock, subVars, pubVars, victim, reqVars, hisVars>>
----------------------------------------------------------------------------
Publisher == PublishBegin \/ PublishAppend \/ PublishNotify \/ PublishEnd
Cleaner   == CleanLook \/ CleanDelete \/ CleanUnlock
Puller(r) == PullTake(r) \/ PullWait(r) \/ PullWake(r) \/ PullTimeout(r)
             \/ PullRetake(r) \/ PullAnswer(r)

Client(r) == \E s \in Sub : \/ Create(r, s)
                            \/ Unsubscribe(r, s)
                            \/ Find(r, s, "pull")
                            \/ Find(r, s, "renew")

Next ==
    \/ Tick
    \/ Publisher
    \/ CleanSample \/ CleanLock \/ Cleaner
    \/ \E r \in Request : Client(r) \/ Puller(r) \/ Renew(r)

Spec == Init /\ [][Next]_vars

\* The goroutines run on; clients, the clock and the PTZ state owe nothing.
FairSpec ==
    /\ Spec
    /\ WF_vars(PublishAppend \/ PublishNotify \/ PublishEnd)
    /\ WF_vars(Cleaner)
    /\ \A r \in Request : WF_vars(Puller(r))
----------------------------------------------------------------------------
\* Within a subscription an event is queued or in one request's hands, never
\* both and never again once answered, and the queue is newer than all of
\* them: PullMessages takes the queue by swapping it for nil under sub.mu,
\* twice, with the publisher appending in between.
NothingTwice ==
    /\ \A s \in Sub :
        /\ \A i, j \in 1..Len(events[s]) : i < j => events[s][i] < events[s][j]
        /\ \A e \in Elements(events[s]), g \in given[s] : g < e
    /\ \A r \in Request : on[r] # None =>
        /\ \A b \in Elements(batch[r]) :
            b \notin given[on[r]] /\ \A e \in Elements(events[on[r]]) : b < e
        /\ \A q \in Request \ {r} : on[q] = on[r] =>
            Elements(batch[q]) \cap Elements(batch[r]) = {}

\* An event never sits in the queue of a subscription while every request
\* for it sleeps: a PullMessages that found nothing sees the token, or the publisher is
\* about to send it, or another request has just been woken and will take
\* the queue.  The send of the token comes after the append, and a single
\* token serves any number of events.
NoLostWakeup ==
    \A r \in Request :
        pc[r] \in {"empty", "waiting"} /\ events[on[r]] # <<>> =>
            \/ notify[on[r]]
            \/ pubAt = on[r]
            \/ \E q \in Request : on[q] = on[r] /\ pc[q] = "woken"

\* The cleanup loop deletes no subscription whose termination time, as it
\* stands, has not passed - unless Renew moved it while the loop held es.mu,
\* between its look and its delete.
CleanupSparesLive ==
    [][\A s \in registered \ registered' :
         victim = s => term[s] < clock \/ s \in late]_vars

\* Every PullMessages is answered, woken, timed out or given what was there,
\* and a publication reaches its end whether anybody pulls or not: it holds
\* es.mu, so no request or cleanup could go on otherwise.
Progress ==
    /\ \A r \in Request : pc[r] = "pull" ~> pc[r] = "idle"
    /\ pubTodo # None ~> pubTodo = None

\* The feed a subscription offers (PullFeed): what waits in the queue or in
\* a request's hands has been accepted, what was answered has been given.
Held(s) == UNION {Elements(batch[r]) : r \in {q \in Request : on[q] = s}}

Feed == INSTANCE PullFeed WITH
            pending <- [s \in Sub |-> Elements(events[s]) \cup Held(s)]

ImplementsFeed == Feed!Spec
=============================================================================
