---------------------------- MODULE EventsProofs ----------------------------
(***************************************************************************)
(* What the run Onvif_events checks for one subscription and two requests, *)
(* proved for any number of both, every queue size and every limit: no     *)
(* event is delivered twice or out of order, no waiting request is         *)
(* forgotten, and the pull points implement the feed of PullFeed.          *)
(***************************************************************************)
EXTENDS Events, FiniteSetTheorems, TLAPS

Increasing(q) == \A i, j \in 1..Len(q) : i < j => q[i] < q[j]

(***************************************************************************)
(* Sequences of events.                                                    *)
(***************************************************************************)
LEMMA NoElements == Elements(<<>>) = {}
BY DEF Elements

LEMMA ElementsAppend ==
    ASSUME NEW q \in Seq(Event), NEW n \in Event
    PROVE  Elements(Append(q, n)) = Elements(q) \cup {n}
<1>1. /\ Len(Append(q, n)) = Len(q) + 1 /\ Len(q) \in Nat
      /\ \A i \in 1..Len(q) : Append(q, n)[i] = q[i]
      /\ Append(q, n)[Len(q) + 1] = n
  OBVIOUS
<1> QED BY <1>1 DEF Elements

LEMMA ElementsTail ==
    ASSUME NEW q \in Seq(Event), q # <<>>, Increasing(q)
    PROVE  /\ Head(q) \in Elements(q)
           /\ Elements(Tail(q)) = Elements(q) \ {Head(q)}
           /\ Increasing(Tail(q)) /\ Tail(q) \in Seq(Event)
<1>1. /\ Len(q) \in Nat \ {0} /\ Head(q) = q[1]
      /\ Tail(q) \in Seq(Event) /\ Len(Tail(q)) = Len(q) - 1
      /\ \A i \in 1..Len(Tail(q)) : Tail(q)[i] = q[i + 1]
      /\ \A i \in 1..Len(q) : q[i] \in Nat
  <2>1. Len(q) \in Nat \ {0}
    OBVIOUS
  <2>2. Head(q) = q[1] /\ Tail(q) \in Seq(Event) /\ Len(Tail(q)) = Len(q) - 1
    BY <2>1
  <2>3. \A i \in 1..Len(Tail(q)) : Tail(q)[i] = q[i + 1]
    BY <2>1, <2>2
  <2>4. \A i \in 1..Len(q) : q[i] \in Event
    OBVIOUS
  <2> QED BY <2>1, <2>2, <2>3, <2>4 DEF Event
<1>2. \A i \in 2..Len(q) : q[i] # q[1]
  BY <1>1 DEF Increasing
<1>3. Elements(Tail(q)) = {q[i] : i \in 2..Len(q)}
  <2>1. \A i \in 2..Len(q) : i - 1 \in 1..Len(Tail(q)) /\ q[i] = Tail(q)[i - 1]
    BY <1>1
  <2>2. \A i \in 1..Len(Tail(q)) : i + 1 \in 2..Len(q) /\ Tail(q)[i] = q[i + 1]
    BY <1>1
  <2>3. ASSUME NEW e \in Elements(Tail(q))
        PROVE  e \in {q[i] : i \in 2..Len(q)}
    BY <2>2 DEF Elements
  <2>4. ASSUME NEW e \in {q[i] : i \in 2..Len(q)}
        PROVE  e \in Elements(Tail(q))
    BY <2>1 DEF Elements
  <2> QED BY <2>3, <2>4
<1>4. Elements(q) = {q[1]} \cup {q[i] : i \in 2..Len(q)}
  BY <1>1 DEF Elements
<1>5. Increasing(Tail(q))
  <2>1. \A i \in 1..Len(Tail(q)) : i + 1 \in 1..Len(q)
    BY <1>1
  <2> QED BY <1>1, <2>1 DEF Increasing
<1>6. q[1] \notin {q[i] : i \in 2..Len(q)}
  BY <1>2
<1> QED BY <1>1, <1>3, <1>4, <1>5, <1>6

LEMMA IncreasingAppend ==
    ASSUME NEW q \in Seq(Event), NEW n \in Event, Increasing(q),
           \A e \in Elements(q) : e < n
    PROVE  Increasing(Append(q, n))
<1>1. /\ Len(Append(q, n)) = Len(q) + 1 /\ Len(q) \in Nat
      /\ \A i \in 1..Len(q) : Append(q, n)[i] = q[i]
      /\ Append(q, n)[Len(q) + 1] = n
  OBVIOUS
<1>2. \A i \in 1..Len(q) : q[i] < n
  BY DEF Elements
<1> QED BY <1>1, <1>2 DEF Increasing

\* A queue has as many events as places.
LEMMA FullFeed ==
    ASSUME NEW q \in Seq(Event), Increasing(q), NEW P \in SUBSET Event,
           Elements(q) \subseteq P, Len(q) >= MaxEvents
    PROVE  Cardinality(P) >= MaxEvents
<1>1. Len(q) \in Nat /\ MaxEvents \in Nat /\ q \in [1..Len(q) -> Event]
  BY EventsAssumption
<1>2. IsFiniteSet(P)
  <2>1. 1 \in Int /\ MaxEvent \in Int
    BY EventsAssumption
  <2>2. IsFiniteSet(Event)
    BY <2>1, FS_Interval DEF Event
  <2> QED BY <2>2, FS_Subset
<1>3. q \in Injection(1..Len(q), P)
  <2>1. q \in [1..Len(q) -> P]
    BY <1>1 DEF Elements
  <2>2. \A i, j \in 1..Len(q) : q[i] = q[j] => i = j
    BY <1>1 DEF Increasing, Event
  <2> QED BY <2>1, <2>2 DEF Injection, IsInjective
<1>4. Cardinality(1..Len(q)) <= Cardinality(P)
  BY <1>2, <1>3, FS_Injection
<1>5. Cardinality(1..Len(q)) = Len(q)
  <2>1. Cardinality(1..Len(q)) = IF 1 > Len(q) THEN 0 ELSE Len(q) - 1 + 1
    <3>1. 1 \in Int /\ Len(q) \in Int
      BY <1>1
    <3> QED BY <3>1, FS_Interval
  <2> QED BY <1>1, <2>1
<1>6. Cardinality(P) \in Nat
  BY <1>2, FS_CardinalityType
<1> QED BY <1>1, <1>4, <1>5, <1>6

\* The answer is the older part of the batch, and it is not empty.
LEMMA CutOldest ==
    ASSUME NEW q \in Seq(Event), Increasing(q), NEW n \in Limits
    PROVE  /\ Elements(Cut(q, n)) \subseteq Elements(q)
           /\ \A b \in Elements(Cut(q, n)) :
                \A l \in Elements(q) \ Elements(Cut(q, n)) : l > b
           /\ q # <<>> => Elements(Cut(q, n)) # {}
<1>1. n \in Nat \ {0} /\ Len(q) \in Nat /\ \A i \in 1..Len(q) : q[i] \in Nat
  BY EventsAssumption DEF Event
<1>2. CASE Len(q) > n
  <2>1. Cut(q, n) = SubSeq(q, 1, n)
    BY <1>2 DEF Cut
  <2>2. /\ Len(SubSeq(q, 1, n)) = n
        /\ \A i \in 1..n : SubSeq(q, 1, n)[i] = q[i]
    BY <1>1, <1>2
  <2>3. Elements(Cut(q, n)) = {q[i] : i \in 1..n}
    BY <2>1, <2>2 DEF Elements
  <2>4. \A i \in 1..n : \A j \in 1..Len(q) : j \notin 1..n => q[i] < q[j]
    BY <1>1, <1>2 DEF Increasing
  <2>5. /\ Elements(Cut(q, n)) \subseteq Elements(q)
        /\ q[1] \in Elements(Cut(q, n))
    <3>1. 1..n \subseteq 1..Len(q) /\ 1 \in 1..n
      BY <1>1, <1>2
    <3> QED BY <2>3, <3>1 DEF Elements
  <2>6. ASSUME NEW b \in Elements(Cut(q, n)),
               NEW l \in Elements(q) \ Elements(Cut(q, n))
        PROVE  l > b
    <3>1. PICK i \in 1..n : b = q[i]
      BY <2>3
    <3>2. PICK j \in 1..Len(q) : l = q[j]
      BY DEF Elements
    <3>3. j \notin 1..n
      BY <2>3, <3>2
    <3>4. q[i] < q[j]
      BY <2>4, <3>3
    <3>5. q[i] \in Nat /\ q[j] \in Nat
      BY <1>1, <1>2
    <3> QED BY <3>1, <3>2, <3>4, <3>5
  <2> QED BY <2>5, <2>6
<1>3. CASE ~(Len(q) > n)
  <2>1. Cut(q, n) = q
    BY <1>3 DEF Cut
  <2>2. q # <<>> => q[1] \in Elements(q)
    BY <1>1 DEF Elements
  <2> QED BY <2>1, <2>2
<1> QED BY <1>2, <1>3
----------------------------------------------------------------------------
(***************************************************************************)
(* The invariant.                                                          *)
(***************************************************************************)
FeedType ==
    /\ events \in [Sub -> Seq(Event)]
    /\ batch \in [Request -> Seq(Event)]
    /\ given \in [Sub -> SUBSET Event]
    /\ on \in [Request -> Sub \cup {None}]
    /\ pc \in [Request -> {"idle", "pull", "empty", "waiting", "woken",
                           "pulled", "renew"}]
    /\ notify \in [Sub -> BOOLEAN]
    /\ published \in 0..MaxEvent
    /\ registered \in SUBSET Sub

\* The publisher visits subscriptions with an event.
PubInv == pubTodo # None => pubTodo \subseteq Sub /\ published \in Event

\* A request holds events only between taking and answering, and has a
\* subscription exactly while it is under way.
RequestInv ==
    \A r \in Request : /\ pc[r] # "pulled" => batch[r] = <<>>
                       /\ pc[r] = "idle" <=> on[r] = None

\* Queues and batches are in the order of publication.
Sorted == /\ \A s \in Sub : Increasing(events[s])
          /\ \A r \in Request : Increasing(batch[r])

\* The queue is newer than all that has left it.
QueueNewest ==
    \A s \in Sub : \A e \in Elements(events[s]) :
        /\ \A g \in given[s] : g < e
        /\ \A r \in Request : on[r] = s => \A b \in Elements(batch[r]) : b < e

\* What has left it is answered, or in the hands of one request.
BatchesApart ==
    \A r \in Request : on[r] # None =>
        /\ \A b \in Elements(batch[r]) : b \notin given[on[r]]
        /\ \A q \in Request \ {r} : on[q] = on[r] =>
              Elements(batch[q]) \cap Elements(batch[r]) = {}

\* The event being published is new to those the publisher has yet to visit.
Seen(s) == Elements(events[s]) \cup given[s] \cup Held(s)

PublishedNew ==
    \A s \in Sub : \A e \in Seen(s) :
        /\ e <= published
        /\ pubTodo # None /\ s \in pubTodo => e < published

FeedInv == /\ FeedType /\ PubInv /\ RequestInv
           /\ Sorted /\ QueueNewest /\ BatchesApart /\ PublishedNew

Pending(s) == Elements(events[s]) \cup Held(s)
----------------------------------------------------------------------------
(***************************************************************************)
(* What one step does to queues, batches and answers.                      *)
(***************************************************************************)

LEMMA InHeld ==
    ASSUME NEW s, NEW e
    PROVE  e \in Held(s) <=> \E r \in Request : on[r] = s /\ e \in Elements(batch[r])
BY DEF Held

\* Steps that move no event: a request may get or give back its subscription
\* while it holds none, and the publisher may end.
LEMMA QuietStep ==
    ASSUME FeedInv, FeedType', RequestInv',
           UNCHANGED <<events, batch, given, published>>,
           \A r \in Request : on'[r] = on[r] \/ batch[r] = <<>>,
           pubTodo' = pubTodo \/ pubTodo' = None
    PROVE  FeedInv' /\ \A s \in Sub : Pending(s)' = Pending(s)
<1>1. ASSUME NEW r \in Request, NEW e \in Elements(batch[r])
      PROVE  on'[r] = on[r]
  BY <1>1, NoElements
<1>2. ASSUME NEW s \in Sub
      PROVE  Held(s)' = Held(s)
  <2>1. \A e : e \in Held(s)' <=>
            \E r \in Request : on'[r] = s /\ e \in Elements(batch'[r])
    BY DEF Held
  <2>2. \A e : e \in Held(s)' <=> e \in Held(s)
    BY <1>1, <2>1, InHeld
  <2> QED BY <2>2
<1>3. \A s \in Sub : Pending(s)' = Pending(s) /\ Seen(s)' = Seen(s)
  BY <1>2 DEF Pending, Seen
<1>4. PubInv' /\ Sorted' /\ PublishedNew'
  BY <1>3 DEF FeedInv, PubInv, Sorted, PublishedNew
<1>5. QueueNewest'
  BY <1>1 DEF FeedInv, QueueNewest
<1>6. BatchesApart'
  <2> SUFFICES ASSUME NEW r \in Request, on'[r] # None, NEW b \in Elements(batch[r])
               PROVE  /\ b \notin given[on'[r]]
                      /\ \A q \in Request \ {r} :
                            on'[q] = on'[r] => b \notin Elements(batch[q])
    BY DEF BatchesApart
  <2>1. on'[r] = on[r]
    BY <1>1
  <2>2. \A q \in Request : b \in Elements(batch[q]) => on'[q] = on[q]
    BY <1>1
  <2> QED BY <2>1, <2>2 DEF FeedInv, BatchesApart
<1> QED BY <1>3, <1>4, <1>5, <1>6 DEF FeedInv

LEMMA BeginStep ==
    ASSUME FeedInv, PublishBegin
    PROVE  FeedInv' /\ \A s \in Sub : Pending(s)' = Pending(s)
<1>1. /\ UNCHANGED <<events, batch, given, on, pc, notify, registered>>
      /\ published' = published + 1 /\ pubTodo' = registered
      /\ published < MaxEvent
  BY DEF PublishBegin, subVars, reqVars, hisVars
<1>2. \A s \in Sub : Pending(s)' = Pending(s) /\ Seen(s)' = Seen(s)
  BY <1>1 DEF Pending, Seen, Held
<1>3. published \in Nat /\ published' \in Event
  BY <1>1, EventsAssumption DEF FeedInv, FeedType, Event
<1>4. FeedType' /\ PubInv'
  BY <1>1, <1>3, EventsAssumption DEF FeedInv, FeedType, PubInv, Event
<1>5. PublishedNew'
  <2>1. \A s \in Sub : Seen(s) \subseteq Event
    <3>1. \A q \in Seq(Event) : Elements(q) \subseteq Event
      BY DEF Elements
    <3>2. /\ \A s \in Sub : events[s] \in Seq(Event) /\ given[s] \subseteq Event
          /\ \A r \in Request : batch[r] \in Seq(Event)
      BY DEF FeedInv, FeedType
    <3>3. \A s \in Sub : Held(s) \subseteq Event
      BY <3>1, <3>2, InHeld
    <3> QED BY <3>1, <3>2, <3>3 DEF Seen
  <2>2. \A s \in Sub : \A e \in Seen(s) : e \in Nat /\ e <= published
    BY <2>1 DEF Event, FeedInv, PublishedNew
  <2> QED BY <1>1, <1>2, <1>3, <2>2 DEF PublishedNew
<1> QED BY <1>1, <1>2, <1>4, <1>5
        DEF FeedInv, RequestInv, Sorted, QueueNewest, BatchesApart

\* A request takes the queue.
LEMMA TakeStep ==
    ASSUME FeedInv, FeedType', RequestInv', NEW r \in Request, TakeAll(r),
           pc[r] \in {"pull", "woken"},
           UNCHANGED <<given, on, published, pubTodo>>
    PROVE  FeedInv' /\ \A s \in Sub : Pending(s)' = Pending(s)
<1> DEFINE t == on[r]
<1>1. /\ t \in Sub /\ batch[r] = <<>>
      /\ batch' = [batch EXCEPT ![r] = events[t]]
      /\ events' = [events EXCEPT ![t] = <<>>]
  BY DEF FeedInv, FeedType, RequestInv, TakeAll
<1> HIDE DEF t
<1>2. /\ events'[t] = <<>> /\ batch'[r] = events[t]
      /\ \A s \in Sub \ {t} : events'[s] = events[s]
      /\ \A q \in Request \ {r} : batch'[q] = batch[q]
  BY <1>1 DEF FeedInv, FeedType
<1>3. on[r] = t /\ on'[r] = t
  BY DEF t
<1>4. ASSUME NEW s \in Sub
      PROVE  Pending(s)' = Pending(s)
  <2>1. \A e : e \in Held(s)' <=>
            \E q \in Request : on[q] = s /\ e \in Elements(batch'[q])
    BY DEF Held
  <2>2. CASE s = t
    <3>1. \A e : e \in Held(s)' <=> e \in Elements(events[t]) \/ e \in Held(s)
      BY <1>1, <1>2, <1>3, <2>1, <2>2, InHeld, NoElements
    <3>2. Elements(events'[s]) = {}
      BY <1>2, <2>2, NoElements
    <3> QED BY <2>2, <3>1, <3>2 DEF Pending
  <2>3. CASE s # t
    <3>1. \A e : e \in Held(s)' <=> e \in Held(s)
      BY <1>2, <1>3, <2>1, <2>3, InHeld
    <3> QED BY <1>2, <2>3, <3>1 DEF Pending
  <2> QED BY <2>2, <2>3
<1>5. PublishedNew'
  <2>1. \A s \in Sub : Seen(s)' = Seen(s)
    BY <1>4 DEF Seen, Pending
  <2> QED BY <2>1 DEF FeedInv, PublishedNew
<1>6. Sorted'
  <2>1. Increasing(<<>>)
    BY DEF Increasing
  <2> QED BY <1>1, <1>2, <2>1 DEF FeedInv, Sorted
<1>7. QueueNewest'
  <2> SUFFICES ASSUME NEW s \in Sub, NEW e \in Elements(events'[s])
               PROVE  /\ \A g \in given[s] : g < e
                      /\ \A q \in Request : on[q] = s =>
                            \A b \in Elements(batch'[q]) : b < e
    BY DEF QueueNewest
  <2>1. s # t
    BY <1>2, NoElements
  <2> QED BY <1>2, <1>3, <2>1 DEF FeedInv, QueueNewest
<1>8. BatchesApart'
  <2>1. \A e \in Elements(events[t]) : e \in Event
    BY <1>1 DEF FeedInv, FeedType, Elements
  <2>2. \A e \in Elements(events[t]) : e \notin given[t]
    BY <1>1, <2>1 DEF FeedInv, QueueNewest, Event
  <2>3. \A e \in Elements(events[t]) : \A q \in Request :
            on[q] = t => e \notin Elements(batch[q])
    <3> SUFFICES ASSUME NEW e \in Elements(events[t]), NEW q \in Request,
                        on[q] = t, e \in Elements(batch[q])
                 PROVE  FALSE
      OBVIOUS
    <3>1. e < e
      BY <1>1 DEF FeedInv, QueueNewest
    <3> QED BY <2>1, <3>1 DEF Event
  <2> SUFFICES ASSUME NEW p \in Request, on[p] # None, NEW b \in Elements(batch'[p])
               PROVE  /\ b \notin given[on[p]]
                      /\ \A q \in Request \ {p} :
                            on[q] = on[p] => b \notin Elements(batch'[q])
    BY DEF BatchesApart
  <2>4. CASE p = r
    BY <1>2, <1>3, <2>2, <2>3, <2>4
  <2>5. CASE p # r
    <3>1. b \in Elements(batch[p])
      BY <1>2, <2>5
    <3>2. /\ b \notin given[on[p]]
          /\ \A q \in Request \ {p} : on[q] = on[p] => b \notin Elements(batch[q])
      BY <3>1 DEF FeedInv, BatchesApart
    <3>3. on[r] = on[p] => b \notin Elements(batch'[r])
      BY <1>2, <1>3, <2>3, <3>1
    <3> QED BY <1>2, <3>2, <3>3
  <2> QED BY <2>4, <2>5
<1>9. PubInv'
  BY DEF FeedInv, PubInv
<1> QED BY <1>4, <1>5, <1>6, <1>7, <1>8, <1>9 DEF FeedInv

\* The publisher appends; a full queue loses its oldest event.
LEMMA AppendStep ==
    ASSUME FeedInv, PublishAppend
    PROVE  /\ FeedInv' /\ given' = given
           /\ \E s \in Sub :
                /\ \A e \in Pending(s) \cup given[s] : published > e
                /\ \A u \in Sub \ {s} : Pending(u)' = Pending(u)
                /\ \/ Pending(s)' = Pending(s) \cup {published}
                   \/ /\ Cardinality(Pending(s)) >= MaxEvents
                      /\ \E o \in Pending(s) :
                            Pending(s)' = (Pending(s) \ {o}) \cup {published}
<1>1. PICK s \in pubTodo : Push(s) /\ pubTodo' = pubTodo \ {s} /\ pubAt' = s
  BY DEF PublishAppend
<1>2. /\ pubTodo # None /\ s \in Sub /\ published \in Event
      /\ UNCHANGED <<registered, notify, published, pc, on, batch, given>>
  BY <1>1 DEF PublishAppend, FeedInv, PubInv, reqVars, hisVars
<1> DEFINE old == events[s]
           kept == IF Len(old) >= MaxEvents THEN Tail(old) ELSE old
<1>3. old \in Seq(Event) /\ Increasing(old)
  BY <1>2 DEF FeedInv, FeedType, Sorted
<1>4. MaxEvents \in Nat \ {0} /\ (Len(old) >= MaxEvents => old # <<>>)
  BY <1>3, EventsAssumption
<1>5. /\ kept \in Seq(Event) /\ Increasing(kept)
      /\ Elements(kept) \subseteq Elements(old)
      /\ \/ kept = old
         \/ /\ Len(old) >= MaxEvents /\ Head(old) \in Elements(old)
            /\ Elements(kept) = Elements(old) \ {Head(old)}
  BY <1>3, <1>4, ElementsTail
<1>6. events' = [events EXCEPT ![s] = Append(kept, published)]
  BY <1>1 DEF Push
<1>7. events \in [Sub -> Seq(Event)]
  BY DEF FeedInv, FeedType
<1> HIDE DEF kept
<1>8. /\ events'[s] = Append(kept, published)
      /\ Elements(events'[s]) = Elements(kept) \cup {published}
      /\ \A u \in Sub \ {s} : events'[u] = events[u]
  BY <1>2, <1>5, <1>6, <1>7, ElementsAppend
<1>9. \A u : Held(u)' = Held(u)
  BY <1>2 DEF Held
<1>10. \A e \in Seen(s) : e < published
  BY <1>1, <1>2 DEF FeedInv, PublishedNew
<1>11. FeedType'
  <2>1. Append(kept, published) \in Seq(Event)
    BY <1>2, <1>5
  <2> QED BY <1>2, <1>6, <2>1 DEF FeedInv, FeedType
<1>12. PubInv' /\ RequestInv'
  BY <1>1, <1>2 DEF FeedInv, PubInv, RequestInv
<1>13. Sorted'
  <2>1. \A e \in Elements(kept) : e < published
    BY <1>5, <1>10 DEF Seen
  <2>2. Increasing(events'[s])
    BY <1>2, <1>5, <1>8, <2>1, IncreasingAppend
  <2> QED BY <1>2, <1>8, <2>2 DEF FeedInv, Sorted
<1>14. QueueNewest'
  <2> SUFFICES ASSUME NEW u \in Sub, NEW e \in Elements(events'[u])
               PROVE  /\ \A g \in given[u] : g < e
                      /\ \A r \in Request : on[r] = u =>
                            \A b \in Elements(batch[r]) : b < e
    BY <1>2 DEF QueueNewest
  <2>1. CASE u # s \/ e \in Elements(old)
    BY <1>8, <2>1 DEF FeedInv, QueueNewest
  <2>2. CASE u = s /\ e = published
    <3>1. \A g \in given[s] : g < published
      BY <1>10 DEF Seen
    <3>2. \A r \in Request : on[r] = s =>
              \A b \in Elements(batch[r]) : b < published
      BY <1>10, InHeld DEF Seen
    <3> QED BY <2>2, <3>1, <3>2
  <2> QED BY <1>5, <1>8, <2>1, <2>2
<1>15. BatchesApart'
  BY <1>2 DEF FeedInv, BatchesApart
<1>16. PublishedNew'
  <2> SUFFICES ASSUME NEW u \in Sub, NEW e \in Seen(u)'
               PROVE  /\ e <= published
                      /\ pubTodo' # None /\ u \in pubTodo' => e < published
    BY <1>2 DEF PublishedNew
  <2>1. published \in Nat /\ published <= published
    BY <1>2 DEF Event
  <2>2. CASE u = s
    <3>1. e \in Seen(s) \/ e = published
      BY <1>2, <1>5, <1>8, <1>9, <2>2 DEF Seen
    <3>2. e \in Seen(s) => e <= published
      BY <1>2 DEF FeedInv, PublishedNew
    <3> QED BY <1>1, <2>1, <2>2, <3>1, <3>2
  <2>3. CASE u # s
    <3>1. e \in Seen(u)
      BY <1>2, <1>8, <1>9, <2>3 DEF Seen
    <3>2. pubTodo' # None /\ u \in pubTodo' => u \in pubTodo
      BY <1>1
    <3> QED BY <1>2, <3>1, <3>2 DEF FeedInv, PublishedNew
  <2> QED BY <2>2, <2>3
<1>17. FeedInv'
  BY <1>11, <1>12, <1>13, <1>14, <1>15, <1>16 DEF FeedInv
<1>18. \A e \in Pending(s) \cup given[s] : published > e
  <2>1. \A e \in Pending(s) \cup given[s] : e \in Seen(s)
    BY DEF Pending, Seen
  <2> QED BY <1>10, <2>1
<1>19. \A u \in Sub \ {s} : Pending(u)' = Pending(u)
  BY <1>8, <1>9 DEF Pending
<1>20. CASE kept = old
  <2>1. Pending(s)' = Pending(s) \cup {published}
    BY <1>8, <1>9, <1>20 DEF Pending
  <2> QED BY <1>2, <1>17, <1>18, <1>19, <2>1
<1>21. CASE kept # old
  <2>1. /\ Len(old) >= MaxEvents /\ Head(old) \in Elements(old)
        /\ Elements(kept) = Elements(old) \ {Head(old)}
    BY <1>5, <1>21
  <2>2. Head(old) \notin Held(s)
    <3> SUFFICES ASSUME Head(old) \in Held(s)
                 PROVE  FALSE
      OBVIOUS
    <3>1. PICK r \in Request : on[r] = s /\ Head(old) \in Elements(batch[r])
      BY InHeld
    <3>2. Head(old) < Head(old)
      BY <1>2, <2>1, <3>1 DEF FeedInv, QueueNewest
    <3>3. Head(old) \in Event
      BY <1>3, <2>1 DEF Elements
    <3> QED BY <3>2, <3>3 DEF Event
  <2>3. Pending(s)' = (Pending(s) \ {Head(old)}) \cup {published}
    BY <1>8, <1>9, <2>1, <2>2 DEF Pending
  <2>4. Cardinality(Pending(s)) >= MaxEvents
    <3>1. Pending(s) \in SUBSET Event
      <4>1. \A r \in Request : Elements(batch[r]) \subseteq Event
        BY DEF FeedInv, FeedType, Elements
      <4>2. Elements(old) \subseteq Event
        BY <1>3 DEF Elements
      <4> QED BY <4>1, <4>2, InHeld DEF Pending
    <3> QED BY <1>3, <2>1, <3>1, FullFeed DEF Pending
  <2>5. Head(old) \in Pending(s)
    BY <2>1 DEF Pending
  <2> QED BY <1>2, <1>17, <1>18, <1>19, <2>3, <2>4, <2>5
<1> QED BY <1>20, <1>21

\* A batch is answered up to the limit, and gone.
LEMMA AnswerStep ==
    ASSUME FeedInv, NEW r \in Request, PullAnswer(r)
    PROVE  /\ FeedInv'
           /\ \E s \in Sub : \E B \in SUBSET Pending(s) :
              \E L \in SUBSET (Pending(s) \ B) :
                /\ \A u \in Sub \ {s} : Pending(u)' = Pending(u)
                /\ Pending(s)' = Pending(s) \ (B \cup L)
                /\ given' = [given EXCEPT ![s] = @ \cup B]
                /\ \A l \in L, b \in B : l > b
                /\ B = {} => L = {}
<1> DEFINE t == on[r]
           q == batch[r]
<1>1. PICK n \in Limits :
          given' = [given EXCEPT ![t] = @ \cup Elements(Cut(q, n))]
  BY DEF PullAnswer
<1> DEFINE B == Elements(Cut(q, n))
           L == Elements(q) \ B
<1>2. /\ t \in Sub /\ q \in Seq(Event) /\ Increasing(q) /\ pc[r] = "pulled"
      /\ pc' = [pc EXCEPT ![r] = "idle"]
      /\ on' = [on EXCEPT ![r] = None]
      /\ batch' = [batch EXCEPT ![r] = <<>>]
      /\ UNCHANGED <<events, notify, registered, published, pubTodo>>
  BY DEF PullAnswer, FeedInv, FeedType, RequestInv, Sorted, subVars, pubVars
<1>3. /\ on[r] = t /\ on'[r] = None /\ batch'[r] = <<>> /\ None \notin Sub
      /\ \A p \in Request \ {r} : on'[p] = on[p] /\ batch'[p] = batch[p]
  BY <1>2, EventsAssumption DEF FeedInv, FeedType
<1>4. /\ B \subseteq Elements(q)
      /\ \A b \in B, l \in L : l > b
      /\ q # <<>> => B # {}
  BY <1>2, CutOldest
<1>5. Elements(q) \subseteq Event
  BY <1>2 DEF Elements
<1>6. \A e \in Elements(q) : e \notin Elements(events[t]) /\ e \notin given[t]
  <2> SUFFICES ASSUME NEW e \in Elements(q)
               PROVE  e \notin Elements(events[t]) /\ e \notin given[t]
    OBVIOUS
  <2>1. e \in Event /\ ~(e < e)
    BY <1>5 DEF Event
  <2>2. e \notin Elements(events[t])
    BY <1>2, <2>1 DEF FeedInv, QueueNewest
  <2>3. t # None
    BY <1>2, EventsAssumption
  <2> QED BY <2>2, <2>3 DEF FeedInv, BatchesApart
<1>7. \A e \in Elements(q) : \A p \in Request \ {r} :
          on[p] = t => e \notin Elements(batch[p])
  <2>1. t # None
    BY <1>2, EventsAssumption
  <2> QED BY <2>1 DEF FeedInv, BatchesApart
<1> HIDE DEF t, q, B, L
<1>8. batch[r] = q
  BY DEF q
<1>9. ASSUME NEW u \in Sub
      PROVE  Held(u)' = IF u = t THEN Held(u) \ Elements(q) ELSE Held(u)
  <2>1. \A e : e \in Held(u)' <=>
            \E p \in Request : on'[p] = u /\ e \in Elements(batch'[p])
    BY DEF Held
  <2>2. \A e : e \in Held(u)' <=>
            \E p \in Request \ {r} : on[p] = u /\ e \in Elements(batch[p])
    BY <1>3, <1>9, <2>1
  <2>3. \A e : e \in Held(u) <=>
            \/ \E p \in Request \ {r} : on[p] = u /\ e \in Elements(batch[p])
            \/ u = t /\ e \in Elements(q)
    BY <1>3, <1>8, InHeld
  <2> QED BY <1>7, <2>2, <2>3
<1>10. ASSUME NEW u \in Sub
       PROVE  Pending(u)' = IF u = t THEN Pending(u) \ (B \cup L) ELSE Pending(u)
  <2>1. Elements(q) = B \cup L
    BY <1>4 DEF L
  <2> QED BY <1>2, <1>6, <1>9, <2>1 DEF Pending
<1>11. given' = [given EXCEPT ![t] = @ \cup B]
  BY <1>1 DEF B, q, t
<1>12. B \subseteq Pending(t) /\ L \subseteq Pending(t) \ B
  <2>1. Elements(q) \subseteq Held(t)
    BY <1>3, <1>8, InHeld
  <2> QED BY <1>4, <2>1 DEF Pending, L
<1>13. B = {} => L = {}
  BY <1>4, NoElements DEF L
<1>14. FeedType'
  <2>1. B \subseteq Event /\ <<>> \in Seq(Event)
    BY <1>4, <1>5
  <2> QED BY <1>2, <1>11, <2>1 DEF FeedInv, FeedType
<1>15. PubInv' /\ RequestInv'
  <2>1. PubInv'
    BY <1>2 DEF FeedInv, PubInv
  <2>2. RequestInv'
    BY <1>2, <1>3 DEF FeedInv, FeedType, RequestInv
  <2> QED BY <2>1, <2>2
<1>16. Sorted'
  <2>1. Increasing(<<>>)
    BY DEF Increasing
  <2> QED BY <1>2, <1>3, <2>1 DEF FeedInv, Sorted
<1>17. \A u \in Sub : given'[u] = IF u = t THEN given[u] \cup B ELSE given[u]
  BY <1>2, <1>11 DEF FeedInv, FeedType
<1>18. QueueNewest'
  <2> SUFFICES ASSUME NEW u \in Sub, NEW e \in Elements(events[u])
               PROVE  /\ \A g \in given'[u] : g < e
                      /\ \A p \in Request : on'[p] = u =>
                            \A b \in Elements(batch'[p]) : b < e
    BY <1>2 DEF QueueNewest
  <2>1. \A g \in given'[u] : g < e
    <3>1. \A g \in given[u] : g < e
      BY DEF FeedInv, QueueNewest
    <3>2. u = t => \A g \in B : g < e
      BY <1>3, <1>4, <1>8 DEF FeedInv, QueueNewest
    <3> QED BY <1>17, <3>1, <3>2
  <2>2. \A p \in Request : on'[p] = u => p # r /\ on[p] = u
    BY <1>3
  <2> QED BY <1>3, <2>1, <2>2 DEF FeedInv, QueueNewest
<1>19. BatchesApart'
  <2> SUFFICES ASSUME NEW p \in Request, on'[p] # None
               PROVE  /\ \A b \in Elements(batch'[p]) : b \notin given'[on'[p]]
                      /\ \A x \in Request \ {p} : on'[x] = on'[p] =>
                            Elements(batch'[x]) \cap Elements(batch'[p]) = {}
    BY DEF BatchesApart
  <2>1. p # r /\ on'[p] = on[p] /\ batch'[p] = batch[p] /\ on[p] \in Sub
    BY <1>3 DEF FeedInv, FeedType
  <2>2. \A b \in Elements(batch[p]) : b \notin given'[on[p]]
    <3>1. \A b \in Elements(batch[p]) : b \notin given[on[p]]
      BY <2>1 DEF FeedInv, BatchesApart, FeedType
    <3>2. on[p] = t => \A b \in Elements(batch[p]) : b \notin B
      BY <1>4, <1>7, <2>1
    <3> QED BY <1>17, <2>1, <3>1, <3>2
  <2>3. \A x \in Request \ {p} : on'[x] = on[p] =>
            x # r /\ on[x] = on[p] /\ batch'[x] = batch[x]
    BY <1>3, <2>1
  <2> QED BY <2>1, <2>2, <2>3 DEF FeedInv, BatchesApart
<1>20. PublishedNew'
  <2>1. \A u \in Sub : Seen(u)' \subseteq Seen(u)
    <3> SUFFICES ASSUME NEW u \in Sub
                 PROVE  Seen(u)' \subseteq Seen(u)
      OBVIOUS
    <3>1. B \subseteq Pending(t) /\ Held(u)' \subseteq Held(u)
      BY <1>9, <1>12
    <3> QED BY <1>2, <1>17, <3>1 DEF Seen, Pending
  <2> QED BY <1>2, <2>1 DEF FeedInv, PublishedNew
<1>21. FeedInv'
  BY <1>14, <1>15, <1>16, <1>18, <1>19, <1>20 DEF FeedInv
<1> QED BY <1>2, <1>4, <1>10, <1>11, <1>12, <1>13, <1>21
----------------------------------------------------------------------------
(***************************************************************************)
(* The steps.                                                              *)
(***************************************************************************)
LEMMA FeedInit ==
    ASSUME Init
    PROVE  /\ FeedInv
           /\ \A s \in Sub : Pending(s) = {}
<1>1. /\ events = [s \in Sub |-> <<>>] /\ batch = [r \in Request |-> <<>>]
      /\ given = [s \in Sub |-> {}] /\ on = [r \in Request |-> None]
      /\ pc = [r \in Request |-> "idle"] /\ pubTodo = None
      /\ registered = {} /\ published = 0
      /\ notify \in [Sub -> BOOLEAN]
  BY DEF Init
<1>2. <<>> \in Seq(Event) /\ Increasing(<<>>) /\ 0 \in 0..MaxEvent
  BY EventsAssumption DEF Increasing
<1>3. FeedType /\ PubInv /\ RequestInv /\ Sorted
  BY <1>1, <1>2 DEF FeedType, PubInv, RequestInv, Sorted
<1>4. /\ \A s \in Sub : Elements(events[s]) = {} /\ given[s] = {}
      /\ \A r \in Request : Elements(batch[r]) = {} /\ on[r] = None
  BY <1>1, NoElements
<1>5. \A s \in Sub : Held(s) = {}
  BY <1>4, InHeld
<1>6. QueueNewest /\ BatchesApart
  BY <1>4 DEF QueueNewest, BatchesApart
<1>7. PublishedNew /\ \A s \in Sub : Pending(s) = {}
  BY <1>4, <1>5 DEF PublishedNew, Seen, Pending
<1> QED BY <1>3, <1>6, <1>7 DEF FeedInv

\* The cleanup loop, the clock and the end of a publication.
LEMMA BackgroundStep ==
    ASSUME FeedInv,
           \/ Tick \/ PublishNotify \/ PublishEnd
           \/ CleanSample \/ CleanLock \/ Cleaner
    PROVE  FeedInv' /\ given' = given /\ \A s \in Sub : Pending(s)' = Pending(s)
<1>1. /\ UNCHANGED <<events, batch, given, published, pc, on>>
      /\ pubTodo' = pubTodo \/ pubTodo' = None
      /\ registered' \in SUBSET registered
  BY DEF Tick, PublishNotify, PublishEnd, CleanSample, CleanLock, Cleaner, CleanLook,
         CleanDelete, CleanUnlock, subVars, pubVars, reqVars, hisVars
<1>2. notify' \in [Sub -> BOOLEAN]
  BY DEF Tick, PublishNotify, PublishEnd, CleanSample, CleanLock, Cleaner, CleanLook,
         CleanDelete, CleanUnlock, subVars, FeedInv, FeedType
<1>3. FeedType' /\ RequestInv'
  BY <1>1, <1>2 DEF FeedInv, FeedType, RequestInv
<1> QED BY <1>1, <1>3, QuietStep

\* What a client does besides pulling, and the waiting of a pull.
LEMMA WaitingStep ==
    ASSUME FeedInv, NEW r \in Request,
           \/ \E s \in Sub : Create(r, s) \/ Unsubscribe(r, s)
           \/ \E s \in Sub : Find(r, s, "pull") \/ Find(r, s, "renew")
           \/ PullWait(r) \/ PullWake(r) \/ PullTimeout(r) \/ Renew(r)
    PROVE  FeedInv' /\ given' = given /\ \A s \in Sub : Pending(s)' = Pending(s)
<1>1. FeedType /\ RequestInv /\ None \notin Sub
  BY EventsAssumption DEF FeedInv
<1>2. CASE \E s \in Sub : Create(r, s) \/ Unsubscribe(r, s)
  <2>1. /\ UNCHANGED <<events, batch, given, published, pc, on, notify, pubTodo>>
        /\ registered' \in SUBSET Sub
    BY <1>1, <1>2 DEF Create, Unsubscribe, FeedType, pubVars, reqVars, hisVars
  <2>2. FeedType' /\ RequestInv'
    BY <1>1, <2>1 DEF FeedType, RequestInv
  <2> QED BY <2>1, <2>2, QuietStep
<1>3. CASE \E s \in Sub : Find(r, s, "pull") \/ Find(r, s, "renew")
  <2>1. PICK s \in Sub, op \in {"pull", "renew"} : Find(r, s, op)
    BY <1>3
  <2>2. /\ UNCHANGED <<events, batch, given, published, notify, registered, pubTodo>>
        /\ pc[r] = "idle"
        /\ pc' = [pc EXCEPT ![r] = op] /\ on' = [on EXCEPT ![r] = s]
    BY <2>1 DEF Find, subVars, pubVars, hisVars
  <2>3. FeedType' /\ RequestInv'
    BY <1>1, <2>2 DEF FeedType, RequestInv
  <2>4. \A q \in Request : on'[q] = on[q] \/ batch[q] = <<>>
    BY <1>1, <2>2 DEF FeedType, RequestInv
  <2> QED BY <2>2, <2>3, <2>4, QuietStep
<1>4. CASE PullWait(r) \/ PullWake(r) \/ PullTimeout(r)
  <2>1. /\ UNCHANGED <<events, batch, given, published, registered, on, pubTodo>>
        /\ pc[r] \in {"empty", "waiting"}
        /\ \E c \in {"waiting", "woken", "pulled"} : pc' = [pc EXCEPT ![r] = c]
        /\ notify' \in [Sub -> BOOLEAN]
    BY <1>1, <1>4 DEF PullWait, PullWake, PullTimeout, FeedType,
                      subVars, pubVars, hisVars
  <2>2. FeedType' /\ RequestInv'
    BY <1>1, <2>1 DEF FeedType, RequestInv
  <2> QED BY <2>1, <2>2, QuietStep
<1>5. CASE Renew(r)
  <2>1. /\ UNCHANGED <<events, batch, given, published, notify, registered, pubTodo>>
        /\ pc[r] = "renew"
        /\ pc' = [pc EXCEPT ![r] = "idle"] /\ on' = [on EXCEPT ![r] = None]
    BY <1>5 DEF Renew, pubVars
  <2>2. FeedType' /\ RequestInv'
    BY <1>1, <2>1 DEF FeedType, RequestInv
  <2>3. \A q \in Request : on'[q] = on[q] \/ batch[q] = <<>>
    BY <1>1, <2>1 DEF FeedType, RequestInv
  <2> QED BY <2>1, <2>2, <2>3, QuietStep
<1> QED BY <1>2, <1>3, <1>4, <1>5

\* The two places at which a pull takes the queue.
LEMMA PullStep ==
    ASSUME FeedInv, NEW r \in Request, PullTake(r) \/ PullRetake(r)
    PROVE  FeedInv' /\ given' = given /\ \A s \in Sub : Pending(s)' = Pending(s)
<1>1. FeedType /\ RequestInv /\ None \notin Sub
  BY EventsAssumption DEF FeedInv
<1>2. /\ TakeAll(r) /\ pc[r] \in {"pull", "woken"}
      /\ UNCHANGED <<given, on, published, pubTodo, notify, registered>>
  BY DEF PullTake, PullRetake, pubVars, hisVars
<1>3. /\ on[r] \in Sub
      /\ batch' = [batch EXCEPT ![r] = events[on[r]]]
      /\ events' = [events EXCEPT ![on[r]] = <<>>]
  BY <1>1, <1>2 DEF FeedType, RequestInv, TakeAll
<1>4. \/ pc' = [pc EXCEPT ![r] = "pulled"]
      \/ pc' = [pc EXCEPT ![r] = "empty"] /\ events[on[r]] = <<>>
  BY DEF PullTake, PullRetake
<1>5. FeedType'
  <2>1. <<>> \in Seq(Event) /\ events[on[r]] \in Seq(Event)
    BY <1>1, <1>3 DEF FeedType
  <2>2. events' \in [Sub -> Seq(Event)] /\ batch' \in [Request -> Seq(Event)]
    BY <1>1, <1>3, <2>1 DEF FeedType
  <2>3. pc' \in [Request -> {"idle", "pull", "empty", "waiting", "woken",
                             "pulled", "renew"}]
    BY <1>1, <1>4 DEF FeedType
  <2> QED BY <1>1, <1>2, <2>2, <2>3 DEF FeedType
<1>6. RequestInv'
  BY <1>1, <1>2, <1>3, <1>4 DEF FeedType, RequestInv
<1> QED BY <1>2, <1>5, <1>6, TakeStep
----------------------------------------------------------------------------
(***************************************************************************)
(* What a step means to the feed, and the theorems.                        *)
(***************************************************************************)
FeedVars == <<[s \in Sub |-> Pending(s)], given>>

FeedAccepts(s) ==
    /\ given' = given /\ published \in Event
    /\ \A e \in Pending(s) \cup given[s] : published > e
    /\ \A u \in Sub \ {s} : Pending(u)' = Pending(u)
    /\ \/ Pending(s)' = Pending(s) \cup {published}
       \/ /\ Cardinality(Pending(s)) >= MaxEvents
          /\ \E o \in Pending(s) :
                Pending(s)' = (Pending(s) \ {o}) \cup {published}

FeedAnswers(s) ==
    \E B \in SUBSET Pending(s) : \E L \in SUBSET (Pending(s) \ B) :
        /\ \A u \in Sub \ {s} : Pending(u)' = Pending(u)
        /\ Pending(s)' = Pending(s) \ (B \cup L)
        /\ given' = [given EXCEPT ![s] = @ \cup B]
        /\ \A l \in L, b \in B : l > b
        /\ B = {} => L = {}

FeedStill == given' = given /\ \A s \in Sub : Pending(s)' = Pending(s)

LEMMA FeedStep ==
    ASSUME FeedInv, [Next]_vars
    PROVE  /\ FeedInv'
           /\ \/ FeedStill
              \/ \E s \in Sub : FeedAccepts(s) \/ FeedAnswers(s)
<1>1. CASE Tick \/ CleanSample \/ CleanLock \/ Cleaner
  BY <1>1, BackgroundStep DEF FeedStill
<1>2. CASE Publisher
  <2>1. CASE PublishBegin
    <3>1. given' = given
      BY <2>1 DEF PublishBegin, hisVars
    <3> QED BY <2>1, <3>1, BeginStep DEF FeedStill
  <2>2. CASE PublishAppend
    <3>1. published \in Event
      BY <2>2 DEF PublishAppend, FeedInv, PubInv
    <3> QED BY <2>2, <3>1, AppendStep DEF FeedAccepts
  <2>3. CASE PublishNotify \/ PublishEnd
    BY <2>3, BackgroundStep DEF FeedStill
  <2> QED BY <1>2, <2>1, <2>2, <2>3 DEF Publisher
<1>3. CASE \E r \in Request : Client(r) \/ Puller(r) \/ Renew(r)
  <2>1. PICK r \in Request : Client(r) \/ Puller(r) \/ Renew(r)
    BY <1>3
  <2>2. CASE Client(r)
    <3>1. \/ \E s \in Sub : Create(r, s) \/ Unsubscribe(r, s)
          \/ \E s \in Sub : Find(r, s, "pull") \/ Find(r, s, "renew")
      BY <2>2 DEF Client
    <3> QED BY <3>1, WaitingStep DEF FeedStill
  <2>3. CASE PullTake(r) \/ PullRetake(r)
    BY <2>3, PullStep DEF FeedStill
  <2>4. CASE PullWait(r) \/ PullWake(r) \/ PullTimeout(r) \/ Renew(r)
    BY <2>4, WaitingStep DEF FeedStill
  <2>5. CASE PullAnswer(r)
    BY <2>5, AnswerStep DEF FeedAnswers
  <2> QED BY <2>1, <2>2, <2>3, <2>4, <2>5 DEF Puller
<1>4. CASE UNCHANGED vars
  <2>1. /\ UNCHANGED <<events, batch, given, published, pubTodo, on, pc,
                       notify, registered>>
    BY <1>4 DEF vars, subVars, pubVars, reqVars, hisVars
  <2>2. FeedType' /\ RequestInv'
    BY <2>1 DEF FeedInv, FeedType, RequestInv
  <2> QED BY <2>1, <2>2, QuietStep DEF FeedStill
<1> QED BY <1>1, <1>2, <1>3, <1>4 DEF Next

LEMMA FeedInvariant == Spec => []FeedInv
<1>1. Init => FeedInv
  BY FeedInit
<1>2. FeedInv /\ [Next]_vars => FeedInv'
  BY FeedStep
<1> QED BY <1>1, <1>2, PTL DEF Spec

\* An event is in a queue, in one request's hands or answered, once, and
\* always in the order of publication: for any number of subscriptions and
\* concurrent PullMessages, any queue size and any limits.
THEOREM DeliveredOnce == Spec => []NothingTwice
<1>1. FeedInv => NothingTwice
  <2> SUFFICES ASSUME FeedInv PROVE NothingTwice
    OBVIOUS
  <2>1. \A s \in Sub :
            \A i, j \in 1..Len(events[s]) : i < j => events[s][i] < events[s][j]
    BY DEF FeedInv, Sorted, Increasing
  <2>2. \A s \in Sub : \A e \in Elements(events[s]), g \in given[s] : g < e
    BY DEF FeedInv, QueueNewest
  <2>3. \A r \in Request : on[r] # None => on[r] \in Sub
    BY DEF FeedInv, FeedType
  <2>4. \A r \in Request : on[r] # None =>
            \A b \in Elements(batch[r]) : \A e \in Elements(events[on[r]]) : b < e
    BY <2>3 DEF FeedInv, QueueNewest
  <2> QED BY <2>1, <2>2, <2>4 DEF NothingTwice, FeedInv, BatchesApart
<1> QED BY <1>1, FeedInvariant, PTL

\* The pull points implement the abstract feed: an append to a queue is an
\* Accept, the answer to a PullMessages is an Answer, and everything else -
\* taking, waiting, waking, cleaning up - is invisible to the clients.
THEOREM PullPointsImplementFeed == Spec => ImplementsFeed
<1> DEFINE P == [s \in Sub |-> Elements(events[s]) \cup Held(s)]
<1>1. \A s \in Sub : P[s] = Pending(s)
  BY DEF Pending
<1>2. ASSUME Init
      PROVE  Feed!Init
  <2>1. P = [s \in Sub |-> {}]
    BY <1>1, <1>2, FeedInit
  <2>2. given = [s \in Sub |-> {}]
    BY <1>2 DEF Init
  <2> QED BY <2>1, <2>2 DEF Feed!Init
<1>3. ASSUME FeedInv, [Next]_vars
      PROVE  [Feed!Next]_<<P, given>>
  <2>1. \A s \in Sub : P'[s] = Pending(s)'
    BY DEF Pending
  <2>2. CASE FeedStill
    <3>1. P' = P
      BY <1>1, <2>1, <2>2 DEF FeedStill
    <3> QED BY <2>2, <3>1 DEF FeedStill
  <2>3. ASSUME NEW s \in Sub, FeedAccepts(s)
        PROVE  Feed!Accept(s)
    <3>2. /\ published \in Event /\ given' = given
          /\ \A e \in P[s] \cup given[s] : published > e
      BY <1>1, <2>3 DEF FeedAccepts
    <3>3. Feed!Newer({published}, P[s] \cup given[s])
      BY <3>2 DEF Feed!Newer
    <3>4. \/ P'[s] = P[s] \cup {published}
          \/ /\ Cardinality(P[s]) >= MaxEvents
             /\ \E o \in P[s] : P'[s] = (P[s] \ {o}) \cup {published}
      BY <1>1, <2>1, <2>3 DEF FeedAccepts
    <3>5. P' = [P EXCEPT ![s] = P'[s]]
      BY <1>1, <2>1, <2>3 DEF FeedAccepts
    <3>6. CASE P'[s] = P[s] \cup {published}
      <4>1. P' = [P EXCEPT ![s] = P[s] \cup {published}]
        BY <3>5, <3>6
      <4> QED BY <3>2, <3>3, <4>1 DEF Feed!Accept
    <3>7. Feed!Cardinality(P[s]) = Cardinality(P[s])
      BY DEF Feed!Cardinality, Cardinality
    <3>8. ASSUME NEW o \in P[s], Cardinality(P[s]) >= MaxEvents,
                 P'[s] = (P[s] \ {o}) \cup {published}
          PROVE  Feed!Accept(s)
      <4>1. P' = [P EXCEPT ![s] = (P[s] \ {o}) \cup {published}]
        BY <3>5, <3>8
      <4> QED BY <3>2, <3>3, <3>7, <3>8, <4>1 DEF Feed!Accept
    <3> QED BY <3>4, <3>6, <3>8
  <2>4. ASSUME NEW s \in Sub, FeedAnswers(s)
        PROVE  [Feed!Answer(s)]_<<P, given>>
    <3>5. PICK B \in SUBSET P[s] : \E L \in SUBSET (P[s] \ B) :
            /\ \A u \in Sub \ {s} : Pending(u)' = Pending(u)
            /\ Pending(s)' = Pending(s) \ (B \cup L)
            /\ given' = [given EXCEPT ![s] = @ \cup B]
            /\ \A l \in L, b \in B : l > b
            /\ B = {} => L = {}
      BY <1>1, <2>4 DEF FeedAnswers
    <3>1. PICK L \in SUBSET (P[s] \ B) :
            /\ \A u \in Sub \ {s} : Pending(u)' = Pending(u)
            /\ Pending(s)' = Pending(s) \ (B \cup L)
            /\ given' = [given EXCEPT ![s] = @ \cup B]
            /\ \A l \in L, b \in B : l > b
            /\ B = {} => L = {}
      BY <3>5
    <3>2. P' = [P EXCEPT ![s] = @ \ (B \cup L)]
      BY <1>1, <2>1, <3>1
    <3>3. CASE B = {}
      <4>1. given \in [Sub -> SUBSET Event]
        BY <1>3 DEF FeedInv, FeedType
      <4>2. P' = P /\ given' = given
        BY <3>1, <3>2, <3>3, <4>1
      <4> QED BY <4>2
    <3>4. CASE B # {}
      <4>1. Feed!Newer(L, B)
        BY <3>1 DEF Feed!Newer
      <4> QED BY <3>1, <3>2, <3>4, <4>1 DEF Feed!Answer
    <3> QED BY <3>3, <3>4
  <2> QED BY <1>3, <2>2, <2>3, <2>4, FeedStep DEF Feed!Next
<1> QED BY <1>2, <1>3, FeedInvariant, PTL DEF Spec, ImplementsFeed, Feed!Spec
----------------------------------------------------------------------------
(***************************************************************************)
(* The wake-up.  Inductive once a request's subscription is known.         *)
(***************************************************************************)
\* What a sleeper of subscription s may count on.
WakeupComes(s) ==
    \/ notify[s]
    \/ pubAt = s
    \/ \E q \in Request : on[q] = s /\ pc[q] = "woken"

LEMMA WakeupStep ==
    ASSUME FeedInv, FeedInv', NoLostWakeup, [Next]_vars
    PROVE  NoLostWakeup'
<1>1. /\ FeedType /\ RequestInv /\ FeedType' /\ RequestInv' /\ None \notin Sub
  BY EventsAssumption DEF FeedInv
<1>2. \A r \in Request : pc[r] # "idle" => on[r] \in Sub
  BY <1>1 DEF FeedType, RequestInv
<1>3. \A r \in Request : pc[r] \in {"empty", "waiting"} /\ events[on[r]] # <<>> =>
          WakeupComes(on[r])
  BY DEF NoLostWakeup, WakeupComes
<1> SUFFICES ASSUME NEW r \in Request,
                    pc'[r] \in {"empty", "waiting"}, events'[on'[r]] # <<>>
             PROVE  WakeupComes(on[r])'
  BY DEF NoLostWakeup, WakeupComes
<1>5. CASE /\ UNCHANGED <<events, on, notify, pubAt, pc>>
  BY <1>3, <1>5 DEF WakeupComes
<1>6. CASE Tick \/ PublishBegin \/ PublishEnd \/ CleanSample \/ CleanLock \/ Cleaner
  BY <1>5, <1>6 DEF Tick, PublishBegin, PublishEnd, CleanSample, CleanLock, Cleaner,
     CleanLook, CleanDelete, CleanUnlock, subVars, pubVars, reqVars
<1>7. CASE PublishAppend
  <2>1. PICK s \in pubTodo : Push(s) /\ pubAt' = s
    BY <1>7 DEF PublishAppend
  <2>2. pubAt = None /\ UNCHANGED <<on, notify, pc>>
    BY <1>7 DEF PublishAppend, reqVars
  <2>3. on[r] \in Sub
    BY <1>2, <2>2
  <2>4. CASE on[r] = s
    BY <2>1, <2>2, <2>4 DEF WakeupComes
  <2>5. CASE on[r] # s
    <3>1. events'[on[r]] = events[on[r]]
      BY <1>1, <2>1, <2>3, <2>5 DEF Push, FeedType
    <3>2. WakeupComes(on[r])
      BY <1>3, <2>2, <3>1
    <3>3. pubAt # on[r]
      BY <1>1, <2>2, <2>3
    <3> QED BY <2>2, <3>2, <3>3 DEF WakeupComes
  <2> QED BY <2>4, <2>5
<1>8. CASE PublishNotify
  <2>1. /\ notify' = [notify EXCEPT ![pubAt] = TRUE]
        /\ UNCHANGED <<events, on, pc>>
    BY <1>8 DEF PublishNotify, reqVars
  <2>2. WakeupComes(on[r]) /\ on[r] \in Sub
    BY <1>2, <1>3, <2>1
  <2>3. CASE on[r] = pubAt
    BY <1>1, <2>1, <2>2, <2>3 DEF WakeupComes, FeedType
  <2>4. CASE on[r] # pubAt
    <3>1. notify'[on[r]] = notify[on[r]]
      BY <1>1, <2>1, <2>2, <2>4 DEF FeedType
    <3> QED BY <2>1, <2>2, <2>4, <3>1 DEF WakeupComes
  <2> QED BY <2>3, <2>4
<1>9. ASSUME NEW p \in Request, Client(p) \/ Renew(p)
      PROVE  WakeupComes(on[r])'
  <2>1. /\ UNCHANGED <<events, notify, pubAt>> /\ pc[p] \in {"idle", "renew"}
        /\ \/ UNCHANGED <<on, pc>>
           \/ \E c \in {"idle", "pull", "renew"} : \E s \in Sub \cup {None} :
                /\ pc' = [pc EXCEPT ![p] = c] /\ on' = [on EXCEPT ![p] = s]
    BY <1>9 DEF Client, Renew, Create, Unsubscribe, Find, subVars, pubVars, reqVars
  <2>2. r # p \/ UNCHANGED <<on, pc>>
    BY <1>1, <2>1 DEF FeedType
  <2>3. /\ on'[r] = on[r] /\ pc'[r] = pc[r]
        /\ \A q \in Request : pc[q] = "woken" => on'[q] = on[q] /\ pc'[q] = "woken"
    BY <1>1, <2>1, <2>2 DEF FeedType
  <2>4. WakeupComes(on[r])
    BY <1>3, <2>1, <2>3
  <2> QED BY <2>1, <2>3, <2>4 DEF WakeupComes
<1>10. ASSUME NEW p \in Request, PullTake(p) \/ PullRetake(p)
       PROVE  WakeupComes(on[r])'
  <2>1. /\ UNCHANGED <<notify, pubAt, on>> /\ pc[p] \in {"pull", "woken"}
        /\ events' = [events EXCEPT ![on[p]] = <<>>]
        /\ \E c \in {"empty", "pulled"} : pc' = [pc EXCEPT ![p] = c]
    BY <1>10 DEF PullTake, PullRetake, TakeAll, pubVars
  <2>2. on[p] \in Sub /\ on[r] \in Sub
    BY <1>1, <1>2, <2>1 DEF FeedType, RequestInv
  <2>3. on[r] # on[p]
    BY <1>1, <2>1, <2>2 DEF FeedType
  <2>4. r # p /\ pc'[r] = pc[r] /\ events'[on[r]] = events[on[r]]
    BY <1>1, <2>1, <2>2, <2>3 DEF FeedType
  <2>5. WakeupComes(on[r])
    BY <1>3, <2>1, <2>4
  <2>6. \A q \in Request : on[q] = on[r] => pc'[q] = pc[q]
    BY <1>1, <2>1, <2>3 DEF FeedType
  <2> QED BY <2>1, <2>5, <2>6 DEF WakeupComes
<1>11. ASSUME NEW p \in Request, PullWait(p) \/ PullTimeout(p)
       PROVE  WakeupComes(on[r])'
  <2>1. /\ UNCHANGED <<events, notify, pubAt, on>> /\ pc[p] \in {"empty", "waiting"}
        /\ \E c \in {"waiting", "pulled"} : pc' = [pc EXCEPT ![p] = c]
    BY <1>11 DEF PullWait, PullTimeout, subVars, pubVars
  <2>2. pc[r] \in {"empty", "waiting"}
    BY <1>1, <2>1 DEF FeedType
  <2>3. \A q \in Request : pc[q] = "woken" => pc'[q] = "woken"
    BY <1>1, <2>1 DEF FeedType
  <2> QED BY <1>3, <2>1, <2>2, <2>3 DEF WakeupComes
<1>12. ASSUME NEW p \in Request, PullWake(p)
       PROVE  WakeupComes(on[r])'
  <2>1. /\ UNCHANGED <<events, pubAt, on>> /\ pc[p] = "waiting"
        /\ notify' = [notify EXCEPT ![on[p]] = FALSE]
        /\ pc' = [pc EXCEPT ![p] = "woken"]
    BY <1>12 DEF PullWake, pubVars
  <2>2. r # p /\ pc'[r] = pc[r] /\ pc'[p] = "woken"
    BY <1>1, <2>1 DEF FeedType
  <2>3. CASE on[r] = on[p]
    BY <2>1, <2>2, <2>3 DEF WakeupComes
  <2>4. CASE on[r] # on[p]
    <3>1. notify'[on[r]] = notify[on[r]]
      BY <1>1, <1>2, <2>1, <2>2, <2>4 DEF FeedType
    <3>2. \A q \in Request : pc[q] = "woken" => pc'[q] = "woken"
      BY <1>1, <2>1 DEF FeedType
    <3> QED BY <1>3, <2>1, <2>2, <3>1, <3>2 DEF WakeupComes
  <2> QED BY <2>3, <2>4
<1>13. ASSUME NEW p \in Request, PullAnswer(p)
       PROVE  WakeupComes(on[r])'
  <2>1. /\ UNCHANGED <<events, notify, pubAt>> /\ pc[p] = "pulled"
        /\ pc' = [pc EXCEPT ![p] = "idle"] /\ on' = [on EXCEPT ![p] = None]
    BY <1>13 DEF PullAnswer, subVars, pubVars
  <2>2. r # p
    BY <1>1, <2>1 DEF FeedType
  <2>3. /\ on'[r] = on[r] /\ pc'[r] = pc[r]
        /\ \A q \in Request : pc[q] = "woken" => on'[q] = on[q] /\ pc'[q] = "woken"
    BY <1>1, <2>1, <2>2 DEF FeedType
  <2> QED BY <1>3, <2>1, <2>3 DEF WakeupComes
<1>14. CASE UNCHANGED vars
  BY <1>5, <1>14 DEF vars, subVars, pubVars, reqVars
<1> QED BY <1>6, <1>7, <1>8, <1>9, <1>10, <1>11, <1>12, <1>13, <1>14
        DEF Next, Publisher, Puller

\* No request sleeps on a queue that has events without a wake-up on its
\* way, for any number of requests that share the one token of a
\* subscription.
THEOREM WakeupNeverLost == Spec => []NoLostWakeup
<1>1. Init => NoLostWakeup
  BY DEF Init, NoLostWakeup
<1>2. FeedInv /\ FeedInv' /\ NoLostWakeup /\ [Next]_vars => NoLostWakeup'
  BY WakeupStep
<1> QED BY <1>1, <1>2, FeedInvariant, PTL DEF Spec
----------------------------------------------------------------------------
(***************************************************************************)
(* The cleanup loop.                                                       *)
(***************************************************************************)
\* What the loop has found expired is expired, or was renewed since.
VictimInv ==
    /\ clock \in Nat /\ (now # None => now \in Nat /\ now <= clock)
    /\ term \in [Sub -> Nat]
    /\ registered \subseteq created /\ created \subseteq Sub
    /\ clnTodo # None => now # None /\ clnTodo \subseteq registered
    /\ victim # None => /\ victim \in registered /\ clnTodo # None
                        /\ victim \notin clnTodo
                        /\ term[victim] < now \/ victim \in late

SparesLive == \A s \in registered \ registered' :
                  victim = s => term[s] < clock \/ s \in late

\* Steps outside the loop: nothing is unregistered while it holds es.mu, and
\* a renewal is noted.
LEMMA OutsideStep ==
    ASSUME VictimInv, UNCHANGED <<now, clnTodo, victim>>,
           clock' \in {clock, clock + 1},
           term' \in [Sub -> Nat], created' \in SUBSET Sub, created \subseteq created',
           registered' \subseteq created', late \subseteq late',
           clnTodo # None => registered' = registered,
           \A s \in registered : term'[s] # term[s] => clnTodo = None \/ s \in late'
    PROVE  VictimInv' /\ SparesLive
<1>1. CASE clnTodo = None
  <2>1. victim = None
    BY <1>1 DEF VictimInv
  <2> QED BY <1>1, <2>1, EventsAssumption DEF VictimInv, SparesLive
<1>2. CASE clnTodo # None
  <2>1. clock' \in Nat /\ (now # None => now <= clock')
    BY DEF VictimInv
  <2>2. victim # None => term'[victim] < now \/ victim \in late'
    BY <1>2 DEF VictimInv
  <2> QED BY <1>2, <2>1, <2>2 DEF VictimInv, SparesLive
<1> QED BY <1>1, <1>2

LEMMA VictimStep ==
    ASSUME VictimInv, \A r \in Request : pc[r] = "renew" => on[r] \in Sub, [Next]_vars
    PROVE  VictimInv' /\ SparesLive
<1>0. None \notin Sub /\ Renewal \in Nat /\ Lifetimes \subseteq Nat
  BY EventsAssumption
<1>1. CASE UNCHANGED <<clock, created, registered, term, clnVars, late>>
  BY <1>1, OutsideStep DEF clnVars, VictimInv
<1>2. CASE Tick
  BY <1>2, OutsideStep DEF Tick, subVars, clnVars, hisVars, VictimInv
<1>3. CASE Publisher
  BY <1>1, <1>3 DEF Publisher, PublishBegin, PublishAppend, PublishNotify, PublishEnd,
                    subVars, hisVars
<1>4. ASSUME NEW r \in Request, NEW s \in Sub, Create(r, s)
      PROVE  VictimInv' /\ SparesLive
  <2>1. /\ UNCHANGED <<now, clnTodo, victim, late, clock>> /\ clnTodo = None
        /\ s \notin created /\ created' = created \cup {s}
        /\ registered' = registered \cup {s}
        /\ \E d \in Lifetimes : term' = [term EXCEPT ![s] = clock + d]
    BY <1>4 DEF Create, CanWrite, clnVars, hisVars
  <2>2. term' \in [Sub -> Nat]
    BY <1>0, <2>1 DEF VictimInv
  <2> QED BY <2>1, <2>2, OutsideStep DEF VictimInv
<1>5. ASSUME NEW r \in Request, NEW s \in Sub, Unsubscribe(r, s)
      PROVE  VictimInv' /\ SparesLive
  <2>1. /\ UNCHANGED <<now, clnTodo, victim, late, clock, created, term>>
        /\ clnTodo = None /\ registered' = registered \ {s}
    BY <1>5 DEF Unsubscribe, CanWrite, clnVars, hisVars
  <2> QED BY <2>1, OutsideStep DEF VictimInv
<1>6. ASSUME NEW r \in Request, NEW s \in Sub, Find(r, s, "pull") \/ Find(r, s, "renew")
      PROVE  VictimInv' /\ SparesLive
  BY <1>1, <1>6 DEF Find, subVars, hisVars
<1>7. ASSUME NEW r \in Request, Puller(r)
      PROVE  VictimInv' /\ SparesLive
  BY <1>1, <1>7 DEF Puller, PullTake, PullWait, PullWake, PullTimeout, PullRetake,
                    PullAnswer, subVars, hisVars
<1>8. ASSUME NEW r \in Request, Renew(r)
      PROVE  VictimInv' /\ SparesLive
  <2>1. /\ UNCHANGED <<now, clnTodo, victim, clock, created, registered>>
        /\ on[r] \in Sub /\ term' = [term EXCEPT ![on[r]] = clock + Renewal]
        /\ late' = IF clnTodo = None THEN late ELSE late \cup {on[r]}
    BY <1>8 DEF Renew, clnVars
  <2>2. term' \in [Sub -> Nat] /\ \A s \in Sub : s # on[r] => term'[s] = term[s]
    BY <1>0, <2>1 DEF VictimInv
  <2>3. \A s \in registered : term'[s] # term[s] => clnTodo = None \/ s \in late'
    BY <2>1, <2>2 DEF VictimInv
  <2>4. late \subseteq late'
    BY <2>1
  <2> QED BY <2>1, <2>2, <2>3, <2>4, OutsideStep DEF VictimInv
<1>9. CASE CleanSample
  <2>1. /\ now = None /\ now' = clock
        /\ UNCHANGED <<clock, created, registered, term, clnTodo, victim, late>>
    BY <1>9 DEF CleanSample, subVars, hisVars
  <2> QED BY <2>1 DEF VictimInv, SparesLive
<1>10. CASE CleanLock
  <2>1. /\ now # None /\ clnTodo = None /\ clnTodo' = registered
        /\ UNCHANGED <<clock, created, registered, term, now, victim>>
    BY <1>10 DEF CleanLock, CanWrite, subVars
  <2> QED BY <2>1 DEF VictimInv, SparesLive
<1>11. CASE CleanLook
  <2>1. PICK s \in clnTodo : /\ clnTodo' = clnTodo \ {s}
                             /\ victim' = IF Expired(s) THEN s ELSE None
    BY <1>11 DEF CleanLook
  <2>2. /\ clnTodo # None /\ victim = None
        /\ UNCHANGED <<clock, created, registered, term, now, late>>
    BY <1>11 DEF CleanLook, subVars, hisVars
  <2>3. s \in registered /\ s \in Sub /\ term[s] \in Nat /\ now \in Nat
    BY <2>1, <2>2 DEF VictimInv
  <2>4. victim' # None => victim' = s /\ term[s] < now
    BY <2>1, <2>3 DEF Expired
  <2>5. clnTodo' # None /\ clnTodo' \subseteq registered
    <3>1. clnTodo' \in SUBSET registered
      BY <2>1, <2>2 DEF VictimInv
    <3> QED BY <3>1, EventsAssumption DEF VictimInv
  <2>6. victim' # None =>
          victim' \in registered /\ victim' \notin clnTodo' /\ term[victim'] < now
    BY <2>1, <2>3, <2>4
  <2>7. registered' = registered /\ term' = term /\ now' = now /\ late' = late
        /\ clock' = clock
    BY <2>2
  <2>8. now # None
    BY <2>2 DEF VictimInv
  <2>9. SparesLive
    BY <2>7 DEF SparesLive
  <2>10. created' = created
    BY <2>2
  <2> QED BY <2>5, <2>6, <2>7, <2>8, <2>9, <2>10 DEF VictimInv
<1>12. CASE CleanDelete
  <2>1. /\ victim # None /\ victim' = None /\ registered' = registered \ {victim}
        /\ UNCHANGED <<clock, created, term, now, clnTodo, late>>
    BY <1>12 DEF CleanDelete, hisVars
  <2>2. term[victim] < clock \/ victim \in late
    BY <1>0, <2>1 DEF VictimInv
  <2>3. clnTodo # None => clnTodo \subseteq registered'
    BY <2>1 DEF VictimInv
  <2> QED BY <2>1, <2>2, <2>3 DEF VictimInv, SparesLive
<1>13. CASE CleanUnlock
  <2>1. /\ clnTodo' = None /\ now' = None /\ victim = None /\ victim' = None
        /\ UNCHANGED <<clock, created, registered, term, late>>
    BY <1>13 DEF CleanUnlock, subVars, hisVars
  <2> QED BY <2>1 DEF VictimInv, SparesLive
<1>14. CASE UNCHANGED vars
  BY <1>1, <1>14 DEF vars, subVars, hisVars
<1> QED BY <1>2, <1>3, <1>4, <1>5, <1>6, <1>7, <1>8, <1>9, <1>10, <1>11, <1>12, <1>13,
           <1>14 DEF Next, Client, Cleaner

\* The cleanup loop deletes only what has expired, or was renewed while the
\* loop held es.mu: for any number of subscriptions and any termination times.
THEOREM LiveSubscriptionsSpared == Spec => CleanupSparesLive
<1>1. ASSUME Init
      PROVE  VictimInv
  <2>1. term \in [Sub -> Nat]
    BY <1>1 DEF Init
  <2> QED BY <1>1, <2>1 DEF Init, VictimInv
<1>2. FeedInv => \A r \in Request : pc[r] = "renew" => on[r] \in Sub
  BY DEF FeedInv, FeedType, RequestInv
<1>3. FeedInv /\ VictimInv /\ [Next]_vars =>
        /\ VictimInv'
        /\ [\A s \in registered \ registered' :
              victim = s => term[s] < clock \/ s \in late]_vars
  BY <1>2, VictimStep DEF SparesLive
<1> QED BY <1>1, <1>3, FeedInvariant, PTL DEF Spec, CleanupSparesLive
----------------------------------------------------------------------------
(***************************************************************************)
(* What the two holders of es.mu rely on.                                  *)
(***************************************************************************)
\* The publisher visits, and the cleanup loop looks at, subscriptions that
\* are registered: neither lets es.mu go while it has some left.
LockType ==
    /\ clock \in 0..MaxClock
    /\ \A s \in Sub : Len(events[s]) <= MaxEvents
    /\ pubTodo = None \/ pubTodo \subseteq registered
    /\ pubAt \in Sub \cup {None}
    /\ now \in 0..MaxClock \cup {None}
    /\ clnTodo = None \/ clnTodo \subseteq registered
    /\ victim \in Sub \cup {None}
    /\ pubTodo = None \/ clnTodo = None
    /\ victim # None => clnTodo # None /\ victim \notin clnTodo
    /\ late \subseteq Sub

LEMMA PushedLen ==
    ASSUME FeedType, LockType, NEW s \in Sub, Push(s), published \in Event
    PROVE  \A t \in Sub : Len(events'[t]) <= MaxEvents
<1> DEFINE q == events[s]
<1>1. q \in Seq(Event) /\ Len(q) <= MaxEvents /\ MaxEvents \in Nat \ {0}
  BY EventsAssumption DEF FeedType, LockType
<1>2. \A t \in Sub \ {s} : events'[t] = events[t]
  BY DEF Push, FeedType
<1>3. events'[s] = Append(IF Len(q) >= MaxEvents THEN Tail(q) ELSE q, published)
  BY DEF Push, FeedType
<1> HIDE DEF q
<1>4. CASE Len(q) >= MaxEvents
  <2>1. Tail(q) \in Seq(Event) /\ Len(Tail(q)) = Len(q) - 1
    BY <1>1, <1>4
  <2>2. Len(events'[s]) = Len(q) - 1 + 1
    BY <1>3, <1>4, <2>1
  <2> QED BY <1>1, <1>2, <2>2 DEF LockType
<1>5. CASE ~(Len(q) >= MaxEvents)
  <2>1. Len(events'[s]) = Len(q) + 1 /\ Len(q) \in Nat
    BY <1>1, <1>3, <1>5
  <2>2. Len(events'[s]) <= MaxEvents
    BY <1>1, <1>5, <2>1
  <2> QED BY <1>2, <2>2 DEF LockType
<1> QED BY <1>4, <1>5

\* Steps that touch neither lock: registered only grows or shrinks freely
\* while nobody holds es.mu.
LEMMA UnlockedStep ==
    ASSUME LockType,
           UNCHANGED <<pubAt, now, victim, clnTodo>>,
           pubTodo' = pubTodo,
           clock' \in 0..MaxClock,
           late' \subseteq Sub,
           \A s \in Sub : events'[s] = events[s] \/ events'[s] = <<>>,
           registered' = registered \/ (pubTodo = None /\ clnTodo = None)
    PROVE  LockType'
<1>1. \A s \in Sub : Len(events'[s]) <= MaxEvents
  <2>1. Len(<<>>) <= MaxEvents
    BY EventsAssumption
  <2> QED BY <2>1 DEF LockType
<1> QED BY <1>1 DEF LockType

LEMMA LockStep ==
    ASSUME FeedInv, LockType, [Next]_vars
    PROVE  LockType'
<1>0. MaxClock \in Nat /\ None \notin Sub /\ \A S \in SUBSET Sub : S # None
  BY EventsAssumption
<1>1. clock \in 0..MaxClock /\ late \subseteq Sub /\ registered \subseteq Sub
  BY DEF LockType, FeedInv, FeedType
<1>2. CASE Tick
  <2>1. clock' \in 0..MaxClock
    BY <1>0, <1>1, <1>2 DEF Tick
  <2> QED BY <1>1, <1>2, <2>1, UnlockedStep DEF Tick, subVars, pubVars, clnVars, hisVars
<1>3. CASE PublishBegin
  <2>1. clnTodo = None /\ pubTodo' = registered
        /\ UNCHANGED <<clock, events, registered, pubAt, now, clnTodo, victim, late>>
    BY <1>3 DEF PublishBegin, CanRead, subVars, clnVars, hisVars
  <2> QED BY <2>1 DEF LockType
<1>4. CASE PublishAppend
  <2>1. PICK s \in pubTodo : Push(s) /\ pubTodo' = pubTodo \ {s} /\ pubAt' = s
    BY <1>4 DEF PublishAppend
  <2>2. pubTodo # None /\ UNCHANGED <<clock, registered, now, clnTodo, victim, late>>
    BY <1>4 DEF PublishAppend, clnVars, hisVars
  <2>3. s \in Sub /\ published \in Event
    BY <2>2 DEF FeedInv, PubInv
  <2>4. \A t \in Sub : Len(events'[t]) <= MaxEvents
    BY <2>1, <2>3, PushedLen DEF FeedInv
  <2> QED BY <2>1, <2>2, <2>3, <2>4 DEF LockType
<1>5. CASE PublishNotify \/ PublishEnd
  <2>1. /\ pubAt' \in {pubAt, None} /\ pubTodo' \in {pubTodo, None}
        /\ UNCHANGED <<clock, events, registered, now, clnTodo, victim, late>>
    BY <1>5 DEF PublishNotify, PublishEnd, subVars, clnVars, hisVars
  <2> QED BY <2>1 DEF LockType
<1>6. CASE CleanSample
  <2>1. /\ now' = clock
        /\ UNCHANGED <<clock, events, registered, pubTodo, pubAt, clnTodo, victim, late>>
    BY <1>6 DEF CleanSample, subVars, pubVars, hisVars
  <2> QED BY <2>1 DEF LockType
<1>7. CASE CleanLock
  <2>1. /\ pubTodo = None /\ clnTodo = None /\ clnTodo' = registered /\ late' = {}
        /\ UNCHANGED <<clock, events, registered, pubTodo, pubAt, now, victim>>
    BY <1>7 DEF CleanLock, CanWrite, subVars, pubVars
  <2> QED BY <2>1 DEF LockType
<1>8. CASE CleanLook
  <2>1. PICK s \in clnTodo : /\ clnTodo' = clnTodo \ {s}
                             /\ victim' \in {s, None}
    BY <1>8 DEF CleanLook
  <2>2. /\ clnTodo # None
        /\ UNCHANGED <<clock, events, registered, pubTodo, pubAt, now, late>>
    BY <1>8 DEF CleanLook, subVars, pubVars, hisVars
  <2>3. clnTodo \subseteq registered /\ s \in Sub /\ clnTodo' \in SUBSET Sub
    BY <1>1, <2>1, <2>2 DEF LockType
  <2>4. clnTodo' # None /\ s \notin clnTodo'
    BY <1>0, <2>1, <2>3
  <2> QED BY <2>1, <2>2, <2>3, <2>4 DEF LockType
<1>9. CASE CleanDelete
  <2>1. /\ victim # None /\ victim' = None /\ registered' = registered \ {victim}
        /\ UNCHANGED <<clock, events, pubTodo, pubAt, now, clnTodo, late>>
    BY <1>9 DEF CleanDelete, pubVars, hisVars
  <2>2. pubTodo = None /\ victim \notin clnTodo /\ clnTodo # None
    BY <2>1 DEF LockType
  <2> QED BY <2>1, <2>2 DEF LockType
<1>10. CASE CleanUnlock
  <2>1. /\ clnTodo' = None /\ now' = None /\ victim = None /\ victim' = None
        /\ UNCHANGED <<clock, events, registered, pubTodo, pubAt, late>>
    BY <1>10 DEF CleanUnlock, subVars, pubVars, hisVars
  <2> QED BY <2>1 DEF LockType
<1>11. ASSUME NEW r \in Request, Client(r)
       PROVE  LockType'
  <2>1. UNCHANGED <<clock, events, pubAt, now, victim, clnTodo, pubTodo, late>>
    BY <1>11 DEF Client, Create, Unsubscribe, Find, subVars, pubVars, clnVars, hisVars
  <2>2. registered' = registered \/ (pubTodo = None /\ clnTodo = None)
    BY <1>11 DEF Client, Create, Unsubscribe, Find, CanWrite, subVars
  <2> QED BY <1>1, <2>1, <2>2, UnlockedStep
<1>12. ASSUME NEW r \in Request, Puller(r)
       PROVE  LockType'
  <2>1. UNCHANGED <<clock, registered, pubAt, now, victim, clnTodo, pubTodo, late>>
    BY <1>12 DEF Puller, PullTake, PullWait, PullWake, PullTimeout, PullRetake,
                 PullAnswer, subVars, pubVars, clnVars, hisVars
  <2>2. \/ events' = events
        \/ events' = [events EXCEPT ![on[r]] = <<>>]
    BY <1>12 DEF Puller, PullTake, PullWait, PullWake, PullTimeout, PullRetake,
                 PullAnswer, TakeAll, subVars
  <2>3. \A s \in Sub : events'[s] = events[s] \/ events'[s] = <<>>
    BY <2>2 DEF FeedInv, FeedType
  <2> QED BY <1>1, <2>1, <2>3, UnlockedStep
<1>13. ASSUME NEW r \in Request, Renew(r)
       PROVE  LockType'
  <2>1. UNCHANGED <<clock, events, registered, pubAt, now, victim, clnTodo, pubTodo>>
    BY <1>13 DEF Renew, pubVars, clnVars
  <2>2. late' \subseteq Sub
    <3>1. on[r] \in Sub
      BY <1>13 DEF Renew, FeedInv, FeedType, RequestInv
    <3> QED BY <1>1, <1>13, <3>1 DEF Renew
  <2> QED BY <1>1, <2>1, <2>2, UnlockedStep
<1>14. CASE UNCHANGED vars
  BY <1>1, <1>14, UnlockedStep DEF vars, subVars, pubVars, clnVars, hisVars
<1> QED BY <1>2, <1>3, <1>4, <1>5, <1>6, <1>7, <1>8, <1>9, <1>10, <1>11, <1>12, <1>13,
           <1>14 DEF Next, Publisher, Cleaner

\* Every queue keeps its bound, and whoever iterates over the subscriptions
\* under es.mu - the publisher or the cleanup loop - has only registered ones
\* ahead of it, for any number of subscriptions and requests.
THEOREM EventsTypes == Spec => []TypeOK
<1>1. ASSUME Init
      PROVE  LockType /\ VictimInv
  <2>1. LockType
    <3>1. \A s \in Sub : Len(events[s]) <= MaxEvents
      BY <1>1, EventsAssumption DEF Init
    <3> QED BY <1>1, <3>1, EventsAssumption DEF Init, LockType
  <2>2. term \in [Sub -> Nat]
    BY <1>1 DEF Init
  <2> QED BY <1>1, <2>1, <2>2 DEF Init, VictimInv
<1>2. FeedInv => \A r \in Request : pc[r] = "renew" => on[r] \in Sub
  BY DEF FeedInv, FeedType, RequestInv
<1>3. FeedInv /\ (LockType /\ VictimInv) /\ [Next]_vars => (LockType /\ VictimInv)'
  BY <1>2, LockStep, VictimStep
<1>4. FeedInv /\ LockType /\ VictimInv => TypeOK
  BY DEF FeedInv, FeedType, LockType, VictimInv, TypeOK
<1> QED BY <1>1, <1>3, <1>4, FeedInvariant, PTL DEF Spec
=============================================================================
