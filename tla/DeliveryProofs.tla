--------------------------- MODULE DeliveryProofs ---------------------------
(***************************************************************************)
(* The order of delivery, proved for every number of viewers, encoders and *)
(* channel sizes.  InOrder becomes inductive once every access unit in     *)
(* transit is known to sit with its own encoder and to be numbered no      *)
(* higher than what that encoder has sent (Coded).                         *)
(***************************************************************************)
EXTENDS PipelineProofs

Coded ==
    /\ \A g \in Sub : hand[g] # None =>
          hand[g].gen = g /\ hand[g].seq <= coded[g]
    /\ \A g \in Sub : \A i \in 1..Len(aus[g]) :
          aus[g][i].gen = g /\ aus[g][i].seq <= coded[g]
    /\ \A s \in Sub : \A i \in 1..Len(chan[s]) :
          chan[s][i].seq <= coded[chan[s][i].gen]

DeliveryInv == TypeOK /\ InOrder /\ Coded

\* The part of TypeOK that the order needs.
TransitTypes ==
    /\ chan \in [Sub -> Seq(AU)]
    /\ aus \in [Sub -> Seq(AU)]
    /\ hand \in [Sub -> AU \cup {None}]
    /\ coded \in [Sub -> Nat]

LEMMA TypesInTransit == TypeOK => TransitTypes
  BY DEF TypeOK, HubTypeOK, PipelineTypeOK, TransitTypes

\* The same, element by element: what arithmetic on sequence numbers needs.
Elements ==
    /\ \A s \in Sub : /\ Len(chan[s]) \in Nat
                      /\ \A i \in 1..Len(chan[s]) : /\ chan[s][i].gen \in Sub
                                                    /\ chan[s][i].seq \in Nat
    /\ \A g \in Sub : /\ Len(aus[g]) \in Nat
                      /\ \A i \in 1..Len(aus[g]) : aus[g][i].seq \in Nat
    /\ \A g \in Sub : hand[g] # None => hand[g].seq \in Nat
    /\ \A g \in Sub : coded[g] \in Nat

LEMMA ElementsTyped == ASSUME TransitTypes PROVE Elements
<1>1. \A au \in AU : au.gen \in Sub /\ au.seq \in Nat
  BY DEF AU
<1>2. \A q \in Seq(AU) : Len(q) \in Nat /\ \A i \in 1..Len(q) : q[i] \in AU
  OBVIOUS
<1>3. \A g \in Sub : hand[g] # None => hand[g] \in AU
  BY DEF TransitTypes
<1>4. \A g \in Sub : aus[g] \in Seq(AU) /\ chan[g] \in Seq(AU) /\ coded[g] \in Nat
  BY DEF TransitTypes
<1> QED BY <1>1, <1>2, <1>3, <1>4 DEF Elements

\* What Append and Tail do to the elements of a sequence.
LEMMA AppendElements ==
    ASSUME NEW S, NEW q \in Seq(S), NEW e \in S
    PROVE  /\ Len(Append(q, e)) = Len(q) + 1
           /\ \A i \in 1..Len(q) : Append(q, e)[i] = q[i]
           /\ Append(q, e)[Len(q) + 1] = e
  OBVIOUS

LEMMA TailElements ==
    ASSUME NEW S, NEW q \in Seq(S), q # <<>>
    PROVE  /\ Len(q) \in Nat \ {0}
           /\ Len(Tail(q)) = Len(q) - 1
           /\ \A i \in 1..(Len(q) - 1) : Tail(q)[i] = q[i + 1]
           /\ Head(q) = q[1]
  OBVIOUS

\* readNALUs appends the next number: everything in transit is older.
LEMMA ReaderSendOrder ==
    ASSUME DeliveryInv, NEW g \in Sub, ReaderSend(g), TypeOK'
    PROVE  DeliveryInv'
<1> DEFINE au == [gen |-> g, seq |-> coded[g] + 1]
           n == Len(aus[g])
<1>0. TransitTypes /\ Elements /\ InOrder /\ Coded
  BY TypesInTransit, ElementsTyped DEF DeliveryInv
<1>1. /\ aus' = [aus EXCEPT ![g] = Append(aus[g], au)]
      /\ coded' = [coded EXCEPT ![g] = coded[g] + 1]
      /\ UNCHANGED <<chan, hand>>
  BY DEF ReaderSend, hubVars
<1>2. au \in AU /\ au.gen = g /\ au.seq = coded[g] + 1
  BY <1>0 DEF AU, TransitTypes
<1>3. /\ Len(aus'[g]) = n + 1
      /\ \A i \in 1..n : aus'[g][i] = aus[g][i]
      /\ aus'[g][n + 1] = au
      /\ \A h \in Sub : h # g => aus'[h] = aus[h]
  <2>1. aus'[g] = Append(aus[g], au) /\ aus[g] \in Seq(AU)
    BY <1>0, <1>1 DEF TransitTypes
  <2>2. \A h \in Sub : h # g => aus'[h] = aus[h]
    BY <1>0, <1>1 DEF TransitTypes
  <2> HIDE DEF au
  <2> QED BY <1>2, <2>1, <2>2, AppendElements
<1>4. /\ \A h \in Sub : coded'[h] \in Nat /\ coded'[h] >= coded[h]
      /\ coded'[g] = coded[g] + 1
  BY <1>0, <1>1 DEF TransitTypes
<1>5. n \in Nat
  BY <1>0 DEF Elements
<1> HIDE DEF au, n
<1>6. Coded'
  <2>1. ASSUME NEW h \in Sub, hand'[h] # None
        PROVE  hand'[h].gen = h /\ hand'[h].seq <= coded'[h]
    BY <1>0, <1>1, <1>4, <2>1 DEF Coded, Elements
  <2>2. ASSUME NEW h \in Sub, NEW i \in 1..Len(aus'[h])
        PROVE  aus'[h][i].gen = h /\ aus'[h][i].seq <= coded'[h]
    <3>1. CASE h = g /\ i = n + 1
      BY <1>2, <1>3, <1>4, <3>1
    <3>2. CASE ~(h = g /\ i = n + 1)
      <4>1. i \in 1..Len(aus[h]) /\ aus'[h][i] = aus[h][i]
        BY <1>3, <1>5, <2>2, <3>2 DEF n
      <4> QED BY <1>0, <1>4, <4>1 DEF Coded, Elements
    <3> QED BY <3>1, <3>2
  <2>3. ASSUME NEW s \in Sub, NEW i \in 1..Len(chan[s])
        PROVE  chan[s][i].seq <= coded'[chan[s][i].gen]
    BY <1>0, <1>4, <2>3 DEF Coded, Elements
  <2> QED BY <1>1, <2>1, <2>2, <2>3 DEF Coded
<1>7. ASSUME NEW h \in Sub, NEW j \in 1..Len(aus'[h])
      PROVE  \/ h = g /\ j = n + 1 /\ aus'[h][j] = au
             \/ j \in 1..Len(aus[h]) /\ aus'[h][j] = aus[h][j]
  BY <1>3, <1>5, <1>7 DEF n
<1>8. InOrder'
  <2>1. ASSUME NEW s \in Sub, NEW i \in 1..Len(chan[s])
        PROVE  Before(chan[s][i], au)
    BY <1>0, <1>2, <2>1 DEF Coded, Elements, Before
  <2>2. hand[g] # None => Before(hand[g], au)
    BY <1>0, <1>2 DEF Coded, Elements, Before
  <2>3. ASSUME NEW i \in 1..n PROVE Before(aus[g][i], au)
    BY <1>0, <1>2, <2>3 DEF Coded, Elements, Before, n
  <2>4. ASSUME NEW s \in Sub, NEW h \in Sub, NEW i \in 1..Len(chan[s]),
               NEW j \in 1..Len(aus'[h])
        PROVE  Before(chan[s][i], aus'[h][j])
    BY <1>0, <1>7, <2>1 DEF InOrder
  <2>5. ASSUME NEW h \in Sub, NEW j \in 1..Len(aus'[h])
        PROVE  hand[h] # None => Before(hand[h], aus'[h][j])
    BY <1>0, <1>7, <2>2 DEF InOrder
  <2>6. ASSUME NEW h \in Sub, NEW j \in 1..Len(aus'[h]), NEW i \in 1..(j - 1)
        PROVE  Before(aus'[h][i], aus'[h][j])
    <3>1. CASE h = g /\ j = n + 1
      <4>1. i \in 1..n
        BY <1>5, <3>1
      <4> QED BY <1>3, <2>3, <3>1, <4>1
    <3>2. CASE ~(h = g /\ j = n + 1)
      <4>1. j \in 1..Len(aus[h]) /\ aus'[h][j] = aus[h][j]
        BY <1>7, <3>2
      <4>2. i \in 1..Len(aus[h]) /\ aus'[h][i] = aus[h][i]
        BY <1>0, <1>3, <4>1 DEF Elements, n
      <4> QED BY <1>0, <4>1, <4>2 DEF InOrder
    <3> QED BY <3>1, <3>2
  <2> QED BY <1>0, <1>1, <2>4, <2>5, <2>6 DEF InOrder
<1> QED BY <1>6, <1>8 DEF DeliveryInv

\* The broadcast loop takes the oldest access unit of its encoder: the rest of
\* aus follows it, what the viewers hold precedes it.
LEMMA CasterTakeOrder ==
    ASSUME DeliveryInv, NEW g \in Sub, CasterTake(g), TypeOK'
    PROVE  DeliveryInv'
<1> DEFINE n == Len(aus[g])
<1>0. TransitTypes /\ Elements /\ InOrder /\ Coded
  BY TypesInTransit, ElementsTyped DEF DeliveryInv
<1>1. /\ hand' = [hand EXCEPT ![g] = Head(aus[g])]
      /\ aus' = [aus EXCEPT ![g] = Tail(aus[g])]
      /\ UNCHANGED <<chan, coded>>
      /\ aus[g] # <<>>
  BY DEF CasterTake, hubVars
<1>2. /\ n \in Nat \ {0}
      /\ Len(Tail(aus[g])) = n - 1
      /\ \A i \in 1..(n - 1) : Tail(aus[g])[i] = aus[g][i + 1]
      /\ Head(aus[g]) = aus[g][1]
  <2>1. aus[g] \in Seq(AU) /\ aus[g] # <<>>
    BY <1>0, <1>1 DEF TransitTypes
  <2> QED BY <2>1, TailElements
<1>3. /\ aus'[g] = Tail(aus[g]) /\ hand'[g] = Head(aus[g])
      /\ \A h \in Sub : h # g => aus'[h] = aus[h] /\ hand'[h] = hand[h]
  BY <1>0, <1>1 DEF TransitTypes
<1>8. Len(aus'[g]) = n - 1 /\ \A k \in 1..(n - 1) : aus'[g][k] = aus[g][k + 1]
  <2> HIDE DEF n
  <2> QED BY <1>2, <1>3, Zenon
<1> HIDE DEF n
<1>9. \A k \in 1..(n - 1) : k + 1 \in 2..n /\ k + 1 \in 1..n
  BY <1>2
<1>4. 1 \in 1..n /\ hand'[g] = aus[g][1]
  BY <1>2, <1>3
<1>5. ASSUME NEW h \in Sub, NEW j \in 1..Len(aus'[h])
      PROVE  \/ h # g /\ j \in 1..Len(aus[h]) /\ aus'[h][j] = aus[h][j]
             \/ h = g /\ j + 1 \in 2..n /\ aus'[h][j] = aus[h][j + 1]
  <2>1. CASE h = g
    <3>1. j \in 1..(n - 1)
      BY <1>5, <1>8, <2>1
    <3> QED BY <1>8, <1>9, <2>1, <3>1, Zenon
  <2>2. CASE h # g
    BY <1>3, <1>5, <2>2
  <2> QED BY <2>1, <2>2
<1>6. Coded'
  <2>1. ASSUME NEW h \in Sub, hand'[h] # None
        PROVE  hand'[h].gen = h /\ hand'[h].seq <= coded[h]
    BY <1>0, <1>3, <1>4, <2>1 DEF Coded, n
  <2>2. ASSUME NEW h \in Sub, NEW j \in 1..Len(aus'[h])
        PROVE  aus'[h][j].gen = h /\ aus'[h][j].seq <= coded[h]
    <3>1. \/ j \in 1..Len(aus[h]) /\ aus'[h][j] = aus[h][j]
          \/ j + 1 \in 1..Len(aus[h]) /\ aus'[h][j] = aus[h][j + 1]
      BY <1>2, <1>5 DEF n
    <3> QED BY <1>0, <3>1 DEF Coded
  <2> QED BY <1>0, <1>1, <2>1, <2>2 DEF Coded
<1>7. InOrder'
  <2>1. ASSUME NEW s \in Sub, NEW h \in Sub, NEW i \in 1..Len(chan[s])
        PROVE  /\ hand'[h] # None => Before(chan[s][i], hand'[h])
               /\ \A j \in 1..Len(aus'[h]) : Before(chan[s][i], aus'[h][j])
    <3>1. hand'[h] # None => Before(chan[s][i], hand'[h])
      BY <1>0, <1>3, <1>4 DEF InOrder, n
    <3>2. ASSUME NEW j \in 1..Len(aus'[h])
          PROVE  Before(chan[s][i], aus'[h][j])
      <4>1. \/ j \in 1..Len(aus[h]) /\ aus'[h][j] = aus[h][j]
            \/ j + 1 \in 1..Len(aus[h]) /\ aus'[h][j] = aus[h][j + 1]
        BY <1>2, <1>5 DEF n
      <4> QED BY <1>0, <4>1 DEF InOrder
    <3> QED BY <3>1, <3>2
  <2>2. ASSUME NEW h \in Sub, NEW j \in 1..Len(aus'[h])
        PROVE  hand'[h] # None => Before(hand'[h], aus'[h][j])
    <3>1. CASE h = g
      <4>1. j + 1 \in 1..n /\ 1 \in 1..((j + 1) - 1)
            /\ aus'[g][j] = aus[g][j + 1]
        BY <1>2, <1>5, <3>1
      <4>2. Before(aus[g][1], aus[g][j + 1])
        BY <1>0, <4>1 DEF InOrder, n
      <4> QED BY <1>4, <3>1, <4>1, <4>2
    <3>2. CASE h # g
      BY <1>0, <1>3, <1>5, <3>2 DEF InOrder
    <3> QED BY <3>1, <3>2
  <2>3. ASSUME NEW h \in Sub, NEW j \in 1..Len(aus'[h]), NEW i \in 1..(j - 1)
        PROVE  Before(aus'[h][i], aus'[h][j])
    <3>1. CASE h = g
      <4>1. /\ j + 1 \in 1..n /\ i + 1 \in 1..((j + 1) - 1)
            /\ aus'[g][j] = aus[g][j + 1] /\ aus'[g][i] = aus[g][i + 1]
        <5>1. j \in 1..(n - 1) /\ i \in 1..(n - 1) /\ i \in 1..(j - 1)
          BY <1>2, <1>8, <2>3, <3>1
        <5> QED BY <1>8, <1>9, <5>1
      <4>2. Before(aus[g][i + 1], aus[g][j + 1])
        BY <1>0, <4>1 DEF InOrder, n
      <4> QED BY <3>1, <4>1, <4>2
    <3>2. CASE h # g
      BY <1>0, <1>3, <1>5, <3>2 DEF InOrder
    <3> QED BY <3>1, <3>2
  <2>4. \A s \in Sub : \A i, j \in 1..Len(chan[s]) :
           i < j => Before(chan[s][i], chan[s][j])
    BY <1>0 DEF InOrder
  <2> QED BY <1>1, <2>1, <2>2, <2>3, <2>4 DEF InOrder
<1> QED BY <1>6, <1>7 DEF DeliveryInv

\* Broadcast appends what it holds, which follows everything delivered.
LEMMA CasterBroadcastOrder ==
    ASSUME DeliveryInv, NEW g \in Sub, CasterBroadcast(g), TypeOK'
    PROVE  DeliveryInv'
<1> DEFINE au == hand[g]
           Fed(s) == s \in subs /\ HasRoom(s)
<1>0. TransitTypes /\ Elements /\ InOrder /\ Coded
  BY TypesInTransit, ElementsTyped DEF DeliveryInv
<1>1. /\ hand' = [hand EXCEPT ![g] = None]
      /\ chan' = [s \in Sub |-> IF Fed(s) THEN Append(chan[s], au) ELSE chan[s]]
      /\ UNCHANGED <<aus, coded>>
      /\ hand[g] # None
  BY DEF CasterBroadcast, Broadcast
<1>2. au \in AU /\ au.gen = g /\ au.seq <= coded[g] /\ au.seq \in Nat
  BY <1>0, <1>1 DEF TransitTypes, Coded, Elements
<1>3. ASSUME NEW s \in Sub
      PROVE  \/ chan'[s] = chan[s]
             \/ /\ Len(chan'[s]) = Len(chan[s]) + 1
                /\ \A i \in 1..Len(chan[s]) : chan'[s][i] = chan[s][i]
                /\ chan'[s][Len(chan[s]) + 1] = au
  <2>1. chan[s] \in Seq(AU)
    BY <1>0 DEF TransitTypes
  <2>2. chan'[s] = chan[s] \/ chan'[s] = Append(chan[s], au)
    BY <1>1
  <2> HIDE DEF au
  <2> QED BY <1>2, <2>1, <2>2, AppendElements
<1>4. hand'[g] = None /\ \A h \in Sub : h # g => hand'[h] = hand[h]
  BY <1>0, <1>1 DEF TransitTypes
<1> HIDE DEF au, Fed
<1>5. ASSUME NEW s \in Sub, NEW i \in 1..Len(chan'[s])
      PROVE  \/ i \in 1..Len(chan[s]) /\ chan'[s][i] = chan[s][i]
             \/ i = Len(chan[s]) + 1 /\ chan'[s][i] = au
  <2>1. Len(chan[s]) \in Nat
    BY <1>0 DEF Elements
  <2> QED BY <1>3, <1>5, <2>1
<1>6. Coded'
  <2>1. ASSUME NEW s \in Sub, NEW i \in 1..Len(chan'[s])
        PROVE  chan'[s][i].seq <= coded[chan'[s][i].gen]
    BY <1>0, <1>2, <1>5 DEF Coded
  <2> QED BY <1>0, <1>1, <1>4, <2>1 DEF Coded
<1>7. InOrder'
  <2>1. ASSUME NEW s \in Sub, NEW i \in 1..Len(chan[s])
        PROVE  Before(chan[s][i], au)
    BY <1>0, <1>1 DEF InOrder, au
  <2>2. ASSUME NEW h \in Sub, NEW j \in 1..Len(aus[h])
        PROVE  Before(au, aus[h][j])
    <3>1. CASE h = g
      BY <1>0, <1>1, <3>1 DEF InOrder, au
    <3>2. CASE h # g
      BY <1>0, <1>2, <3>2 DEF Coded, Before
    <3> QED BY <3>1, <3>2
  <2>3. ASSUME NEW h \in Sub, hand'[h] # None
        PROVE  hand'[h] = hand[h] /\ Before(au, hand'[h])
    BY <1>0, <1>2, <1>4, <2>3 DEF Coded, Before
  <2>4. ASSUME NEW s \in Sub, NEW i \in 1..Len(chan'[s]),
               NEW j \in 1..Len(chan'[s]), i < j
        PROVE  Before(chan'[s][i], chan'[s][j])
    <3>0. Len(chan[s]) \in Nat
      BY <1>0 DEF Elements
    <3>1. i \in 1..Len(chan[s]) /\ chan'[s][i] = chan[s][i]
      BY <1>3, <1>5, <2>4, <3>0
    <3>2. CASE j \in 1..Len(chan[s]) /\ chan'[s][j] = chan[s][j]
      BY <1>0, <2>4, <3>1, <3>2 DEF InOrder
    <3>3. CASE chan'[s][j] = au
      BY <2>1, <3>1, <3>3
    <3> QED BY <1>5, <3>2, <3>3
  <2>5. ASSUME NEW s \in Sub, NEW h \in Sub, NEW i \in 1..Len(chan'[s])
        PROVE  /\ hand'[h] # None => Before(chan'[s][i], hand'[h])
               /\ \A j \in 1..Len(aus[h]) : Before(chan'[s][i], aus[h][j])
    <3>1. CASE i \in 1..Len(chan[s]) /\ chan'[s][i] = chan[s][i]
      BY <1>0, <2>3, <3>1 DEF InOrder
    <3>2. CASE chan'[s][i] = au
      BY <2>2, <2>3, <3>2
    <3> QED BY <1>5, <3>1, <3>2
  <2>6. ASSUME NEW h \in Sub, NEW j \in 1..Len(aus[h])
        PROVE  /\ hand'[h] # None => Before(hand'[h], aus[h][j])
               /\ \A i \in 1..(j - 1) : Before(aus[h][i], aus[h][j])
    BY <1>0, <2>3 DEF InOrder
  <2> QED BY <1>1, <2>4, <2>5, <2>6 DEF InOrder
<1> QED BY <1>6, <1>7 DEF DeliveryInv

\* A viewer reads the oldest access unit of its channel.
LEMMA ViewOrder ==
    ASSUME DeliveryInv, NEW v \in Sub, View(v), TypeOK'
    PROVE  DeliveryInv'
<1>0. TransitTypes /\ Elements /\ InOrder /\ Coded
  BY TypesInTransit, ElementsTyped DEF DeliveryInv
<1>1. /\ chan' = [chan EXCEPT ![v] = Tail(chan[v])]
      /\ UNCHANGED <<aus, hand, coded>>
      /\ chan[v] # <<>>
  BY DEF View, Receive, encVars
<1>2. /\ Len(chan[v]) \in Nat \ {0}
      /\ Len(Tail(chan[v])) = Len(chan[v]) - 1
      /\ \A i \in 1..(Len(chan[v]) - 1) : Tail(chan[v])[i] = chan[v][i + 1]
  <2>1. chan[v] \in Seq(AU) /\ chan[v] # <<>>
    BY <1>0, <1>1 DEF TransitTypes
  <2> QED BY <2>1, TailElements
<1>3. chan'[v] = Tail(chan[v]) /\ \A s \in Sub : s # v => chan'[s] = chan[s]
  BY <1>0, <1>1 DEF TransitTypes
<1>8. /\ Len(chan'[v]) = Len(chan[v]) - 1
      /\ \A k \in 1..(Len(chan[v]) - 1) : chan'[v][k] = chan[v][k + 1]
  BY <1>2, <1>3, Zenon
<1>9. \A k \in 1..(Len(chan[v]) - 1) : k + 1 \in 1..Len(chan[v])
  BY <1>2
<1>4. ASSUME NEW s \in Sub, NEW i \in 1..Len(chan'[s])
      PROVE  \/ s # v /\ i \in 1..Len(chan[s]) /\ chan'[s][i] = chan[s][i]
             \/ s = v /\ i + 1 \in 1..Len(chan[s]) /\ chan'[s][i] = chan[s][i + 1]
  <2>1. CASE s = v
    <3>1. i \in 1..(Len(chan[v]) - 1)
      BY <1>4, <1>8, <2>1
    <3> QED BY <1>8, <1>9, <2>1, <3>1, Zenon
  <2>2. CASE s # v
    BY <1>3, <1>4, <2>2
  <2> QED BY <2>1, <2>2
<1>5. ASSUME NEW s \in Sub, NEW i \in 1..Len(chan'[s])
      PROVE  \E k \in 1..Len(chan[s]) : chan'[s][i] = chan[s][k]
  BY <1>4
<1>6. Coded'
  BY <1>0, <1>1, <1>5 DEF Coded
<1>7. InOrder'
  <2>1. ASSUME NEW s \in Sub, NEW i \in 1..Len(chan'[s]),
               NEW j \in 1..Len(chan'[s]), i < j
        PROVE  Before(chan'[s][i], chan'[s][j])
    <3>1. CASE s = v
      <4>1. /\ i + 1 \in 1..Len(chan[v]) /\ j + 1 \in 1..Len(chan[v])
            /\ i + 1 < j + 1
            /\ chan'[s][i] = chan[v][i + 1] /\ chan'[s][j] = chan[v][j + 1]
        BY <1>4, <2>1, <3>1
      <4> QED BY <1>0, <4>1 DEF InOrder
    <3>2. CASE s # v
      BY <1>0, <1>3, <2>1, <3>2 DEF InOrder
    <3> QED BY <3>1, <3>2
  <2>2. ASSUME NEW s \in Sub, NEW g \in Sub, NEW i \in 1..Len(chan'[s])
        PROVE  /\ hand[g] # None => Before(chan'[s][i], hand[g])
               /\ \A j \in 1..Len(aus[g]) : Before(chan'[s][i], aus[g][j])
    BY <1>0, <1>5 DEF InOrder
  <2>3. \A g \in Sub : \A j \in 1..Len(aus[g]) :
           /\ hand[g] # None => Before(hand[g], aus[g][j])
           /\ \A i \in 1..(j - 1) : Before(aus[g][i], aus[g][j])
    BY <1>0 DEF InOrder
  <2> QED BY <1>1, <2>1, <2>2, <2>3 DEF InOrder
<1> QED BY <1>6, <1>7 DEF DeliveryInv

LEMMA DeliveryStep ==
    ASSUME DeliveryInv, [Next]_vars
    PROVE  DeliveryInv'
<1>0. TypeOK'
  BY TypeStep DEF DeliveryInv
<1>1. CASE UNCHANGED <<chan, aus, hand, coded>>
  BY <1>0, <1>1 DEF DeliveryInv, InOrder, Coded
<1>2. CASE NewPipeline \/ Finished \/ UNCHANGED vars
  BY <1>1, <1>2 DEF NewPipeline, SetCallbacks, Finished, vars, hubVars, encVars
<1>3. ASSUME NEW s \in Sub, Join(s) \/ Leave(s) PROVE DeliveryInv'
  BY <1>1, <1>3 DEF Join, Leave, Subscribe, Unsubscribe, encVars
<1>4. ASSUME NEW s \in Sub, Start(s) PROVE DeliveryInv'
  BY <1>1, <1>4 DEF Start, StartNew, Launch, StartAlreadyRunning, StartFails,
     CallReturns, encVars
<1>5. ASSUME NEW s \in Sub, Stop(s) PROVE DeliveryInv'
  BY <1>1, <1>5 DEF Stop, StopRunning, StopAlreadyStopped, CallReturns, encVars
<1>6. ASSUME NEW g \in Sub,
             RenderTick(g) \/ RenderExit(g) \/ ReaderExit(g) \/ CasterExit(g)
      PROVE  DeliveryInv'
  BY <1>1, <1>6 DEF RenderTick, RenderExit, ReaderExit, CasterExit, hubVars
<1> QED
  BY <1>0, <1>2, <1>3, <1>4, <1>5, <1>6, ViewOrder, ReaderSendOrder,
     CasterTakeOrder, CasterBroadcastOrder DEF Next, Callback, Goroutine

LEMMA DeliveryInit == ASSUME Init PROVE DeliveryInv
<1>1. TypeOK
  BY TypeInit
<1>2. \A s \in Sub : chan[s] = <<>> /\ aus[s] = <<>> /\ hand[s] = None
  BY DEF Init, HubInit
<1>3. Len(<<>>) = 0 /\ 1..0 = {}
  OBVIOUS
<1>4. Coded
  BY <1>2, <1>3 DEF Coded
<1>5. InOrder
  BY <1>2, <1>3 DEF InOrder
<1> QED BY <1>1, <1>4, <1>5 DEF DeliveryInv

\* Whatever the number of viewers, the channel sizes and the overlap of
\* encoders, every viewer receives each encoder's pictures in order, none
\* twice.
THEOREM Delivery == Spec => []InOrder
<1>1. Init => DeliveryInv
  BY DeliveryInit
<1>2. DeliveryInv => InOrder
  BY DEF DeliveryInv
<1> QED BY <1>1, <1>2, DeliveryStep, PTL DEF Spec
----------------------------------------------------------------------------
KeyframeInv == DeliveryInv /\ KeyframeNotBehind

\* The cache moves only with a keyframe, which by InOrder follows all that was
\* delivered of its encoder.
LEMMA BroadcastKeepsKeyframe ==
    ASSUME KeyframeInv, NEW g \in Sub, CasterBroadcast(g), DeliveryInv'
    PROVE  KeyframeNotBehind'
<1>0. TransitTypes /\ Elements /\ InOrder /\ KeyframeNotBehind
  BY TypesInTransit, ElementsTyped DEF KeyframeInv, DeliveryInv
<1> DEFINE au == hand[g]
<1>1. /\ au # None /\ au \in AU
      /\ lastIDR' = IF IsIDR(au) THEN au ELSE lastIDR
      /\ chan' = [s \in Sub |-> IF s \in subs /\ HasRoom(s)
                                THEN Append(chan[s], au) ELSE chan[s]]
  BY <1>0 DEF CasterBroadcast, Broadcast, TransitTypes
<1>2. au.seq \in Nat
  BY <1>0, <1>1 DEF Elements
<1>3. ASSUME NEW s \in Sub, NEW i \in 1..Len(chan'[s])
      PROVE  \/ i \in 1..Len(chan[s]) /\ chan'[s][i] = chan[s][i]
             \/ chan'[s][i] = au
  <2>1. chan[s] \in Seq(AU) /\ Len(chan[s]) \in Nat
    BY <1>0 DEF TransitTypes, Elements
  <2>2. chan'[s] = chan[s] \/ chan'[s] = Append(chan[s], au)
    BY <1>1
  <2> HIDE DEF au
  <2>3. CASE chan'[s] = Append(chan[s], au)
    <3>1. /\ Len(chan'[s]) = Len(chan[s]) + 1
          /\ \A k \in 1..Len(chan[s]) : chan'[s][k] = chan[s][k]
          /\ chan'[s][Len(chan[s]) + 1] = au
      BY <1>1, <2>1, <2>3, AppendElements
    <3> QED BY <1>3, <2>1, <3>1
  <2> QED BY <1>3, <2>2, <2>3
<1> SUFFICES ASSUME NEW s \in Sub, NEW i \in 1..Len(chan'[s]), IsIDR(chan'[s][i])
             PROVE  /\ lastIDR' # None
                    /\ lastIDR'.gen = chan'[s][i].gen =>
                          lastIDR'.seq >= chan'[s][i].seq
  BY DEF KeyframeNotBehind, IsIDR
<1>4. CASE chan'[s][i] = au
  BY <1>1, <1>2, <1>4
<1>5. CASE i \in 1..Len(chan[s]) /\ chan'[s][i] = chan[s][i]
  <2>1. chan[s][i].seq \in Nat
    BY <1>0, <1>5 DEF Elements
  <2>2. Before(chan[s][i], au)
    BY <1>0, <1>1, <1>5 DEF InOrder
  <2>3. /\ lastIDR # None
        /\ lastIDR.gen = chan[s][i].gen => lastIDR.seq >= chan[s][i].seq
    BY <1>0, <1>5 DEF KeyframeNotBehind
  <2>4. CASE IsIDR(au)
    BY <1>1, <1>2, <1>5, <2>1, <2>2, <2>4 DEF Before
  <2>5. CASE ~IsIDR(au)
    BY <1>1, <1>5, <2>3, <2>5
  <2> QED BY <2>4, <2>5
<1> QED BY <1>3, <1>4, <1>5

LEMMA ViewKeepsKeyframe ==
    ASSUME KeyframeInv, NEW v \in Sub, View(v)
    PROVE  KeyframeNotBehind'
<1>0. TransitTypes /\ KeyframeNotBehind
  BY TypesInTransit DEF KeyframeInv, DeliveryInv
<1>1. chan' = [chan EXCEPT ![v] = Tail(chan[v])] /\ chan[v] # <<>>
      /\ lastIDR' = lastIDR
  BY DEF View, Receive
<1>2. ASSUME NEW s \in Sub, NEW i \in 1..Len(chan'[s])
      PROVE  \E k \in 1..Len(chan[s]) : chan'[s][i] = chan[s][k]
  <2>1. CASE s = v
    <3>1. chan[v] \in Seq(AU) /\ chan'[v] = Tail(chan[v])
      BY <1>0, <1>1 DEF TransitTypes
    <3>2. /\ Len(chan[v]) \in Nat \ {0}
          /\ Len(chan'[v]) = Len(chan[v]) - 1
          /\ \A k \in 1..(Len(chan[v]) - 1) : chan'[v][k] = chan[v][k + 1]
      BY <1>1, <3>1, TailElements
    <3>3. i \in 1..(Len(chan[v]) - 1)
      BY <1>2, <2>1, <3>2
    <3>4. i + 1 \in 1..Len(chan[v])
      BY <3>2, <3>3
    <3> QED BY <2>1, <3>2, <3>3, <3>4, Zenon
  <2>2. CASE s # v
    BY <1>0, <1>1, <1>2, <2>2 DEF TransitTypes
  <2> QED BY <2>1, <2>2
<1> QED BY <1>0, <1>1, <1>2 DEF KeyframeNotBehind, IsIDR

LEMMA KeyframeStep ==
    ASSUME KeyframeInv, [Next]_vars
    PROVE  KeyframeInv'
<1>0. DeliveryInv' /\ KeyframeNotBehind
  BY DeliveryStep DEF KeyframeInv
<1>1. CASE UNCHANGED <<chan, lastIDR>>
  BY <1>0, <1>1 DEF KeyframeInv, KeyframeNotBehind, IsIDR
<1>2. CASE NewPipeline \/ Finished \/ UNCHANGED vars
  BY <1>1, <1>2 DEF NewPipeline, SetCallbacks, Finished, vars, hubVars
<1>3. ASSUME NEW s \in Sub, Join(s) \/ Leave(s) \/ Callback(s)
      PROVE  KeyframeInv'
  BY <1>1, <1>3 DEF Join, Leave, Subscribe, Unsubscribe, Callback, Start, Stop,
     CallReturns
<1>4. ASSUME NEW g \in Sub, Goroutine(g), ~CasterBroadcast(g)
      PROVE  KeyframeInv'
  BY <1>1, <1>4 DEF Goroutine, RenderTick, RenderExit, ReaderSend, ReaderExit,
     CasterTake, CasterExit, hubVars
<1> QED
  BY <1>0, <1>2, <1>3, <1>4, BroadcastKeepsKeyframe, ViewKeepsKeyframe
     DEF Next, Goroutine, KeyframeInv

\* The keyframe a late joiner is given is never older than one still waiting in
\* some viewer's channel.
THEOREM Keyframe == Spec => []KeyframeNotBehind
<1>1. ASSUME Init PROVE KeyframeInv
  <2>1. \A s \in Sub : chan[s] = <<>>
    BY <1>1 DEF Init, HubInit
  <2>2. Len(<<>>) = 0 /\ 1..0 = {}
    OBVIOUS
  <2>3. KeyframeNotBehind
    BY <2>1, <2>2 DEF KeyframeNotBehind
  <2> QED BY <1>1, <2>3, DeliveryInit DEF KeyframeInv
<1>2. KeyframeInv => KeyframeNotBehind
  BY DEF KeyframeInv
<1> QED BY <1>1, <1>2, KeyframeStep, PTL DEF Spec
=============================================================================
