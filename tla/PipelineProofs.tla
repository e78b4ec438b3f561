--------------------------- MODULE PipelineProofs ---------------------------
(***************************************************************************)
(* What the runs of MCPipeline check for two and three viewers, proved for *)
(* every set of viewers and every channel size: type correctness, the      *)
(* on-demand lifecycle (IdleStops, OneEncoder), and the order of delivery  *)
(* (InOrder, KeyframeNotBehind).                                           *)
(***************************************************************************)
EXTENDS Pipeline, TLAPS

USE DEF CallPC

\* The variables' types, without the bounds.
Types == HubTypeOK /\ PipelineTypeOK

Bounds ==
    /\ \A s \in Sub : Len(chan[s]) <= BufSize /\ Len(aus[s]) <= AUCap
    /\ running => encoder # None

\* Every variable keeps its type at every step of viewers, callbacks and
\* goroutines.
LEMMA TypesStep ==
    ASSUME Types, [Next]_vars
    PROVE  Types'
<1>1. CASE NewPipeline
  BY <1>1 DEF NewPipeline, SetCallbacks, Types, HubTypeOK,
     PipelineTypeOK, hubVars, pipeVars, encVars
<1>2. ASSUME NEW s \in Sub, Join(s) PROVE Types'
  BY <1>2 DEF Join, Subscribe, Types, HubTypeOK,
     PipelineTypeOK, hubVars, pipeVars, encVars
<1>3. ASSUME NEW s \in Sub, Leave(s) PROVE Types'
  BY <1>3 DEF Leave, Unsubscribe, Types, HubTypeOK,
     PipelineTypeOK, hubVars, pipeVars, encVars
<1>4. ASSUME NEW s \in Sub, View(s) PROVE Types'
  BY <1>4 DEF View, Receive, Types, HubTypeOK,
     PipelineTypeOK, hubVars, pipeVars, encVars
<1>5. ASSUME NEW s \in Sub, Start(s) PROVE Types'
  <2>1. HubTypeOK'
    BY <1>5 DEF Start, CallReturns, Types, HubTypeOK,
       PipelineTypeOK, hubVars, pipeVars, encVars
  <2>2. CASE StartNew(s)
    BY <1>5, <2>1, <2>2 DEF StartNew, Launch, Types, HubTypeOK,
       PipelineTypeOK, hubVars, pipeVars, encVars
  <2>3. CASE StartAlreadyRunning \/ StartFails
    BY <1>5, <2>1, <2>3 DEF StartAlreadyRunning, StartFails, Types, HubTypeOK,
       PipelineTypeOK, hubVars, pipeVars, encVars
  <2> QED BY <1>5, <2>2, <2>3 DEF Start
<1>6. ASSUME NEW s \in Sub, Stop(s) PROVE Types'
  <2>1. HubTypeOK'
    BY <1>6 DEF Stop, CallReturns, Types, HubTypeOK,
       PipelineTypeOK, hubVars, pipeVars, encVars
  <2>2. CASE StopRunning
    BY <1>6, <2>1, <2>2 DEF StopRunning, Types, HubTypeOK,
       PipelineTypeOK, hubVars, pipeVars, encVars
  <2>3. CASE StopAlreadyStopped
    BY <1>6, <2>1, <2>3 DEF StopAlreadyStopped, Types, HubTypeOK,
       PipelineTypeOK, hubVars, pipeVars, encVars
  <2> QED BY <1>6, <2>2, <2>3 DEF Stop
<1>7. ASSUME NEW g \in Sub, RenderTick(g) \/ RenderExit(g) PROVE Types'
  <2>1. HubTypeOK'
    BY <1>7 DEF RenderTick, RenderExit, Types, HubTypeOK, hubVars
  <2>2. CASE RenderTick(g)
    BY <2>1, <2>2 DEF RenderTick, Types, PipelineTypeOK, pipeVars
  <2>3. CASE RenderExit(g)
    BY <2>1, <2>3 DEF RenderExit, Types, PipelineTypeOK, pipeVars
  <2> QED BY <1>7, <2>2, <2>3
<1>8. ASSUME NEW g \in Sub, ReaderSend(g) PROVE Types'
  <2> DEFINE au == [gen |-> g, seq |-> coded[g] + 1]
  <2>1. /\ UNCHANGED <<hubVars, pipeVars, ffmpeg, frames, reader, hand, caster, render>>
        /\ aus' = [aus EXCEPT ![g] = Append(aus[g], au)]
        /\ coded' = [coded EXCEPT ![g] = coded[g] + 1]
    BY <1>8 DEF ReaderSend
  <2>2. aus[g] \in Seq(AU) /\ coded[g] \in Nat
    BY DEF Types, PipelineTypeOK
  <2>3. au \in AU /\ coded[g] + 1 \in Nat
    BY <2>2 DEF AU
  <2> HIDE DEF au
  <2>4. Append(aus[g], au) \in Seq(AU)
    BY <2>2, <2>3
  <2>5. aus' \in [Sub -> Seq(AU)] /\ coded' \in [Sub -> Nat]
    BY <2>1, <2>3, <2>4 DEF Types, PipelineTypeOK
  <2>6. HubTypeOK'
    BY <2>1 DEF Types, HubTypeOK, hubVars
  <2> QED BY <2>1, <2>5, <2>6 DEF Types, PipelineTypeOK, pipeVars
<1>9. ASSUME NEW g \in Sub, ReaderExit(g) \/ CasterExit(g) PROVE Types'
  BY <1>9 DEF ReaderExit, CasterExit, Types, HubTypeOK,
     PipelineTypeOK, hubVars, pipeVars, encVars
<1>10. ASSUME NEW g \in Sub, CasterTake(g) PROVE Types'
  BY <1>10 DEF CasterTake, Types, HubTypeOK,
     PipelineTypeOK, hubVars, pipeVars, encVars
<1>11. ASSUME NEW g \in Sub, CasterBroadcast(g) PROVE Types'
  <2> DEFINE au == hand[g]
  <2>1. /\ lastIDR' \in {au, lastIDR}
        /\ chan' = [s \in Sub |-> IF s \in subs /\ HasRoom(s)
                                  THEN Append(chan[s], au) ELSE chan[s]]
        /\ UNCHANGED <<subs, closed, registered, callPC>>
        /\ hand' = [hand EXCEPT ![g] = None]
        /\ UNCHANGED <<pipeVars, ffmpeg, frames, coded, aus, reader, caster, render>>
    BY <1>11 DEF CasterBroadcast, Broadcast
  <2>2. au \in AU /\ \A s \in Sub : chan[s] \in Seq(AU)
    BY <1>11 DEF CasterBroadcast, Types, HubTypeOK, PipelineTypeOK
  <2>3. hand' \in [Sub -> AU \cup {None}]
    BY <2>1 DEF Types, PipelineTypeOK
  <2> HIDE DEF au
  <2>4. \A s \in Sub : chan'[s] \in Seq(AU)
    BY <2>1, <2>2
  <2>5. chan' \in [Sub -> Seq(AU)]
    BY <2>1, <2>4
  <2>6. HubTypeOK'
    BY <2>1, <2>2, <2>5 DEF Types, HubTypeOK
  <2>7. PipelineTypeOK'
    BY <2>1, <2>3 DEF Types, PipelineTypeOK, pipeVars
  <2> QED BY <2>6, <2>7 DEF Types
<1>12. CASE Finished \/ UNCHANGED vars
  BY <1>12 DEF Finished, vars, Types, HubTypeOK,
     PipelineTypeOK, hubVars, pipeVars, encVars
<1> QED
  BY <1>1, <1>2, <1>3, <1>4, <1>5, <1>6, <1>7, <1>8, <1>9, <1>10, <1>11,
     <1>12 DEF Next, Callback, Goroutine

LEMMA BoundsStep ==
    ASSUME Types, Bounds, [Next]_vars
    PROVE  Bounds'
<1>1. /\ BufSize \in Nat /\ AUCap \in Nat /\ None \notin Sub
      /\ chan \in [Sub -> Seq(AU)] /\ aus \in [Sub -> Seq(AU)]
  BY HubAssumption, PipelineAssumption DEF Types, HubTypeOK, PipelineTypeOK
<1>2. ASSUME UNCHANGED <<chan, aus>>, running' => encoder' # None
      PROVE  Bounds'
  BY <1>2 DEF Bounds
<1>3. ASSUME NEW s \in Sub, Join(s) \/ Leave(s)
      PROVE  Bounds'
  BY <1>2, <1>3 DEF Join, Subscribe, Leave, Unsubscribe, pipeVars, encVars, Bounds
<1>4. ASSUME NEW s \in Sub, Start(s) \/ Stop(s)
      PROVE  Bounds'
  <2>1. UNCHANGED <<chan, aus>>
    BY <1>4 DEF Start, Stop, CallReturns, StartNew, Launch, StartAlreadyRunning,
       StartFails, StopRunning, StopAlreadyStopped, encVars
  <2>2. running' => encoder' # None
    BY <1>1, <1>4 DEF Start, Stop, StartNew, StartAlreadyRunning, StartFails,
       StopRunning, StopAlreadyStopped, pipeVars, Bounds
  <2> QED BY <1>2, <2>1, <2>2
<1>5. ASSUME NEW s \in Sub, View(s)
      PROVE  Bounds'
  <2>1. /\ chan[s] # <<>> /\ chan' = [chan EXCEPT ![s] = Tail(@)]
        /\ UNCHANGED <<aus, running, encoder>>
    BY <1>5 DEF View, Receive, pipeVars, encVars
  <2>2. Len(Tail(chan[s])) <= BufSize
    BY <1>1, <2>1 DEF Bounds
  <2>3. \A t \in Sub : Len(chan'[t]) <= BufSize
    BY <1>1, <2>1, <2>2 DEF Bounds
  <2> QED BY <2>1, <2>3 DEF Bounds
<1>6. ASSUME NEW g \in Sub, ReaderSend(g)
      PROVE  Bounds'
  <2> DEFINE au == [gen |-> g, seq |-> coded[g] + 1]
  <2>1. /\ aus' = [aus EXCEPT ![g] = Append(aus[g], au)] /\ Len(aus[g]) < AUCap
        /\ UNCHANGED <<chan, running, encoder>>
    BY <1>6 DEF ReaderSend, hubVars, pipeVars
  <2> HIDE DEF au
  <2>2. Len(Append(aus[g], au)) = Len(aus[g]) + 1 /\ Len(aus[g]) \in Nat
    BY <1>1
  <2>3. Len(Append(aus[g], au)) <= AUCap
    BY <1>1, <2>1, <2>2
  <2>4. \A h \in Sub : Len(aus'[h]) <= AUCap
    BY <1>1, <2>1, <2>3 DEF Bounds
  <2> QED BY <2>1, <2>4 DEF Bounds
<1>7. ASSUME NEW g \in Sub, CasterTake(g)
      PROVE  Bounds'
  <2>1. /\ aus[g] # <<>> /\ aus' = [aus EXCEPT ![g] = Tail(@)]
        /\ UNCHANGED <<chan, running, encoder>>
    BY <1>7 DEF CasterTake, hubVars, pipeVars
  <2>2. Len(Tail(aus[g])) <= AUCap
    BY <1>1, <2>1 DEF Bounds
  <2>3. \A h \in Sub : Len(aus'[h]) <= AUCap
    BY <1>1, <2>1, <2>2 DEF Bounds
  <2> QED BY <2>1, <2>3 DEF Bounds
<1>8. ASSUME NEW g \in Sub, CasterBroadcast(g)
      PROVE  Bounds'
  <2>1. /\ chan' = [s \in Sub |-> IF s \in subs /\ HasRoom(s)
                                  THEN Append(chan[s], hand[g]) ELSE chan[s]]
        /\ UNCHANGED <<aus, running, encoder>>
    BY <1>8 DEF CasterBroadcast, Broadcast, pipeVars
  <2>2. ASSUME NEW s \in Sub
        PROVE  Len(chan'[s]) <= BufSize
    <3>1. Len(chan[s]) \in Nat /\ Len(Append(chan[s], hand[g])) = Len(chan[s]) + 1
      BY <1>1
    <3> QED BY <1>1, <2>1, <3>1 DEF HasRoom, Bounds
  <2> QED BY <2>1, <2>2 DEF Bounds
<1>9. ASSUME NEW g \in Sub, \/ RenderTick(g) \/ RenderExit(g)
                            \/ ReaderExit(g) \/ CasterExit(g)
      PROVE  Bounds'
  BY <1>2, <1>9 DEF RenderTick, RenderExit, ReaderExit, CasterExit, hubVars, pipeVars,
     Bounds
<1>10. CASE NewPipeline \/ Finished \/ UNCHANGED vars
  BY <1>2, <1>10 DEF NewPipeline, SetCallbacks, Finished, vars, hubVars, pipeVars,
     encVars, Bounds
<1> QED BY <1>3, <1>4, <1>5, <1>6, <1>7, <1>8, <1>9, <1>10
        DEF Next, Callback, Goroutine

LEMMA TypeStep ==
    ASSUME TypeOK, [Next]_vars
    PROVE  TypeOK'
  BY TypesStep, BoundsStep DEF TypeOK, Types, Bounds

LEMMA TypeInit == ASSUME Init PROVE TypeOK
<1>1. <<>> \in Seq(AU) /\ Len(<<>>) = 0
  OBVIOUS
<1>2. chan = [s \in Sub |-> <<>>] /\ aus = [g \in Sub |-> <<>>]
  BY DEF Init, HubInit
<1>3. chan \in [Sub -> Seq(AU)] /\ aus \in [Sub -> Seq(AU)]
  BY <1>1, <1>2
<1>4. HubTypeOK
  BY <1>3 DEF Init, HubInit, HubTypeOK
<1>5. PipelineTypeOK
  BY <1>3 DEF Init, PipelineTypeOK
<1>6. running => encoder # None
  BY DEF Init
<1>7. Bounds
  <2>1. 0 <= BufSize /\ 0 <= AUCap
    BY HubAssumption, PipelineAssumption
  <2>2. \A s \in Sub : Len(chan[s]) <= BufSize /\ Len(aus[s]) <= AUCap
    BY <1>1, <1>2, <2>1
  <2> QED BY <1>6, <2>2, Zenon DEF Bounds
<1> QED BY <1>4, <1>5, <1>7, Zenon DEF TypeOK, Bounds

\* In every reachable state every variable has its type, every channel is
\* within its capacity, and a running pipeline has an encoder to stop.
THEOREM TypeCorrect == Spec => []TypeOK
<1>1. Init => TypeOK
  BY TypeInit
<1> QED BY <1>1, TypeStep, PTL DEF Spec
----------------------------------------------------------------------------
\* Subscriptions and calls: a subscription is in the hub from the first half
\* of Subscribe to the first half of Unsubscribe, its channel is closed only
\* after that, its encoder is not launched before its Start, and nothing
\* starts before NewPipeline has registered the callbacks.
CallsMatch ==
    \A s \in Sub :
        /\ s \in subs <=> callPC[s] \in {"starting", "open"}
        /\ closed[s] => callPC[s] \in {"stopping", "gone"}
        /\ callPC[s] \in {"new", "starting"} => ffmpeg[s] = "none"
        /\ running \/ callPC[s] = "starting" => registered

\* IdleStops is not inductive alone: that a pending Start belongs to a viewer
\* still in the hub is what keeps it true when Start sets running.
OnDemandInv == TypeOK /\ CallsMatch /\ OneEncoder /\ IdleStops

\* The part of TypeOK that the lifecycle needs.
LifecycleTypes ==
    /\ subs \subseteq Sub
    /\ closed \in [Sub -> BOOLEAN]
    /\ registered \in BOOLEAN
    /\ callPC \in [Sub -> CallPC]
    /\ running \in BOOLEAN
    /\ ffmpeg \in [Sub -> {"none", "alive", "killed"}]

LEMMA TypesOfLifecycle == TypeOK => LifecycleTypes
  BY DEF TypeOK, HubTypeOK, PipelineTypeOK, LifecycleTypes

\* The callbacks: who may be in the hub when Start or Stop takes p.mu.
LEMMA StartStep ==
    ASSUME OnDemandInv, NEW s \in Sub, Start(s), TypeOK'
    PROVE  OnDemandInv'
<1> USE DEF LifecycleTypes
<1>0. LifecycleTypes /\ CallsMatch /\ OneEncoder /\ IdleStops
  BY TypesOfLifecycle DEF OnDemandInv
<1>1. callPC' = [callPC EXCEPT ![s] = "open"] /\ callPC[s] = "starting"
  BY DEF Start, CallReturns
<1>2. UNCHANGED <<subs, closed, registered>>
  BY DEF Start, CallReturns
<1>3. s \in subs
  BY <1>0, <1>1 DEF CallsMatch
<1>4. CASE StartNew(s)
  <2>1. ffmpeg' = [ffmpeg EXCEPT ![s] = "alive"] /\ encoder' = s /\ running'
    BY <1>4 DEF StartNew, Launch
  <2>2. \A g \in Sub : ffmpeg[g] # "alive"
    BY <1>0, <1>4 DEF StartNew, OneEncoder
  <2>3. CallsMatch'
    BY <1>0, <1>1, <1>2, <2>1 DEF CallsMatch
  <2>4. OneEncoder'
    BY <1>0, <2>1, <2>2 DEF OneEncoder
  <2>5. IdleStops'
    BY <1>0, <1>2, <1>3 DEF IdleStops
  <2> QED BY <2>3, <2>4, <2>5 DEF OnDemandInv
<1>5. CASE StartAlreadyRunning \/ StartFails
  <2>1. UNCHANGED <<running, encoder, ffmpeg>>
    BY <1>5 DEF StartAlreadyRunning, StartFails, pipeVars, encVars
  <2>2. CallsMatch'
    BY <1>0, <1>1, <1>2, <2>1 DEF CallsMatch
  <2>3. OneEncoder'
    BY <1>0, <2>1 DEF OneEncoder
  <2>4. IdleStops'
    BY <1>0, <1>2, <1>3 DEF IdleStops
  <2> QED BY <2>2, <2>3, <2>4 DEF OnDemandInv
<1> QED BY <1>4, <1>5 DEF Start

LEMMA StopStep ==
    ASSUME OnDemandInv, NEW s \in Sub, Stop(s), TypeOK'
    PROVE  OnDemandInv'
<1> USE DEF LifecycleTypes
<1>0. LifecycleTypes /\ CallsMatch /\ OneEncoder /\ IdleStops
  BY TypesOfLifecycle DEF OnDemandInv
<1>1. callPC' = [callPC EXCEPT ![s] = "gone"] /\ callPC[s] = "stopping"
  BY DEF Stop, CallReturns
<1>2. UNCHANGED <<subs, closed, registered>>
  BY DEF Stop, CallReturns
<1>3. CASE StopRunning
  <2>1. ffmpeg' = [ffmpeg EXCEPT ![encoder] = "killed"] /\ ~running'
    BY <1>3 DEF StopRunning
  <2>2. encoder \in Sub => ffmpeg[encoder] = "alive"
    BY <1>0, <1>3 DEF StopRunning, OneEncoder
  <2>3. CallsMatch'
    BY <1>0, <1>1, <1>2, <2>1, <2>2 DEF CallsMatch
  <2>4. \A g \in Sub : ffmpeg'[g] # "alive"
    BY <1>0, <1>3, <2>1 DEF OneEncoder, StopRunning
  <2>6. OneEncoder'
    BY <1>0, <2>1, <2>4 DEF OneEncoder
  <2>5. IdleStops'
    BY <1>0, <2>1 DEF IdleStops
  <2> QED BY <2>3, <2>6, <2>5 DEF OnDemandInv
<1>4. CASE StopAlreadyStopped
  <2>1. UNCHANGED <<running, encoder, ffmpeg>> /\ ~running
    BY <1>4 DEF StopAlreadyStopped, pipeVars, encVars
  <2>2. CallsMatch'
    BY <1>0, <1>1, <1>2, <2>1 DEF CallsMatch
  <2>3. OneEncoder'
    BY <1>0, <2>1 DEF OneEncoder
  <2>4. IdleStops'
    BY <1>0, <2>1 DEF IdleStops
  <2> QED BY <2>2, <2>3, <2>4 DEF OnDemandInv
<1> QED BY <1>3, <1>4 DEF Stop

LEMMA OnDemandStep ==
    ASSUME OnDemandInv, [Next]_vars
    PROVE  OnDemandInv'
<1> USE DEF LifecycleTypes
<1>0. LifecycleTypes /\ CallsMatch /\ OneEncoder /\ IdleStops
  BY TypesOfLifecycle DEF OnDemandInv
<1>1. TypeOK'
  BY TypeStep DEF OnDemandInv
<1>2. ASSUME NEW s \in Sub, Join(s) PROVE OnDemandInv'
  <2>1. /\ subs' = subs \cup {s}
        /\ UNCHANGED <<closed, registered, running, encoder, ffmpeg>>
        /\ callPC[s] = "new"
        /\ \/ callPC' = [callPC EXCEPT ![s] = "starting"] /\ registered
           \/ callPC' = [callPC EXCEPT ![s] = "open"]
    BY <1>2 DEF Join, Subscribe, pipeVars, encVars
  <2>2. CallsMatch'
    BY <1>0, <2>1 DEF CallsMatch
  <2>3. OneEncoder'
    BY <1>0, <2>1 DEF OneEncoder
  <2>4. IdleStops'
    BY <1>0, <2>1 DEF IdleStops
  <2> QED BY <1>1, <2>2, <2>3, <2>4 DEF OnDemandInv
<1>3. ASSUME NEW s \in Sub, Leave(s) PROVE OnDemandInv'
  <2>1. /\ subs' = subs \ {s}
        /\ closed' = [closed EXCEPT ![s] = TRUE]
        /\ UNCHANGED <<registered, running, encoder, ffmpeg>>
        /\ callPC[s] = "open"
        /\ callPC' = [callPC EXCEPT ![s] = IF subs \ {s} = {} /\ registered
                                           THEN "stopping" ELSE "gone"]
    BY <1>3 DEF Leave, Unsubscribe, pipeVars, encVars
  <2>2. CallsMatch'
    BY <1>0, <2>1 DEF CallsMatch
  <2>3. OneEncoder'
    BY <1>0, <2>1 DEF OneEncoder
  <2>4. running => registered
    BY <1>0 DEF CallsMatch
  <2>5. subs \ {s} = {} /\ registered => callPC'[s] = "stopping"
    BY <1>0, <2>1
  <2>6. IdleStops'
    BY <1>0, <2>1, <2>4, <2>5 DEF IdleStops
  <2> QED BY <1>1, <2>2, <2>3, <2>6 DEF OnDemandInv
<1>4. ASSUME NEW s \in Sub, Callback(s) PROVE OnDemandInv'
  BY <1>1, <1>4, StartStep, StopStep DEF Callback
<1>5. CASE /\ UNCHANGED <<subs, closed, callPC, running, encoder, ffmpeg>>
           /\ registered => registered'
  BY <1>1, <1>5 DEF OnDemandInv, CallsMatch, OneEncoder, IdleStops
<1>6. ASSUME NEW g \in Sub, Goroutine(g)
      PROVE /\ UNCHANGED <<subs, closed, callPC, running, encoder, ffmpeg>>
            /\ registered => registered'
  BY <1>6 DEF Goroutine, RenderTick, RenderExit, ReaderSend, ReaderExit,
     CasterTake, CasterBroadcast, Broadcast, CasterExit, hubVars, pipeVars
<1>7. ASSUME NEW s \in Sub, View(s)
      PROVE /\ UNCHANGED <<subs, closed, callPC, running, encoder, ffmpeg>>
            /\ registered => registered'
  BY <1>7 DEF View, Receive, pipeVars, encVars
<1>8. ASSUME NewPipeline \/ Finished \/ UNCHANGED vars
      PROVE /\ UNCHANGED <<subs, closed, callPC, running, encoder, ffmpeg>>
            /\ registered => registered'
  BY <1>8 DEF NewPipeline, SetCallbacks, Finished, vars, hubVars, pipeVars,
     encVars
<1> QED
  BY <1>2, <1>3, <1>4, <1>5, <1>6, <1>7, <1>8 DEF Next

THEOREM OnDemandInvariant == Spec => []OnDemandInv
<1>1. Init => OnDemandInv
  <2>1. Init => TypeOK
    BY TypeInit
  <2>2. Init => CallsMatch /\ OneEncoder /\ IdleStops
    BY DEF Init, HubInit, CallsMatch, OneEncoder, IdleStops
  <2> QED BY <2>1, <2>2 DEF OnDemandInv
<1> QED BY <1>1, OnDemandStep, PTL DEF Spec

\* Whatever the viewers do and however their callbacks are delayed, the
\* pipeline only runs while somebody watches or a Stop is on its way.
THEOREM PipelineIdleStops == Spec => []IdleStops
<1>1. OnDemandInv => IdleStops
  BY DEF OnDemandInv
<1> QED BY <1>1, OnDemandInvariant, PTL

\* At most one ffmpeg lives, and it is the one the next Stop will kill.
THEOREM PipelineOneEncoder == Spec => []OneEncoder
<1>1. OnDemandInv => OneEncoder
  BY DEF OnDemandInv
<1> QED BY <1>1, OnDemandInvariant, PTL

\* Broadcast never sends on a closed channel: what is in h.subs is open.
THEOREM NoSendOnClosed == Spec => [](\A s \in subs : ~closed[s])
<1>1. OnDemandInv => \A s \in subs : ~closed[s]
  BY DEF OnDemandInv, CallsMatch, TypeOK, HubTypeOK
<1> QED BY <1>1, OnDemandInvariant, PTL
=============================================================================
