------------------------------ MODULE Pipeline ------------------------------
(***************************************************************************)
(* The on-demand pipeline of media/pipeline.go, driven by the hub's        *)
(* callbacks: Start and Stop, and for every encoder that was ever started  *)
(* the four goroutines around it - the render loop, readNALUs, the         *)
(* broadcast loop, and the ffmpeg process they feed and read.              *)
(*                                                                         *)
(* Stop joins none of them, so goroutines of a stopped encoder overlap     *)
(* with those of the next one.  An encoder is named by the subscription    *)
(* whose Subscribe started it: each Subscribe calls Start at most once.    *)
(*                                                                         *)
(* An unexpected exit of ffmpeg and its restart are the Encoder module's   *)
(* subject; here ffmpeg lives until it is killed.                          *)
(***************************************************************************)
EXTENDS AUHub

CONSTANTS
    AUCap,       \* capacity of Encoder.aus (2)
    Lag,         \* frames that fit in ffmpeg and the two OS pipes
    MaxFrame,    \* bound: frames rendered for one encoder
    MayFail,     \* whether NewEncoder may fail
    EarlyViewer  \* whether a viewer may come before NewPipeline has run

ASSUME PipelineAssumption ==
    /\ AUCap \in Nat \ {0}
    /\ Lag \in Nat \ {0}
    /\ MaxFrame \in Nat
    /\ MayFail \in BOOLEAN
    /\ EarlyViewer \in BOOLEAN

VARIABLES
    running,   \* p.running
    encoder,   \* p.encoder
    ffmpeg,    \* ffmpeg[g]: "none" | "alive" | "killed" (then done is closed)
    frames,    \* frames[g]: frames written to ffmpeg's stdin
    coded,     \* coded[g]: access units readNALUs has sent on aus
    aus,       \* aus[g]: content of the encoder's AU channel
    reader,    \* readNALUs: "none" | "reading" | "exited" (aus is closed)
    hand,      \* hand[g]: the AU the broadcast loop has taken, or None
    caster,    \* broadcast loop: "none" | "looping" | "exited"
    render     \* RenderLoop: "none" | "ticking" | "exited"

encVars  == <<ffmpeg, frames, coded, aus, reader, hand, caster, render>>
pipeVars == <<running, encoder>>
vars     == <<hubVars, pipeVars, encVars>>

PipelineTypeOK ==
    /\ running \in BOOLEAN
    /\ encoder \in Sub \cup {None}
    /\ ffmpeg \in [Sub -> {"none", "alive", "killed"}]
    /\ frames \in [Sub -> Nat]
    /\ coded \in [Sub -> Nat]
    /\ aus \in [Sub -> Seq(AU)]
    /\ reader \in [Sub -> {"none", "reading", "exited"}]
    /\ hand \in [Sub -> AU \cup {None}]
    /\ caster \in [Sub -> {"none", "looping", "exited"}]
    /\ render \in [Sub -> {"none", "ticking", "exited"}]

Init ==
    /\ HubInit
    /\ running = FALSE
    /\ encoder = None
    /\ ffmpeg = [g \in Sub |-> "none"]
    /\ frames = [g \in Sub |-> 0]
    /\ coded = [g \in Sub |-> 0]
    /\ aus = [g \in Sub |-> <<>>]
    /\ reader = [g \in Sub |-> "none"]
    /\ hand = [g \in Sub |-> None]
    /\ caster = [g \in Sub |-> "none"]
    /\ render = [g \in Sub |-> "none"]
----------------------------------------------------------------------------
\* Viewers and main.go

NewPipeline == SetCallbacks /\ UNCHANGED <<pipeVars, encVars>>

Join(s) ==
    /\ ~EarlyViewer => registered
    /\ Subscribe(s)
    /\ UNCHANGED <<pipeVars, encVars>>

Leave(s) == Unsubscribe(s) /\ UNCHANGED <<pipeVars, encVars>>

View(s) == Receive(s) /\ UNCHANGED <<pipeVars, encVars>>
----------------------------------------------------------------------------
\* The callbacks; p.mu is held from their first line to their last.

\* NewEncoder and the two goroutines Start launches.
Launch(g) ==
    /\ ffmpeg' = [ffmpeg EXCEPT ![g] = "alive"]
    /\ reader' = [reader EXCEPT ![g] = "reading"]
    /\ caster' = [caster EXCEPT ![g] = "looping"]
    /\ render' = [render EXCEPT ![g] = "ticking"]
    /\ UNCHANGED <<frames, coded, aus, hand>>

\* Mutant: Start does not look at p.running.
StartAgain(s) == Launch(s) /\ encoder' = s /\ running' = TRUE

StartNew(s) ==
    /\ ~running
    /\ Launch(s)
    /\ encoder' = s
    /\ running' = TRUE

StartAlreadyRunning == running /\ UNCHANGED <<pipeVars, encVars>>

\* Mutant: p.running is set before the error is looked at.
StartFailsRunning ==
    /\ ~running /\ MayFail
    /\ running' = TRUE
    /\ UNCHANGED <<encoder, encVars>>

StartFails == ~running /\ MayFail /\ UNCHANGED <<pipeVars, encVars>>

Start(s) ==
    /\ callPC[s] = "starting"
    /\ StartNew(s) \/ StartAlreadyRunning \/ StartFails
    /\ CallReturns(s)

\* Mutant: p.running stays set.
StopKeepsRunning ==
    /\ running
    /\ ffmpeg' = [ffmpeg EXCEPT ![encoder] = "killed"]
    /\ UNCHANGED <<pipeVars, frames, coded, aus, reader, hand, caster, render>>

\* close(p.done); p.encoder.Stop() closes done and kills ffmpeg.
StopRunning ==
    /\ running
    /\ ffmpeg' = [ffmpeg EXCEPT ![encoder] = "killed"]
    /\ running' = FALSE
    /\ UNCHANGED <<encoder, frames, coded, aus, reader, hand, caster, render>>

StopAlreadyStopped == ~running /\ UNCHANGED <<pipeVars, encVars>>

Stop(s) ==
    /\ callPC[s] = "stopping"
    /\ StopRunning \/ StopAlreadyStopped
    /\ CallReturns(s)
----------------------------------------------------------------------------
\* The goroutines of encoder g

\* A tick of RenderLoop whose WriteFrame reaches ffmpeg.  When the pipe is
\* full the write blocks; a tick after the kill writes nothing.
RenderTick(g) ==
    /\ render[g] = "ticking"
    /\ ffmpeg[g] = "alive"
    /\ frames[g] < MaxFrame
    /\ frames[g] - coded[g] < Lag
    /\ frames' = [frames EXCEPT ![g] = @ + 1]
    /\ UNCHANGED <<hubVars, pipeVars, ffmpeg, coded, aus, reader, hand,
                   caster, render>>

\* Mutant: the loop polls p.running instead of waiting for its own done.
RenderExitPolling(g) ==
    /\ render[g] = "ticking"
    /\ ~running
    /\ ffmpeg[g] = "killed"
    /\ render' = [render EXCEPT ![g] = "exited"]
    /\ UNCHANGED <<hubVars, pipeVars, ffmpeg, frames, coded, aus, reader, hand,
                   caster>>

RenderExit(g) ==
    /\ render[g] = "ticking"
    /\ ffmpeg[g] = "killed"
    /\ render' = [render EXCEPT ![g] = "exited"]
    /\ UNCHANGED <<hubVars, pipeVars, ffmpeg, frames, coded, aus, reader, hand,
                   caster>>

\* readNALUs completes an access unit and sends it.  After Stop its select
\* may still choose the send as long as aus has room.
ReaderSend(g) ==
    /\ reader[g] = "reading"
    /\ coded[g] < frames[g]
    /\ Len(aus[g]) < AUCap
    /\ aus' = [aus EXCEPT ![g] = Append(@, [gen |-> g, seq |-> coded[g] + 1])]
    /\ coded' = [coded EXCEPT ![g] = @ + 1]
    /\ UNCHANGED <<hubVars, pipeVars, ffmpeg, frames, reader, hand, caster,
                   render>>

\* readNALUs sees done or EOF; its deferred close(e.aus).
ReaderExit(g) ==
    /\ reader[g] = "reading"
    /\ ffmpeg[g] = "killed"
    /\ reader' = [reader EXCEPT ![g] = "exited"]
    /\ UNCHANGED <<hubVars, pipeVars, ffmpeg, frames, coded, aus, hand, caster,
                   render>>

\* Mutant: the broadcast loop peeks instead of receiving.
CasterPeek(g) ==
    /\ caster[g] = "looping"
    /\ hand[g] = None
    /\ aus[g] # <<>>
    /\ hand' = [hand EXCEPT ![g] = Head(aus[g])]
    /\ UNCHANGED <<hubVars, pipeVars, ffmpeg, frames, coded, aus, reader,
                   caster, render>>

\* for au := range encoder.AccessUnits()
CasterTake(g) ==
    /\ caster[g] = "looping"
    /\ hand[g] = None
    /\ aus[g] # <<>>
    /\ hand' = [hand EXCEPT ![g] = Head(aus[g])]
    /\ aus' = [aus EXCEPT ![g] = Tail(@)]
    /\ UNCHANGED <<hubVars, pipeVars, ffmpeg, frames, coded, reader, caster,
                   render>>

CasterBroadcast(g) ==
    /\ hand[g] # None
    /\ Broadcast(hand[g])
    /\ hand' = [hand EXCEPT ![g] = None]
    /\ UNCHANGED <<pipeVars, ffmpeg, frames, coded, aus, reader, caster,
                   render>>

CasterExit(g) ==
    /\ caster[g] = "looping"
    /\ hand[g] = None
    /\ aus[g] = <<>>
    /\ reader[g] = "exited"
    /\ caster' = [caster EXCEPT ![g] = "exited"]
    /\ UNCHANGED <<hubVars, pipeVars, ffmpeg, frames, coded, aus, reader, hand,
                   render>>
----------------------------------------------------------------------------
Callback(s) == Start(s) \/ Stop(s)

Goroutine(g) ==
    \/ RenderTick(g) \/ RenderExit(g)
    \/ ReaderSend(g) \/ ReaderExit(g)
    \/ CasterTake(g) \/ CasterBroadcast(g) \/ CasterExit(g)

\* Every subscription of the bounded set has come and gone, and every
\* goroutine has returned: the only state in which nothing can happen.
Finished ==
    /\ registered
    /\ \A s \in Sub : /\ callPC[s] = "gone"
                      /\ chan[s] = <<>>
                      /\ ffmpeg[s] # "alive"
                      /\ reader[s] # "reading"
                      /\ caster[s] # "looping"
                      /\ render[s] # "ticking"
    /\ UNCHANGED vars

Next ==
    \/ NewPipeline
    \/ \E s \in Sub : Join(s) \/ Leave(s) \/ View(s) \/ Callback(s)
    \/ \E g \in Sub : Goroutine(g)
    \/ Finished

Spec == Init /\ [][Next]_vars

\* The Go scheduler runs every runnable goroutine; main goes on to
\* NewPipeline.  Viewers owe nothing: they may never come, read or leave.
Fairness ==
    /\ WF_vars(NewPipeline)
    /\ \A s \in Sub : WF_vars(Callback(s))
    /\ \A g \in Sub : /\ WF_vars(RenderTick(g) \/ RenderExit(g))
                      /\ WF_vars(ReaderSend(g) \/ ReaderExit(g))
                      /\ WF_vars(CasterTake(g) \/ CasterBroadcast(g) \/ CasterExit(g))

FairSpec == Spec /\ Fairness
----------------------------------------------------------------------------
\* The channels stay within their capacity, and a Stop that finds p.running set
\* finds an encoder to stop.
TypeOK ==
    /\ HubTypeOK /\ PipelineTypeOK
    /\ \A s \in Sub : Len(chan[s]) <= BufSize /\ Len(aus[s]) <= AUCap
    /\ running => encoder # None

\* Nobody is between a hub decision and its callback.
Quiet == \A s \in Sub : callPC[s] \notin {"starting", "stopping"}

\* A running pipeline is being watched, or the viewer that left last is on its
\* way to Stop: without viewers nothing keeps rendering, whatever the order in
\* which viewers' callbacks reach p.mu.
IdleStops == running => subs # {} \/ \E s \in Sub : callPC[s] = "stopping"

\* Start and Stop, called in any order by any number of viewers, never leave
\* two ffmpeg processes alive, nor one that the pipeline has forgotten and no
\* later Stop would kill.
OneEncoder ==
    \A g \in Sub : ffmpeg[g] = "alive" <=> running /\ encoder = g

Before(a, b) == a.gen = b.gen => a.seq < b.seq

\* A viewer decodes each encoder's access units in the order they were coded,
\* none twice, although three goroutines and two channels - one lossy, one
\* blocking - lie between and encoders overlap: what is in a viewer's channel
\* precedes what the broadcast loop holds, which precedes what is in aus.
InOrder ==
    /\ \A s \in Sub : \A i, j \in 1..Len(chan[s]) :
          i < j => Before(chan[s][i], chan[s][j])
    /\ \A s, g \in Sub : \A i \in 1..Len(chan[s]) :
          /\ hand[g] # None => Before(chan[s][i], hand[g])
          /\ \A j \in 1..Len(aus[g]) : Before(chan[s][i], aus[g][j])
    /\ \A g \in Sub : \A j \in 1..Len(aus[g]) :
          /\ hand[g] # None => Before(hand[g], aus[g][j])
          /\ \A i \in 1..(j - 1) : Before(aus[g][i], aus[g][j])

\* A late joiner can be given a picture no older than any keyframe a viewer is
\* still to consume: the cache never lags behind what Broadcast has delivered
\* of the same encoder.
KeyframeNotBehind ==
    \A s \in Sub : \A i \in 1..Len(chan[s]) :
        LET au == chan[s][i]
        IN  IsIDR(au) => /\ lastIDR # None
                         /\ lastIDR.gen = au.gen => lastIDR.seq >= au.seq

\* README.md:32 and :34 - the pipeline runs while somebody watches.
ViewersServed == subs # {} /\ Quiet => running

\* Once the last viewer has left and nobody comes, the pipeline stops.
IdleEventuallyStops == subs = {} ~> (~running \/ subs # {})

\* After Stop every goroutine of the encoder returns: readNALUs blocked on a
\* full channel, a render loop blocked on a full pipe and a broadcast loop
\* waiting for the next access unit included.
StoppedDrains ==
    \A g \in Sub :
        ffmpeg[g] = "killed" ~> /\ reader[g] = "exited"
                                /\ caster[g] = "exited"
                                /\ render[g] = "exited"

\* A viewer that never reads never holds back the encoder: whatever readNALUs
\* has queued is broadcast.
SlowViewerNeverBlocks == \A g \in Sub : aus[g] # <<>> ~> aus[g] = <<>>
=============================================================================
