------------------------------ MODULE Viewers ------------------------------
(***************************************************************************)
(* The two kinds of viewers of the AU hub, composed with it: the RTSP      *)
(* server of rtsp/server.go, whose sessions share one subscription and the *)
(* stream loop that reads it, and the /ws/video handlers of web/server.go, *)
(* which subscribe each for itself.                                        *)
(*                                                                         *)
(* OnPlay holds h.mu while it subscribes, and Subscribe may run the        *)
(* pipeline's onActive; OnSessionClose releases h.mu first.  gortsplib is  *)
(* external: it runs the callbacks of one session one after the other,     *)
(* those of different sessions in parallel, may call OnPlay again for a    *)
(* session that plays, and calls OnStreamWriteError in the goroutine that  *)
(* writes the packet, that is in a stream loop.                            *)
(*                                                                         *)
(* The dropCount that OnStreamWriteError prints decides nothing and is     *)
(* left out.  Subscriptions are numbered in the order they are created,    *)
(* and an encoder, as in Pipeline, by the one whose Subscribe started it.  *)
(***************************************************************************)
EXTENDS AUHub

LOCAL INSTANCE Functions

CONSTANTS
    Session,    \* RTSP sessions
    Web,        \* /ws/video handlers
    Window,     \* least time between two drop warnings (5 s)
    MaxFrame,   \* bound: access units broadcast, of one and of all encoders
    MaxClock    \* bound: the clock stops here

ASSUME ViewersAssumption ==
    /\ Sub \subseteq Nat /\ Sub # {}
    /\ Window \in Nat \ {0}
    /\ MaxFrame \in Nat
    /\ MaxClock \in Nat /\ MaxClock >= Window
    /\ None \notin Session \cup Web \cup Nat
    /\ Session \cap Web = {}

VARIABLES
    wired,       \* how far SetSubscriber is: "no" | "subscribeFn" | "rtpEncoder"
    hMu,         \* the session whose OnPlay holds h.mu, or None
    playing,     \* h.playing
    activeSub,   \* h.activeSub
    rpc,         \* rpc[x]: where session x is
    cur,         \* cur[v]: the subscription in the hands of handler v
    loop,        \* loop[s]: where the stream loop of subscription s is
    bare,        \* stream loops that were passed a nil rtpEncoder
    seen,        \* seen[s]: lastDropLog and the time its OnStreamWriteError read
    lastDropLog, \* h.lastDropLog
    clock,
    wpc,         \* wpc[w]: where handler w is
    shown,       \* history: shown[w][g]: the last picture of encoder g that w sent,
                 \* and whether it was the cached one
    early,       \* history: a player came before SetSubscriber and some one has
                 \* played ever since
    launched,    \* the encoders that Start has created
    frame        \* frame[g]: access units of encoder g broadcast

rtspVars == <<wired, hMu, playing, activeSub, rpc>>
loopVars == <<loop, bare, seen, lastDropLog, clock>>
webVars  == <<wpc, shown>>
encVars  == <<launched, frame>>
vars     == <<hubVars, rtspVars, cur, loopVars, webVars, early, encVars>>

Picture == [seq : 1..MaxFrame, cached : BOOLEAN]

TypeOK ==
    /\ HubTypeOK /\ \A s \in Sub : Len(chan[s]) <= BufSize
    /\ wired \in {"no", "subscribeFn", "rtpEncoder"}
    /\ hMu \in Session \cup {None}
    /\ playing \subseteq Session
    /\ activeSub \in Sub \cup {None}
    /\ rpc \in [Session -> {"open", "subscribing", "unsubscribing"}]
    /\ cur \in [Session \cup Web -> Sub \cup {None}]
    /\ loop \in [Sub -> {"none", "ranging", "encoding", "loading", "timing",
                         "deciding", "exited"}]
    /\ bare \subseteq Sub
    /\ seen \in [Sub -> [last : 0..MaxClock, now : 0..MaxClock]]
    /\ lastDropLog \in 0..MaxClock
    /\ clock \in Window..MaxClock
    /\ wpc \in [Web -> {"idle", "subscribing", "init", "keyframe", "loop", "leaving"}]
    /\ shown \in [Web -> [Sub -> Picture \cup {None}]]
    /\ early \in BOOLEAN
    /\ launched \subseteq Sub
    /\ frame \in [Sub -> 0..MaxFrame]

NothingShown == [g \in Sub |-> None]

\* No warning yet: lastDropLog is 0 and the time is far beyond the window.
Init ==
    /\ HubInit
    /\ wired = "no" /\ hMu = None /\ playing = {} /\ activeSub = None
    /\ rpc = [x \in Session |-> "open"]
    /\ cur = [v \in Session \cup Web |-> None]
    /\ loop = [s \in Sub |-> "none"]
    /\ bare = {}
    /\ seen = [s \in Sub |-> [last |-> 0, now |-> 0]]
    /\ lastDropLog = 0 /\ clock = Window
    /\ wpc = [w \in Web |-> "idle"]
    /\ shown = [w \in Web |-> NothingShown]
    /\ early = FALSE
    /\ launched = {} /\ frame = [g \in Sub |-> 0]

\* The subscription the next Subscribe returns.
Fresh(s) == callPC[s] = "new" /\ \A t \in Sub : callPC[t] = "new" => s <= t
----------------------------------------------------------------------------
\* main.go: the RTSP server runs before SetSubscriber, which sets two fields
\* without h.mu, and before NewPipeline.

SetSubscribeFn ==
    /\ wired = "no"
    /\ wired' = "subscribeFn"
    /\ UNCHANGED <<hubVars, hMu, playing, activeSub, rpc, cur, loopVars, webVars,
                   early, encVars>>

SetRTPEncoder ==
    /\ wired = "subscribeFn"
    /\ wired' = "rtpEncoder"
    /\ UNCHANGED <<hubVars, hMu, playing, activeSub, rpc, cur, loopVars, webVars,
                   early, encVars>>

NewPipeline ==
    /\ wired = "rtpEncoder"
    /\ SetCallbacks
    /\ UNCHANGED <<rtspVars, cur, loopVars, webVars, early, encVars>>

\* The broadcast loop of encoder g.  When an encoder starts, stops and runs
\* dry is Pipeline's subject; here one that was created broadcasts its access
\* units in their order, at any time, also after a newer encoder's.
Frame(g) ==
    /\ g \in launched
    /\ frame[g] < MaxFrame /\ FoldFunction(+, 0, frame) < MaxFrame
    /\ frame' = [frame EXCEPT ![g] = @ + 1]
    /\ Broadcast([gen |-> g, seq |-> frame[g] + 1])
    /\ UNCHANGED <<rtspVars, cur, loopVars, webVars, early, launched>>

Tick ==
    /\ clock < MaxClock
    /\ clock' = clock + 1
    /\ UNCHANGED <<hubVars, rtspVars, cur, loop, bare, seen, lastDropLog, webVars, early, encVars>>
----------------------------------------------------------------------------
\* RTSP sessions

\* Mutant: every PLAY subscribes.
NeedsFeedAlways(x) == wired # "no" /\ x \in Session

\* The session that plays is the only one: OnPlay subscribes.
NeedsFeed(x) == wired # "no" /\ playing \cup {x} = {x}

\* OnPlay up to the return of the hub's critical section, under h.mu.
PlaySubscribes(x) ==
    /\ rpc[x] = "open" /\ hMu = None
    /\ NeedsFeed(x)
    /\ playing' = playing \cup {x}
    /\ hMu' = x
    /\ rpc' = [rpc EXCEPT ![x] = "subscribing"]
    /\ \E s \in Sub :
        /\ Fresh(s)
        /\ Subscribe(s)
        /\ cur' = [cur EXCEPT ![x] = s]
    /\ UNCHANGED <<wired, activeSub, loopVars, webVars, early, encVars>>

\* The feed runs already, or there is nothing to subscribe with yet.
PlayJoins(x) ==
    /\ rpc[x] = "open" /\ hMu = None
    /\ ~NeedsFeed(x)
    /\ playing' = playing \cup {x}
    /\ early' = (early \/ wired = "no")
    /\ UNCHANGED <<hubVars, wired, hMu, activeSub, rpc, cur, loopVars, webVars, encVars>>

\* onActive, run by Subscribe: Start creates an encoder, or finds one running,
\* or fails.
Activated(v) ==
    /\ cur[v] # None /\ callPC[cur[v]] = "starting"
    /\ CallReturns(cur[v])
    /\ launched' \in {launched, launched \cup {cur[v]}}
    /\ UNCHANGED <<rtspVars, cur, loopVars, webVars, early, frame>>

\* The stream loop gets h.s.rtpEncoder as it is now.
PlayReturns(x) ==
    /\ rpc[x] = "subscribing" /\ callPC[cur[x]] = "open"
    /\ activeSub' = cur[x]
    /\ loop' = [loop EXCEPT ![cur[x]] = "ranging"]
    /\ bare' = IF wired = "rtpEncoder" THEN bare ELSE bare \cup {cur[x]}
    /\ hMu' = None
    /\ rpc' = [rpc EXCEPT ![x] = "open"]
    /\ cur' = [cur EXCEPT ![x] = None]
    /\ UNCHANGED <<hubVars, wired, playing, seen, lastDropLog, clock, webVars, early, encVars>>

\* Mutant: the number of players is looked at before the delete.
LastPlayerEarly(x) == x \in playing /\ playing = {} /\ activeSub # None

LastPlayer(x) == x \in playing /\ playing \ {x} = {} /\ activeSub # None

\* OnSessionClose; the handler forgets the session, so its name is free for
\* the next one.
CloseLast(x) ==
    /\ rpc[x] = "open" /\ hMu = None
    /\ LastPlayer(x)
    /\ playing' = playing \ {x}
    /\ activeSub' = None
    /\ cur' = [cur EXCEPT ![x] = activeSub]
    /\ rpc' = [rpc EXCEPT ![x] = "unsubscribing"]
    /\ early' = (early /\ playing' # {})
    /\ UNCHANGED <<hubVars, wired, hMu, loopVars, webVars, encVars>>

CloseOther(x) ==
    /\ rpc[x] = "open" /\ hMu = None
    /\ ~LastPlayer(x)
    /\ playing' = playing \ {x}
    /\ early' = (early /\ playing' # {})
    /\ UNCHANGED <<hubVars, wired, hMu, activeSub, rpc, cur, loopVars, webVars, encVars>>

\* h.mu is free again: another session may have subscribed meanwhile.
CloseUnsubscribes(x) ==
    /\ rpc[x] = "unsubscribing" /\ callPC[cur[x]] = "open"
    /\ Unsubscribe(cur[x])
    /\ UNCHANGED <<rtspVars, cur, loopVars, webVars, early, encVars>>

\* Unsubscribe has returned, onIdle included.
CloseReturns(x) ==
    /\ rpc[x] = "unsubscribing"
    /\ \/ callPC[cur[x]] = "stopping" /\ CallReturns(cur[x])
       \/ callPC[cur[x]] = "gone" /\ UNCHANGED hubVars
    /\ rpc' = [rpc EXCEPT ![x] = "open"]
    /\ cur' = [cur EXCEPT ![x] = None]
    /\ UNCHANGED <<wired, hMu, playing, activeSub, loopVars, webVars, early, encVars>>
----------------------------------------------------------------------------
\* StreamLoop

LoopReceive(s) ==
    /\ loop[s] = "ranging"
    /\ Receive(s)
    /\ loop' = [loop EXCEPT ![s] = "encoding"]
    /\ UNCHANGED <<rtspVars, cur, bare, seen, lastDropLog, clock, webVars, early, encVars>>

\* The range ends once the channel is closed and empty.
LoopExit(s) ==
    /\ loop[s] = "ranging" /\ chan[s] = <<>> /\ closed[s]
    /\ loop' = [loop EXCEPT ![s] = "exited"]
    /\ UNCHANGED <<hubVars, rtspVars, cur, bare, seen, lastDropLog, clock, webVars, early, encVars>>

\* The packets are written, or Encode failed and the unit is skipped.
LoopWritten(s) ==
    /\ loop[s] = "encoding"
    /\ loop' = [loop EXCEPT ![s] = "ranging"]
    /\ UNCHANGED <<hubVars, rtspVars, cur, bare, seen, lastDropLog, clock, webVars, early, encVars>>

\* A session's write queue is full.
LoopOverflows(s) ==
    /\ loop[s] = "encoding" /\ playing # {}
    /\ loop' = [loop EXCEPT ![s] = "loading"]
    /\ UNCHANGED <<hubVars, rtspVars, cur, bare, seen, lastDropLog, clock, webVars, early, encVars>>

\* OnStreamWriteError, called once for the unit; the packets after it repeat
\* it.
DropLoad(s) ==
    /\ loop[s] = "loading"
    /\ seen' = [seen EXCEPT ![s].last = lastDropLog]
    /\ loop' = [loop EXCEPT ![s] = "timing"]
    /\ UNCHANGED <<hubVars, rtspVars, cur, bare, lastDropLog, clock, webVars, early, encVars>>

DropTime(s) ==
    /\ loop[s] = "timing"
    /\ seen' = [seen EXCEPT ![s].now = clock]
    /\ loop' = [loop EXCEPT ![s] = "deciding"]
    /\ UNCHANGED <<hubVars, rtspVars, cur, bare, lastDropLog, clock, webVars, early, encVars>>

\* Mutant: Store instead of CompareAndSwap.
MayWarnAlways(s) == seen[s].now - seen[s].last >= Window

MayWarn(s) == seen[s].now - seen[s].last >= Window /\ lastDropLog = seen[s].last

DropDecide(s) ==
    /\ loop[s] = "deciding"
    /\ lastDropLog' = IF MayWarn(s) THEN seen[s].now ELSE lastDropLog
    /\ loop' = [loop EXCEPT ![s] = "ranging"]
    /\ seen' = [seen EXCEPT ![s] = [last |-> 0, now |-> 0]]
    /\ UNCHANGED <<hubVars, rtspVars, cur, bare, clock, webVars, early, encVars>>
----------------------------------------------------------------------------
\* handleVideoWS

WebJoin(w) ==
    /\ wpc[w] = "idle" /\ registered
    /\ \E s \in Sub :
        /\ Fresh(s)
        /\ Subscribe(s)
        /\ cur' = [cur EXCEPT ![w] = s]
    /\ wpc' = [wpc EXCEPT ![w] = "subscribing"]
    /\ UNCHANGED <<rtspVars, loopVars, shown, early, encVars>>

\* The init message; when it cannot be written the handler returns.
WebInit(w) ==
    /\ wpc[w] = "subscribing" /\ callPC[cur[w]] = "open"
    /\ \E next \in {"keyframe", "leaving"} : wpc' = [wpc EXCEPT ![w] = next]
    /\ UNCHANGED <<hubVars, rtspVars, cur, loopVars, shown, early, encVars>>

\* The cached keyframe, if there is one; a write error is ignored here.
WebKeyframe(w) ==
    /\ wpc[w] = "keyframe"
    /\ shown' = IF lastIDR = None THEN shown
                ELSE [shown EXCEPT ![w][lastIDR.gen] =
                          [seq |-> lastIDR.seq, cached |-> TRUE]]
    /\ wpc' = [wpc EXCEPT ![w] = "loop"]
    /\ UNCHANGED <<hubVars, rtspVars, cur, loopVars, early, encVars>>

\* Mutant: a key access unit is replaced by the cached one.
WebForwardCached(w) ==
    /\ wpc[w] = "loop"
    /\ Receive(cur[w])
    /\ LET first == Head(chan[cur[w]])
           au == IF IsIDR(first) THEN lastIDR ELSE first
       IN  shown' = [shown EXCEPT ![w][au.gen] = [seq |-> au.seq, cached |-> FALSE]]
    /\ UNCHANGED <<rtspVars, cur, loopVars, wpc, early, encVars>>

WebForward(w) ==
    /\ wpc[w] = "loop"
    /\ Receive(cur[w])
    /\ LET au == Head(chan[cur[w]])
       IN  shown' = [shown EXCEPT ![w][au.gen] = [seq |-> au.seq, cached |-> FALSE]]
    /\ UNCHANGED <<rtspVars, cur, loopVars, wpc, early, encVars>>

\* The client has gone: the read pump closed done, or a write failed.
WebDone(w) ==
    /\ wpc[w] = "loop"
    /\ wpc' = [wpc EXCEPT ![w] = "leaving"]
    /\ UNCHANGED <<hubVars, rtspVars, cur, loopVars, shown, early, encVars>>

\* The deferred Unsubscribe.
WebUnsubscribe(w) ==
    /\ wpc[w] = "leaving" /\ callPC[cur[w]] = "open"
    /\ Unsubscribe(cur[w])
    /\ UNCHANGED <<rtspVars, cur, loopVars, webVars, early, encVars>>

WebReturns(w) ==
    /\ wpc[w] = "leaving"
    /\ \/ callPC[cur[w]] = "stopping" /\ CallReturns(cur[w])
       \/ callPC[cur[w]] = "gone" /\ UNCHANGED hubVars
    /\ wpc' = [wpc EXCEPT ![w] = "idle"]
    /\ cur' = [cur EXCEPT ![w] = None]
    /\ shown' = [shown EXCEPT ![w] = NothingShown]
    /\ UNCHANGED <<rtspVars, loopVars, early, encVars>>
----------------------------------------------------------------------------
Handler(x) == PlayReturns(x) \/ Activated(x) \/ CloseUnsubscribes(x) \/ CloseReturns(x)

StreamLoop(s) == \/ LoopReceive(s) \/ LoopExit(s) \/ LoopWritten(s)
                 \/ LoopOverflows(s) \/ DropLoad(s) \/ DropTime(s) \/ DropDecide(s)

WebHandler(w) == \/ Activated(w) \/ WebInit(w) \/ WebKeyframe(w) \/ WebForward(w)
                 \/ WebUnsubscribe(w) \/ WebReturns(w)

Next ==
    \/ SetSubscribeFn \/ SetRTPEncoder \/ NewPipeline \/ Tick
    \/ \E g \in Sub : Frame(g)
    \/ \E x \in Session : \/ PlaySubscribes(x) \/ PlayJoins(x)
                          \/ CloseLast(x) \/ CloseOther(x) \/ Handler(x)
    \/ \E s \in Sub : StreamLoop(s)
    \/ \E w \in Web : WebJoin(w) \/ WebDone(w) \/ WebHandler(w)

Spec == Init /\ [][Next]_vars

\* Goroutines run on.  Clients, the clock and the encoders owe nothing.
FairSpec ==
    /\ Spec
    /\ \A x \in Session : WF_vars(Handler(x))
    /\ \A s \in Sub : WF_vars(StreamLoop(s))
    /\ \A w \in Web : WF_vars(WebHandler(w))
----------------------------------------------------------------------------
\* RTSP subscriptions whose loop was started and that nobody will ever close:
\* not activeSub, and not in the hands of a session that closes.
Orphans == {s \in Sub :
    /\ loop[s] \notin {"none", "exited"} /\ callPC[s] = "open"
    /\ s # activeSub
    /\ \A x \in Session : cur[x] # s}

\* Only one thing makes the server forget a subscription: a PLAY of a session
\* that already plays alone.  However sessions start, stop and overlap
\* otherwise, h.activeSub is overwritten or cleared only when the old value is
\* nil or in the hands of the session that unsubscribes it.
OnlyReplayLeaks ==
    [][\A s \in Orphans' \ Orphans :
          \E x \in Session : rpc[x] = "subscribing" /\ playing = {x} /\ activeSub = s]_vars

\* While h.mu is free, a subscription is active exactly while somebody plays,
\* and the hub still has it.  The exception: the first player came before
\* main called SetSubscriber, and whoever joins it has no picture until all
\* of them have left.
FeedFollowsPlaying ==
    hMu = None =>
        /\ activeSub # None => playing # {} /\ activeSub \in subs
        /\ playing # {} => activeSub # None \/ early

\* When nobody plays, the stream loops end: the last session's close reaches
\* the hub, and the loop sends what is left in the closed channel and returns.
\* It never waits for an encoder that nobody will start again.
SilentWhenNobodyPlays ==
    playing = {} ~> \/ playing # {}
                    \/ Orphans # {}
                    \/ \A s \in Sub : loop[s] \in {"none", "exited"}

\* Two stream loops overlap while the older one drains, and both may report
\* drops: two warnings are still a window apart.
RateLimited == [][lastDropLog' # lastDropLog =>
                    lastDropLog' >= lastDropLog + Window]_vars

\* Of each encoder's pictures a web viewer sees a step back at most once, from
\* the cached keyframe to the units queued since Subscribe, among them perhaps
\* that keyframe again; afterwards they only move forward.  Between encoders
\* nothing is promised: after a restart of the pipeline the old broadcast loop
\* may still deliver, and old and new pictures may take turns.
WebStepsBackOnce ==
    [][\A w \in Web, g \in Sub :
          LET was == shown[w][g]
              now == shown'[w][g]
          IN  was # None /\ now # None /\ now # was => was.cached \/ now.seq > was.seq]_vars

\* A PLAY between the two assignments of SetSubscriber starts a stream loop
\* whose RTP encoder is nil, and the first access unit would be the end of the
\* program.  None ever reaches it: it subscribed before NewPipeline, so no
\* encoder runs as long as it is in the hub.
NilEncoderUnused == \A s \in bare : chan[s] = <<>>
=============================================================================
