--------------------------- MODULE ViewersProofs ---------------------------
(***************************************************************************)
(* What the run Viewers_sessions checks for two sessions and one web       *)
(* viewer, proved for any number of both, any number of subscriptions and  *)
(* any buffer size: the shared subscription follows the players, only a    *)
(* replay leaks one, warnings keep their distance, and of each encoder's   *)
(* pictures a web viewer sees a step back at most once.  A loop started    *)
(* without an RTP encoder is never sent anything.                          *)
(***************************************************************************)
EXTENDS Viewers, TLAPS

ViewType ==
    /\ subs \in SUBSET Sub
    /\ callPC \in [Sub -> CallPC]
    /\ activeSub \in Sub \cup {None}
    /\ rpc \in [Session -> {"open", "subscribing", "unsubscribing"}]
    /\ wpc \in [Web -> {"idle", "subscribing", "init", "keyframe", "loop", "leaving"}]
    /\ cur \in [Session \cup Web -> Sub \cup {None}]
    /\ loop \in [Sub -> {"none", "ranging", "encoding", "loading", "timing",
                         "deciding", "exited"}]

\* The hub has the subscriptions that were made and not yet given back.
InHub == \A s \in Sub : s \in subs <=> callPC[s] \in {"starting", "open"}

\* A handler has a subscription in its hands exactly while it is busy.
InHands ==
    /\ \A x \in Session : rpc[x] = "open" <=> cur[x] = None
    /\ \A w \in Web : wpc[w] = "idle" <=> cur[w] = None

\* Nobody else has that subscription, and it is not the active one.
Apart ==
    \A v \in Session \cup Web : cur[v] # None =>
        /\ callPC[cur[v]] # "new"
        /\ cur[v] # activeSub
        /\ \A u \in Session \cup Web : u # v => cur[u] # cur[v]

\* OnPlay subscribes under h.mu, for the only player.
PlaysAlone ==
    \A x \in Session : rpc[x] = "subscribing" => hMu = x /\ playing = {x}

ActiveIsPlayed == activeSub # None => playing # {} /\ callPC[activeSub] = "open"

PlayedIsActive == playing # {} => activeSub # None \/ early \/ hMu # None

\* A stream loop starts once Subscribe has returned.
LoopAfterOpen ==
    \A s \in Sub : loop[s] # "none" => callPC[s] \notin {"new", "starting"}

ViewInv == /\ ViewType /\ InHub /\ InHands /\ Apart /\ LoopAfterOpen
           /\ PlaysAlone /\ ActiveIsPlayed /\ PlayedIsActive

\* What OnlyReplayLeaks says of one step.
LeaksByReplay ==
    \A s \in Orphans' \ Orphans :
        \E x \in Session : rpc[x] = "subscribing" /\ playing = {x} /\ activeSub = s

LEMMA ViewInit ==
    ASSUME Init
    PROVE  ViewInv
<1>1. None \notin Sub /\ Session \cap Web = {}
  BY HubAssumption, ViewersAssumption
<1>2. /\ subs = {} /\ callPC = [s \in Sub |-> "new"]
      /\ activeSub = None /\ playing = {}
      /\ rpc = [x \in Session |-> "open"] /\ wpc = [w \in Web |-> "idle"]
      /\ cur = [v \in Session \cup Web |-> None]
      /\ loop = [s \in Sub |-> "none"]
  BY DEF Init, HubInit
<1>3. ViewType
  BY <1>2 DEF ViewType, CallPC
<1>4. InHub /\ InHands /\ Apart
  BY <1>2 DEF InHub, InHands, Apart
<1>5. LoopAfterOpen
  BY <1>2 DEF LoopAfterOpen
<1>6. PlaysAlone /\ ActiveIsPlayed /\ PlayedIsActive
  BY <1>2 DEF PlaysAlone, ActiveIsPlayed, PlayedIsActive
<1> QED BY <1>3, <1>4, <1>6, <1>5 DEF ViewInv
----------------------------------------------------------------------------
(***************************************************************************)
(* Steps that change neither subscriptions nor players.                    *)
(***************************************************************************)
StreamStill == UNCHANGED <<subs, callPC, rpc, cur, activeSub, playing, hMu, early>>

LoopsOn == /\ loop' \in [Sub -> {"none", "ranging", "encoding", "loading", "timing",
                                 "deciding", "exited"}]
           /\ \A s \in Sub : loop'[s] # loop[s] => loop[s] \notin {"none", "exited"}

WebOn == /\ wpc' \in [Web -> {"idle", "subscribing", "init", "keyframe", "loop", "leaving"}]
         /\ \A w \in Web : wpc'[w] = "idle" <=> wpc[w] = "idle"

LEMMA StillStep ==
    ASSUME ViewInv, StreamStill, LoopsOn, WebOn
    PROVE  ViewInv' /\ LeaksByReplay
<1>1. ViewType' /\ InHub' /\ InHands'
  BY DEF ViewInv, StreamStill, LoopsOn, WebOn, ViewType, InHub, InHands
<1>2. Apart' /\ PlaysAlone' /\ ActiveIsPlayed' /\ PlayedIsActive'
  BY DEF ViewInv, StreamStill, Apart, PlaysAlone, ActiveIsPlayed, PlayedIsActive
<1>3. LeaksByReplay
  BY DEF StreamStill, LoopsOn, LeaksByReplay, Orphans
<1>4. LoopAfterOpen'
  BY DEF ViewInv, StreamStill, LoopsOn, LoopAfterOpen
<1> QED BY <1>1, <1>2, <1>3, <1>4 DEF ViewInv

Wiring == SetSubscribeFn \/ SetRTPEncoder \/ NewPipeline

Frames == \E g \in Sub : Frame(g)

LEMMA QuietSteps ==
    ASSUME ViewInv,
           \/ Wiring \/ Frames \/ Tick
           \/ \E s \in Sub : StreamLoop(s)
           \/ \E w \in Web : WebInit(w) \/ WebKeyframe(w) \/ WebForward(w) \/ WebDone(w)
           \/ UNCHANGED vars
    PROVE  ViewInv' /\ LeaksByReplay
<1>1. ViewType
  BY DEF ViewInv
<1>2. CASE Wiring \/ Frames \/ Tick \/ UNCHANGED vars
  <2>1. StreamStill /\ UNCHANGED <<loop, wpc>>
    BY <1>2 DEF Wiring, SetSubscribeFn, SetRTPEncoder, NewPipeline, SetCallbacks,
       Frames, Frame, Broadcast, Tick, StreamStill, vars,
       hubVars, rtspVars, loopVars, webVars, encVars
  <2>2. LoopsOn /\ WebOn
    BY <1>1, <2>1 DEF LoopsOn, WebOn, ViewType
  <2> QED BY <2>1, <2>2, StillStep
<1>3. ASSUME NEW s \in Sub, StreamLoop(s)
      PROVE  ViewInv' /\ LeaksByReplay
  <2>1. StreamStill /\ wpc' = wpc
    BY <1>3 DEF StreamLoop, LoopReceive, Receive, LoopExit, LoopWritten, LoopOverflows,
       DropLoad, DropTime, DropDecide, StreamStill, hubVars, rtspVars, webVars, encVars
  <2>2. /\ loop[s] \notin {"none", "exited"}
        /\ \E c \in {"ranging", "encoding", "loading", "timing", "deciding", "exited"} :
              loop' = [loop EXCEPT ![s] = c]
    BY <1>3 DEF StreamLoop, LoopReceive, LoopExit, LoopWritten, LoopOverflows,
       DropLoad, DropTime, DropDecide
  <2>3. LoopsOn
    BY <1>1, <2>2 DEF LoopsOn, ViewType
  <2>4. WebOn
    BY <1>1, <2>1 DEF WebOn, ViewType
  <2> QED BY <2>1, <2>3, <2>4, StillStep
<1>4. ASSUME NEW w \in Web, WebInit(w) \/ WebKeyframe(w) \/ WebForward(w) \/ WebDone(w)
      PROVE  ViewInv' /\ LeaksByReplay
  <2>1. StreamStill /\ loop' = loop
    BY <1>4 DEF WebInit, WebKeyframe, WebForward, Receive, WebDone, StreamStill,
       hubVars, rtspVars, loopVars, encVars
  <2>2. \/ wpc' = wpc
        \/ /\ wpc[w] # "idle"
           /\ \E c \in {"keyframe", "loop", "leaving"} : wpc' = [wpc EXCEPT ![w] = c]
    BY <1>4 DEF WebInit, WebKeyframe, WebForward, WebDone
  <2>3. LoopsOn
    BY <1>1, <2>1 DEF LoopsOn, ViewType
  <2>4. WebOn
    BY <1>1, <2>2 DEF WebOn, ViewType
  <2> QED BY <2>1, <2>3, <2>4, StillStep
<1> QED BY <1>2, <1>3, <1>4
----------------------------------------------------------------------------
(***************************************************************************)
(* Steps that hand out, activate or give back a subscription.              *)
(***************************************************************************)
LEMMA PlaySubscribesStep ==
    ASSUME ViewInv, NEW x \in Session, PlaySubscribes(x)
    PROVE  ViewInv' /\ LeaksByReplay
<1>1. ViewType /\ InHub /\ InHands /\ Apart /\ None \notin Sub /\ Session \cap Web = {}
  BY HubAssumption, ViewersAssumption DEF ViewInv
<1>2. PICK s \in Sub : /\ callPC[s] = "new" /\ subs' = subs \cup {s}
                       /\ cur' = [cur EXCEPT ![x] = s]
                       /\ \E c \in {"starting", "open"} :
                            callPC' = [callPC EXCEPT ![s] = c]
  BY DEF PlaySubscribes, Fresh, Subscribe
<1>3. /\ rpc[x] = "open" /\ hMu = None /\ hMu' = x
      /\ rpc' = [rpc EXCEPT ![x] = "subscribing"]
      /\ playing' = playing \cup {x} /\ playing \cup {x} = {x}
      /\ UNCHANGED <<activeSub, loop, wpc, early>>
  BY DEF PlaySubscribes, NeedsFeed, loopVars, webVars, encVars
<1>4. /\ cur'[x] = s /\ cur[x] = None
      /\ \A v \in Session \cup Web : v # x => cur'[v] = cur[v] /\ cur[v] # s
      /\ callPC'[s] \in {"starting", "open"}
      /\ \A t \in Sub : t # s => callPC'[t] = callPC[t]
  BY <1>1, <1>2, <1>3 DEF ViewType, InHands, Apart
<1>5. ViewType'
  BY <1>1, <1>2, <1>3 DEF ViewType, CallPC
<1>6. InHub' /\ InHands'
  BY <1>1, <1>2, <1>3, <1>4 DEF ViewType, InHub, InHands
<1>7. activeSub # s /\ activeSub # None => callPC[activeSub] = "open"
  BY DEF ViewInv, ActiveIsPlayed
<1>8. activeSub # s
  BY <1>1, <1>2, <1>7 DEF ViewInv, ActiveIsPlayed
<1>9. Apart'
  <2> SUFFICES ASSUME NEW v \in Session \cup Web, cur'[v] # None
               PROVE  /\ callPC'[cur'[v]] # "new" /\ cur'[v] # activeSub
                      /\ \A u \in Session \cup Web : u # v => cur'[u] # cur'[v]
    BY <1>3 DEF Apart
  <2>1. CASE v = x
    BY <1>4, <1>8, <2>1
  <2>2. CASE v # x
    BY <1>1, <1>4, <2>2 DEF Apart, ViewType
  <2> QED BY <2>1, <2>2
<1>10. PlaysAlone'
  BY <1>1, <1>3 DEF ViewInv, PlaysAlone, ViewType
<1>11. ActiveIsPlayed' /\ PlayedIsActive'
  <2>1. activeSub # None => activeSub \in Sub /\ callPC'[activeSub] = callPC[activeSub]
    BY <1>1, <1>4, <1>8 DEF ViewType
  <2>2. ActiveIsPlayed'
    BY <1>3, <2>1 DEF ViewInv, ActiveIsPlayed
  <2> QED BY <1>3, <2>2, ViewersAssumption DEF PlayedIsActive
<1>12. LeaksByReplay
  <2> SUFFICES ASSUME NEW t \in Orphans'
               PROVE  t \in Orphans
    BY DEF LeaksByReplay
  <2>1. /\ t \in Sub /\ loop[t] \notin {"none", "exited"} /\ callPC'[t] = "open"
        /\ t # activeSub /\ \A y \in Session : cur'[y] # t
    BY <1>3 DEF Orphans
  <2>2. t # s /\ callPC[t] = "open" /\ \A y \in Session : cur[y] # t
    BY <1>1, <1>4, <2>1
  <2> QED BY <2>1, <2>2 DEF Orphans
<1>13. LoopAfterOpen'
  BY <1>2, <1>3, <1>4 DEF ViewInv, LoopAfterOpen
<1> QED BY <1>1, <1>5, <1>6, <1>9, <1>10, <1>11, <1>12, <1>13 DEF ViewInv

LEMMA PlayJoinsStep ==
    ASSUME ViewInv, NEW x \in Session, PlayJoins(x)
    PROVE  ViewInv' /\ LeaksByReplay
<1>1. /\ hMu = None /\ ~NeedsFeed(x)
      /\ playing' = playing \cup {x} /\ early' = (early \/ wired = "no")
      /\ UNCHANGED <<subs, callPC, rpc, cur, activeSub, hMu, loop, wpc>>
  BY DEF PlayJoins, hubVars, loopVars, webVars
<1>2. ViewType' /\ InHub' /\ InHands' /\ Apart' /\ LoopAfterOpen'
  BY <1>1 DEF ViewInv, ViewType, InHub, InHands, Apart, LoopAfterOpen
<1>3. PlaysAlone'
  BY <1>1, ViewersAssumption DEF ViewInv, PlaysAlone
<1>4. ActiveIsPlayed'
  BY <1>1 DEF ViewInv, ActiveIsPlayed
<1>5. PlayedIsActive'
  BY <1>1 DEF ViewInv, PlayedIsActive, NeedsFeed
<1>6. LeaksByReplay
  BY <1>1 DEF LeaksByReplay, Orphans
<1> QED BY <1>2, <1>3, <1>4, <1>5, <1>6 DEF ViewInv

LEMMA ActivatedStep ==
    ASSUME ViewInv, NEW v \in Session \cup Web, Activated(v)
    PROVE  ViewInv' /\ LeaksByReplay
<1>1. /\ cur[v] \in Sub /\ callPC[cur[v]] = "starting"
      /\ callPC' = [callPC EXCEPT ![cur[v]] = "open"]
      /\ UNCHANGED <<subs, rpc, cur, activeSub, playing, hMu, early, loop, wpc>>
  BY DEF Activated, CallReturns, rtspVars, loopVars, webVars, encVars, ViewInv, ViewType
<1>2. /\ callPC'[cur[v]] = "open"
      /\ \A t \in Sub : t # cur[v] => callPC'[t] = callPC[t]
  BY <1>1 DEF ViewInv, ViewType
<1>3. ViewType' /\ InHub' /\ InHands'
  BY <1>1, <1>2 DEF ViewInv, ViewType, InHub, InHands, CallPC
<1>4. Apart'
  <2>1. \A u \in Session \cup Web : cur[u] # None => cur[u] \in Sub
    BY DEF ViewInv, ViewType
  <2> QED BY <1>1, <1>2, <2>1 DEF ViewInv, Apart
<1>5. PlaysAlone' /\ ActiveIsPlayed' /\ PlayedIsActive'
  <2>1. activeSub # None => activeSub \in Sub
    BY DEF ViewInv, ViewType
  <2> QED BY <1>1, <1>2, <2>1 DEF ViewInv, PlaysAlone, ActiveIsPlayed, PlayedIsActive
<1>6. LoopAfterOpen'
  BY <1>1, <1>2 DEF ViewInv, LoopAfterOpen
<1>7. LeaksByReplay
  <2>1. \A s \in Sub : s # cur[v] => callPC'[s] = callPC[s]
    BY <1>2
  <2>2. loop[cur[v]] = "none"
    BY <1>1 DEF ViewInv, LoopAfterOpen
  <2> QED BY <1>1, <2>1, <2>2 DEF LeaksByReplay, Orphans
<1> QED BY <1>3, <1>4, <1>5, <1>6, <1>7 DEF ViewInv

LEMMA PlayReturnsStep ==
    ASSUME ViewInv, NEW x \in Session, PlayReturns(x)
    PROVE  ViewInv' /\ LeaksByReplay
<1>1. ViewType /\ InHub /\ InHands /\ Apart /\ None \notin Sub /\ Session \cap Web = {}
  BY HubAssumption, ViewersAssumption DEF ViewInv
<1> DEFINE s == cur[x]
<1>2. /\ rpc[x] = "subscribing" /\ s \in Sub /\ callPC[s] = "open"
      /\ hMu = x /\ playing = {x}
      /\ activeSub' = s /\ loop' = [loop EXCEPT ![s] = "ranging"] /\ hMu' = None
      /\ rpc' = [rpc EXCEPT ![x] = "open"] /\ cur' = [cur EXCEPT ![x] = None]
      /\ UNCHANGED <<subs, callPC, playing, wpc, early>>
  BY <1>1 DEF PlayReturns, hubVars, webVars, encVars, ViewType, InHands, ViewInv,
              PlaysAlone
<1> HIDE DEF s
<1>3. /\ cur'[x] = None /\ cur[x] = s
      /\ \A v \in Session \cup Web : v # x => cur'[v] = cur[v] /\ cur[v] # s
  BY <1>1, <1>2 DEF ViewType, Apart, s
<1>4. ViewType'
  BY <1>1, <1>2 DEF ViewType
<1>5. InHub' /\ InHands'
  BY <1>1, <1>2, <1>3 DEF InHub, InHands, ViewType
<1>6. Apart'
  BY <1>1, <1>2, <1>3 DEF Apart
<1>7. \A y \in Session : rpc'[y] # "subscribing"
  BY <1>1, <1>2 DEF ViewInv, PlaysAlone, ViewType
<1>8. PlaysAlone' /\ ActiveIsPlayed' /\ PlayedIsActive'
  BY <1>1, <1>2, <1>7 DEF PlaysAlone, ActiveIsPlayed, PlayedIsActive
<1>9. LeaksByReplay
  <2> SUFFICES ASSUME NEW t \in Orphans', t \notin Orphans
               PROVE  activeSub = t
    BY <1>2 DEF LeaksByReplay
  <2>1. /\ t \in Sub /\ t # s /\ callPC[t] = "open"
        /\ \A y \in Session : cur'[y] # t
    BY <1>2 DEF Orphans
  <2>2. loop[t] = loop'[t] /\ \A y \in Session : cur[y] # t
    BY <1>1, <1>2, <1>3, <2>1 DEF ViewType
  <2> QED BY <2>1, <2>2 DEF Orphans
<1>10. LoopAfterOpen'
  BY <1>1, <1>2 DEF ViewInv, LoopAfterOpen, ViewType
<1> QED BY <1>4, <1>5, <1>6, <1>8, <1>9, <1>10 DEF ViewInv

LEMMA CloseLastStep ==
    ASSUME ViewInv, NEW x \in Session, CloseLast(x)
    PROVE  ViewInv' /\ LeaksByReplay
<1>1. ViewType /\ InHub /\ InHands /\ Apart /\ None \notin Sub /\ Session \cap Web = {}
  BY HubAssumption, ViewersAssumption DEF ViewInv
<1>2. /\ rpc[x] = "open" /\ hMu = None /\ playing \ {x} = {}
      /\ activeSub \in Sub /\ activeSub' = None
      /\ playing' = playing \ {x}
      /\ rpc' = [rpc EXCEPT ![x] = "unsubscribing"]
      /\ cur' = [cur EXCEPT ![x] = activeSub]
      /\ early' = (early /\ playing' # {})
      /\ UNCHANGED <<subs, callPC, hMu, loop, wpc>>
  BY <1>1 DEF CloseLast, LastPlayer, hubVars, loopVars, webVars, ViewType
<1>3. /\ cur'[x] = activeSub /\ cur[x] = None
      /\ \A v \in Session \cup Web : v # x => cur'[v] = cur[v] /\ cur[v] # activeSub
  BY <1>1, <1>2 DEF ViewType, InHands, Apart
<1>4. callPC[activeSub] = "open"
  BY <1>1, <1>2 DEF ViewInv, ActiveIsPlayed
<1>5. ViewType'
  BY <1>1, <1>2 DEF ViewType
<1>6. InHub' /\ InHands'
  BY <1>1, <1>2, <1>3 DEF InHub, InHands, ViewType
<1>7. Apart'
  BY <1>1, <1>2, <1>3, <1>4 DEF Apart, ViewType
<1>8. \A y \in Session : rpc[y] # "subscribing" /\ rpc'[y] # "subscribing"
  BY <1>1, <1>2, ViewersAssumption DEF ViewInv, PlaysAlone, ViewType
<1>9. PlaysAlone' /\ ActiveIsPlayed' /\ PlayedIsActive'
  BY <1>2, <1>8 DEF PlaysAlone, ActiveIsPlayed, PlayedIsActive
<1>10. LeaksByReplay
  <2> SUFFICES ASSUME NEW t \in Orphans'
               PROVE  t \in Orphans
    BY DEF LeaksByReplay
  <2> QED BY <1>1, <1>2, <1>3 DEF Orphans
<1>11. LoopAfterOpen'
  BY <1>2 DEF ViewInv, LoopAfterOpen
<1> QED BY <1>5, <1>6, <1>7, <1>9, <1>10, <1>11 DEF ViewInv

LEMMA CloseOtherStep ==
    ASSUME ViewInv, NEW x \in Session, CloseOther(x)
    PROVE  ViewInv' /\ LeaksByReplay
<1>1. /\ hMu = None /\ ~LastPlayer(x) /\ playing' = playing \ {x}
      /\ early' = (early /\ playing' # {})
      /\ UNCHANGED <<subs, callPC, rpc, cur, activeSub, hMu, loop, wpc>>
  BY DEF CloseOther, hubVars, loopVars, webVars
<1>2. ViewType' /\ InHub' /\ InHands' /\ Apart' /\ LoopAfterOpen'
  BY <1>1 DEF ViewInv, ViewType, InHub, InHands, Apart, LoopAfterOpen
<1>3. PlaysAlone'
  BY <1>1, ViewersAssumption DEF ViewInv, PlaysAlone
<1>4. ActiveIsPlayed'
  BY <1>1 DEF ViewInv, ActiveIsPlayed, LastPlayer
<1>5. PlayedIsActive'
  BY <1>1 DEF ViewInv, PlayedIsActive
<1>6. LeaksByReplay
  BY <1>1 DEF LeaksByReplay, Orphans
<1> QED BY <1>2, <1>3, <1>4, <1>5, <1>6 DEF ViewInv

\* Unsubscribe, called by OnSessionClose or by a web handler.
LEMMA UnsubscribeStep ==
    ASSUME ViewInv, NEW v \in Session \cup Web,
           (v \in Session /\ CloseUnsubscribes(v)) \/ (v \in Web /\ WebUnsubscribe(v))
    PROVE  ViewInv' /\ LeaksByReplay
<1>1. ViewType /\ InHub /\ InHands /\ Apart /\ None \notin Sub
  BY HubAssumption DEF ViewInv
<1> DEFINE s == cur[v]
<1>2. /\ s \in Sub /\ callPC[s] = "open" /\ subs' = subs \ {s}
      /\ \E c \in {"stopping", "gone"} : callPC' = [callPC EXCEPT ![s] = c]
      /\ UNCHANGED <<rpc, cur, activeSub, playing, hMu, early, loop, wpc>>
  BY <1>1 DEF CloseUnsubscribes, WebUnsubscribe, Unsubscribe, rtspVars, loopVars,
              webVars, encVars, ViewType, InHands
<1>3. /\ callPC'[s] \in {"stopping", "gone"}
      /\ \A t \in Sub : t # s => callPC'[t] = callPC[t]
  BY <1>1, <1>2 DEF ViewType
<1>4. s # None /\ s # activeSub
  BY <1>1, <1>2 DEF Apart
<1> HIDE DEF s
<1>5. ViewType' /\ InHub' /\ InHands'
  BY <1>1, <1>2, <1>3 DEF ViewType, InHub, InHands, CallPC
<1>6. Apart'
  BY <1>1, <1>2, <1>3 DEF ViewType, Apart
<1>7. PlaysAlone' /\ PlayedIsActive' /\ LoopAfterOpen'
  BY <1>2, <1>3 DEF ViewInv, PlaysAlone, PlayedIsActive, LoopAfterOpen
<1>8. ActiveIsPlayed'
  BY <1>1, <1>2, <1>3, <1>4 DEF ViewInv, ActiveIsPlayed, ViewType
<1>9. LeaksByReplay
  BY <1>2, <1>3 DEF LeaksByReplay, Orphans
<1> QED BY <1>5, <1>6, <1>7, <1>8, <1>9 DEF ViewInv

\* Unsubscribe has returned.
LEMMA GivenBackStep ==
    ASSUME ViewInv, NEW v \in Session \cup Web,
           (v \in Session /\ CloseReturns(v)) \/ (v \in Web /\ WebReturns(v))
    PROVE  ViewInv' /\ LeaksByReplay
<1>1. ViewType /\ InHub /\ InHands /\ Apart /\ None \notin Sub /\ Session \cap Web = {}
  BY HubAssumption, ViewersAssumption DEF ViewInv
<1> DEFINE s == cur[v]
<1>2. /\ s \in Sub /\ callPC[s] \in {"stopping", "gone"}
      /\ callPC' = [callPC EXCEPT ![s] = "gone"] \/ callPC' = callPC
      /\ cur' = [cur EXCEPT ![v] = None]
      /\ UNCHANGED <<subs, activeSub, playing, hMu, early, loop>>
  BY <1>1 DEF CloseReturns, WebReturns, CallReturns, rtspVars, loopVars, hubVars,
              webVars, encVars, ViewType, InHands
<1>3. \/ v \in Session /\ rpc' = [rpc EXCEPT ![v] = "open"] /\ wpc' = wpc
      \/ v \in Web /\ wpc' = [wpc EXCEPT ![v] = "idle"] /\ rpc' = rpc
  BY DEF CloseReturns, WebReturns, rtspVars, webVars
<1>4. /\ callPC'[s] \in {"stopping", "gone"}
      /\ \A t \in Sub : t # s => callPC'[t] = callPC[t]
      /\ callPC' \in [Sub -> CallPC]
  BY <1>1, <1>2 DEF ViewType, CallPC
<1>5. /\ cur'[v] = None /\ cur[v] = s
      /\ \A u \in Session \cup Web : u # v => cur'[u] = cur[u]
  BY <1>1, <1>2 DEF ViewType
<1>6. s # None /\ s # activeSub
  BY <1>1, <1>2 DEF Apart
<1> HIDE DEF s
<1>7. ViewType'
  BY <1>1, <1>2, <1>3, <1>4 DEF ViewType
<1>8. InHub'
  BY <1>1, <1>2, <1>4 DEF InHub
<1>9. InHands'
  BY <1>1, <1>2, <1>3, <1>5 DEF InHands, ViewType
<1>10. Apart'
  BY <1>1, <1>2, <1>4, <1>5 DEF ViewType, Apart
<1>11. PlaysAlone'
  BY <1>1, <1>2, <1>3 DEF ViewInv, PlaysAlone, ViewType
<1>12. ActiveIsPlayed' /\ PlayedIsActive' /\ LoopAfterOpen'
  BY <1>1, <1>2, <1>4, <1>6
     DEF ViewInv, ActiveIsPlayed, PlayedIsActive, LoopAfterOpen, ViewType
<1>13. LeaksByReplay
  <2> SUFFICES ASSUME NEW t \in Orphans'
               PROVE  t \in Orphans
    BY DEF LeaksByReplay
  <2>1. /\ t \in Sub /\ loop[t] \notin {"none", "exited"} /\ callPC'[t] = "open"
        /\ t # activeSub /\ \A y \in Session : cur'[y] # t
    BY <1>2 DEF Orphans
  <2>2. t # s /\ callPC[t] = "open" /\ \A y \in Session : cur[y] # t
    BY <1>4, <1>5, <2>1
  <2> QED BY <2>1, <2>2 DEF Orphans
<1> QED BY <1>7, <1>8, <1>9, <1>10, <1>11, <1>12, <1>13 DEF ViewInv

LEMMA WebJoinStep ==
    ASSUME ViewInv, NEW w \in Web, WebJoin(w)
    PROVE  ViewInv' /\ LeaksByReplay
<1>1. ViewType /\ InHub /\ InHands /\ Apart /\ None \notin Sub /\ Session \cap Web = {}
  BY HubAssumption, ViewersAssumption DEF ViewInv
<1>2. PICK s \in Sub : /\ callPC[s] = "new" /\ subs' = subs \cup {s}
                       /\ cur' = [cur EXCEPT ![w] = s]
                       /\ \E c \in {"starting", "open"} :
                            callPC' = [callPC EXCEPT ![s] = c]
  BY DEF WebJoin, Fresh, Subscribe
<1>3. /\ wpc[w] = "idle" /\ wpc' = [wpc EXCEPT ![w] = "subscribing"]
      /\ UNCHANGED <<rpc, activeSub, playing, hMu, early, loop>>
  BY DEF WebJoin, rtspVars, loopVars, encVars
<1>4. /\ cur'[w] = s /\ cur[w] = None
      /\ \A v \in Session \cup Web : v # w => cur'[v] = cur[v] /\ cur[v] # s
      /\ callPC'[s] \in {"starting", "open"}
      /\ \A t \in Sub : t # s => callPC'[t] = callPC[t]
  BY <1>1, <1>2, <1>3 DEF ViewType, InHands, Apart
<1>5. activeSub # s
  BY <1>1, <1>2 DEF ViewInv, ActiveIsPlayed
<1>6. ViewType'
  BY <1>1, <1>2, <1>3 DEF ViewType, CallPC
<1>7. InHub' /\ InHands'
  BY <1>1, <1>2, <1>3, <1>4 DEF ViewType, InHub, InHands
<1>8. Apart'
  <2> SUFFICES ASSUME NEW v \in Session \cup Web, cur'[v] # None
               PROVE  /\ callPC'[cur'[v]] # "new" /\ cur'[v] # activeSub
                      /\ \A u \in Session \cup Web : u # v => cur'[u] # cur'[v]
    BY <1>3 DEF Apart
  <2>1. CASE v = w
    BY <1>4, <1>5, <2>1
  <2>2. CASE v # w
    BY <1>1, <1>4, <2>2 DEF Apart, ViewType
  <2> QED BY <2>1, <2>2
<1>9. PlaysAlone' /\ PlayedIsActive' /\ LoopAfterOpen'
  BY <1>2, <1>3, <1>4 DEF ViewInv, PlaysAlone, PlayedIsActive, LoopAfterOpen
<1>10. ActiveIsPlayed'
  BY <1>1, <1>3, <1>4, <1>5 DEF ViewInv, ActiveIsPlayed, ViewType
<1>11. LeaksByReplay
  <2> SUFFICES ASSUME NEW t \in Orphans'
               PROVE  t \in Orphans
    BY DEF LeaksByReplay
  <2>1. /\ t \in Sub /\ loop[t] \notin {"none", "exited"} /\ callPC'[t] = "open"
        /\ t # activeSub /\ \A y \in Session : cur'[y] # t
    BY <1>3 DEF Orphans
  <2>2. t # s
    BY <1>2, <2>1 DEF ViewInv, LoopAfterOpen
  <2>3. callPC[t] = "open" /\ \A y \in Session : cur[y] # t
    BY <1>1, <1>4, <2>1, <2>2
  <2> QED BY <2>1, <2>3 DEF Orphans
<1> QED BY <1>6, <1>7, <1>8, <1>9, <1>10, <1>11 DEF ViewInv

LEMMA ViewStep ==
    ASSUME ViewInv, [Next]_vars
    PROVE  ViewInv' /\ LeaksByReplay
<1>1. CASE \E x \in Session : \/ PlaySubscribes(x) \/ PlayJoins(x)
                              \/ CloseLast(x) \/ CloseOther(x) \/ Handler(x)
  BY <1>1, PlaySubscribesStep, PlayJoinsStep, CloseLastStep, CloseOtherStep,
     PlayReturnsStep, ActivatedStep, UnsubscribeStep, GivenBackStep DEF Handler
<1>2. CASE \E w \in Web : WebJoin(w) \/ WebDone(w) \/ WebHandler(w)
  BY <1>2, QuietSteps, WebJoinStep, ActivatedStep, UnsubscribeStep, GivenBackStep
     DEF WebHandler
<1>3. CASE \/ Wiring \/ Frames \/ Tick \/ UNCHANGED vars
           \/ \E s \in Sub : StreamLoop(s)
  BY <1>3, QuietSteps
<1> QED BY <1>1, <1>2, <1>3 DEF Next, Wiring, Frames

LEMMA ViewInvariant == Spec => []ViewInv
<1>1. Init => ViewInv
  BY ViewInit
<1>2. ViewInv /\ [Next]_vars => ViewInv'
  BY ViewStep
<1> QED BY <1>1, <1>2, PTL DEF Spec

\* Whenever h.mu is free, the RTSP server is subscribed exactly while it has
\* players, those that came before main wired it excepted: for any number of
\* sessions and web viewers, and replays.
THEOREM FeedFollows == Spec => []FeedFollowsPlaying
<1>1. ViewInv => FeedFollowsPlaying
  BY DEF ViewInv, ViewType, InHub, ActiveIsPlayed, PlayedIsActive, FeedFollowsPlaying
<1> QED BY <1>1, ViewInvariant, PTL

\* A subscription of the RTSP server is forgotten only by a PLAY of the one
\* session that plays.
THEOREM LeaksOnlyByReplay == Spec => OnlyReplayLeaks
<1>1. ViewInv /\ [Next]_vars => [LeaksByReplay]_vars
  BY ViewStep
<1>2. [LeaksByReplay]_vars <=>
        [\A s \in Orphans' \ Orphans :
            \E x \in Session : rpc[x] = "subscribing" /\ playing = {x} /\ activeSub = s]_vars
  BY DEF LeaksByReplay
<1> QED BY <1>1, <1>2, ViewInvariant, PTL DEF Spec, OnlyReplayLeaks
----------------------------------------------------------------------------
(***************************************************************************)
(* Drop warnings.                                                          *)
(***************************************************************************)
TimesInv == /\ clock \in Nat /\ lastDropLog \in Nat
            /\ seen \in [Sub -> [last : Nat, now : Nat]]

LEMMA TimesStep ==
    ASSUME TimesInv, [Next]_vars
    PROVE  TimesInv' /\ (lastDropLog' # lastDropLog => lastDropLog' >= lastDropLog + Window)
<1>1. Window \in Nat
  BY ViewersAssumption
<1>2. CASE UNCHANGED loopVars
  BY <1>2 DEF loopVars, TimesInv
<1>3. CASE Tick
  BY <1>3 DEF Tick, TimesInv
<1>4. ASSUME NEW s \in Sub, StreamLoop(s)
      PROVE  TimesInv' /\ (lastDropLog' # lastDropLog => lastDropLog' >= lastDropLog + Window)
  <2>1. CASE DropDecide(s)
    <3>1. /\ clock' = clock /\ seen' = [seen EXCEPT ![s] = [last |-> 0, now |-> 0]]
          /\ lastDropLog' = IF MayWarn(s) THEN seen[s].now ELSE lastDropLog
      BY <2>1 DEF DropDecide
    <3>2. [last |-> 0, now |-> 0] \in [last : Nat, now : Nat]
      OBVIOUS
    <3>3. seen[s].now \in Nat /\ seen[s].last \in Nat
      BY DEF TimesInv
    <3>4. TimesInv'
      BY <3>1, <3>2, <3>3 DEF TimesInv
    <3>5. MayWarn(s) => seen[s].now >= lastDropLog + Window
      BY <1>1, <3>3 DEF MayWarn
    <3> QED BY <3>1, <3>4, <3>5
  <2>2. CASE DropLoad(s) \/ DropTime(s)
    <3>1. /\ UNCHANGED <<clock, lastDropLog>>
          /\ \/ seen' = [seen EXCEPT ![s].last = lastDropLog]
             \/ seen' = [seen EXCEPT ![s].now = clock]
      BY <2>2 DEF DropLoad, DropTime
    <3> QED BY <3>1 DEF TimesInv
  <2>3. CASE LoopReceive(s) \/ LoopExit(s) \/ LoopWritten(s) \/ LoopOverflows(s)
    BY <2>3 DEF LoopReceive, LoopExit, LoopWritten, LoopOverflows, TimesInv
  <2> QED BY <1>4, <2>1, <2>2, <2>3 DEF StreamLoop
<1>5. CASE \E x \in Session : \/ PlaySubscribes(x) \/ PlayJoins(x)
                              \/ CloseLast(x) \/ CloseOther(x)
  BY <1>2, <1>5 DEF PlaySubscribes, PlayJoins, CloseLast, CloseOther
<1>6. CASE \E x \in Session : Handler(x)
  BY <1>6 DEF Handler, PlayReturns, Activated, CloseUnsubscribes, CloseReturns,
              loopVars, TimesInv
<1>7. CASE \E w \in Web : WebJoin(w) \/ WebDone(w) \/ WebHandler(w)
  BY <1>2, <1>7 DEF WebJoin, WebDone, WebHandler, Activated, WebInit, WebKeyframe,
                    WebForward, WebUnsubscribe, WebReturns
<1>8. CASE Wiring \/ Frames \/ UNCHANGED vars
  BY <1>2, <1>8 DEF Wiring, SetSubscribeFn, SetRTPEncoder, NewPipeline, Frames,
     Frame, vars
<1> QED BY <1>3, <1>4, <1>5, <1>6, <1>7, <1>8 DEF Next, Wiring, Frames

\* Warnings of dropped packets are a window apart, whatever loops overlap.
THEOREM WarningsApart == Spec => RateLimited
<1>1. Init => TimesInv
  BY ViewersAssumption DEF Init, TimesInv
<1>2. TimesInv /\ [Next]_vars =>
        TimesInv' /\ [lastDropLog' # lastDropLog => lastDropLog' >= lastDropLog + Window]_vars
  BY TimesStep
<1> QED BY <1>1, <1>2, PTL DEF Spec, RateLimited
----------------------------------------------------------------------------
(***************************************************************************)
(* The order of pictures.                                                  *)
(***************************************************************************)
Unit == [gen : Sub, seq : Nat]

Shot == [seq : Nat, cached : BOOLEAN] \cup {None}

ChanType == /\ chan \in [Sub -> Seq(Unit)] /\ lastIDR \in Unit \cup {None}
            /\ frame \in [Sub -> Nat]

\* In each channel the access units of one encoder are in their order.
Ordered == \A s \in Sub : \A i, j \in 1..Len(chan[s]) :
               i < j /\ chan[s][i].gen = chan[s][j].gen => chan[s][i].seq < chan[s][j].seq

NotAhead == \A s \in Sub : \A i \in 1..Len(chan[s]) :
                chan[s][i].seq <= frame[chan[s][i].gen]

\* The access units of encoder g in queue q are newer than number n.
Newer(q, g, n) == \A i \in 1..Len(q) : q[i].gen = g => q[i].seq > n

\* What waits for a web viewer is newer than what it was sent from its channel
\* of the same encoder.
QueueIsNewer ==
    \A w \in Web, g \in Sub : shown[w][g] # None =>
        /\ wpc[w] \in {"loop", "leaving"} /\ cur[w] \in Sub
        /\ ~shown[w][g].cached => /\ shown[w][g].seq <= frame[g]
                                  /\ Newer(chan[cur[w]], g, shown[w][g].seq)

WebType ==
    /\ wpc \in [Web -> {"idle", "subscribing", "init", "keyframe", "loop", "leaving"}]
    /\ cur = [v \in Session \cup Web |-> cur[v]]
    /\ \A w \in Web : /\ cur[w] \in Sub \cup {None}
                      /\ wpc[w] = "idle" <=> cur[w] = None

ShotType == shown \in [Web -> [Sub -> Shot]]

PictureInv == ChanType /\ Ordered /\ NotAhead /\ WebType /\ ShotType /\ QueueIsNewer

StepsBackOnce ==
    \A w \in Web, g \in Sub :
        shown[w][g] # None /\ shown'[w][g] # None /\ shown'[w][g] # shown[w][g] =>
            shown[w][g].cached \/ shown'[w][g].seq > shown[w][g].seq

\* Nobody is sent anything, and the channels stay as they are.
LEMMA UnseenStep ==
    ASSUME PictureInv, WebType', UNCHANGED <<chan, lastIDR, frame, shown>>,
           \A w \in Web, g \in Sub : shown[w][g] # None =>
                cur'[w] = cur[w] /\ wpc'[w] \in {"loop", "leaving"}
    PROVE  PictureInv' /\ StepsBackOnce
<1>1. ChanType' /\ Ordered' /\ NotAhead' /\ ShotType'
  BY DEF PictureInv, ChanType, Ordered, NotAhead, ShotType
<1>2. QueueIsNewer'
  BY DEF PictureInv, QueueIsNewer
<1> QED BY <1>1, <1>2 DEF PictureInv, StepsBackOnce

\* Viewer w is sent picture p of encoder g.
Sends(w, g, p) == shown' = [shown EXCEPT ![w][g] = p]

LEMMA SentStep ==
    ASSUME ShotType, NEW w \in Web, NEW g \in Sub, NEW p \in Shot, Sends(w, g, p)
    PROVE  /\ ShotType' /\ shown'[w][g] = p
           /\ \A u \in Web, h \in Sub : u # w \/ h # g => shown'[u][h] = shown[u][h]
<1>1. shown[w] \in [Sub -> Shot]
  BY DEF ShotType
<1>2. shown' = [shown EXCEPT ![w] = [shown[w] EXCEPT ![g] = p]]
  BY DEF Sends
<1>3. /\ [shown[w] EXCEPT ![g] = p] \in [Sub -> Shot]
      /\ shown'[w] = [shown[w] EXCEPT ![g] = p]
      /\ \A u \in Web : u # w => shown'[u] = shown[u]
  BY <1>1, <1>2 DEF ShotType
<1>4. ShotType'
  BY <1>2, <1>3 DEF ShotType
<1>5. shown'[w][g] = p /\ \A h \in Sub : h # g => shown'[w][h] = shown[w][h]
  BY <1>1, <1>3
<1> QED BY <1>3, <1>4, <1>5

\* A channel loses its oldest access unit.
LEMMA TailStep ==
    ASSUME ChanType, Ordered, NotAhead, NEW s \in Sub, chan[s] # <<>>,
           chan' = [chan EXCEPT ![s] = Tail(@)], UNCHANGED <<lastIDR, frame>>
    PROVE  /\ ChanType' /\ Ordered' /\ NotAhead'
           /\ \A t \in Sub : \A i \in 1..Len(chan'[t]) :
                \E j \in 1..Len(chan[t]) : chan'[t][i] = chan[t][j]
           /\ Head(chan[s]) = chan[s][1] /\ 1 \in 1..Len(chan[s])
           /\ chan[s][1] \in Unit
           /\ Newer(chan'[s], chan[s][1].gen, chan[s][1].seq)
<1> DEFINE q == chan[s]
<1>1. /\ q \in Seq(Unit) /\ Len(q) \in Nat \ {0} /\ Head(q) = q[1]
      /\ Tail(q) \in Seq(Unit) /\ Len(Tail(q)) = Len(q) - 1
  BY DEF ChanType
<1>2. \A i \in 1..Len(Tail(q)) : i + 1 \in 1..Len(q) /\ Tail(q)[i] = q[i + 1]
  BY <1>1
<1>3. /\ chan'[s] = Tail(q)
      /\ \A t \in Sub : t # s => chan'[t] = chan[t]
  BY DEF ChanType
<1>4. ChanType'
  BY <1>1 DEF ChanType
<1>5. q[1] \in Unit /\ 1 \in 1..Len(q)
  BY <1>1
<1>6. Newer(Tail(q), q[1].gen, q[1].seq)
  <2> SUFFICES ASSUME NEW i \in 1..Len(Tail(q)), Tail(q)[i].gen = q[1].gen
               PROVE  Tail(q)[i].seq > q[1].seq
    BY DEF Newer
  <2>1. i + 1 \in 1..Len(q) /\ Tail(q)[i] = q[i + 1] /\ 1 < i + 1
    BY <1>1, <1>2
  <2>2. q[1].seq < q[i + 1].seq
    BY <1>5, <2>1 DEF Ordered
  <2>3. q[i + 1] \in Unit
    BY <1>1, <2>1
  <2> QED BY <1>5, <2>1, <2>2, <2>3 DEF Unit
<1>7. \A i, j \in 1..Len(Tail(q)) : i < j /\ Tail(q)[i].gen = Tail(q)[j].gen =>
          Tail(q)[i].seq < Tail(q)[j].seq
  <2> SUFFICES ASSUME NEW i \in 1..Len(Tail(q)), NEW j \in 1..Len(Tail(q)), i < j,
                      Tail(q)[i].gen = Tail(q)[j].gen
               PROVE  Tail(q)[i].seq < Tail(q)[j].seq
    OBVIOUS
  <2>1. i + 1 \in 1..Len(q) /\ j + 1 \in 1..Len(q) /\ i + 1 < j + 1
    BY <1>1, <1>2
  <2>2. Tail(q)[i] = q[i + 1] /\ Tail(q)[j] = q[j + 1]
    BY <1>2
  <2>3. q[i + 1].seq < q[j + 1].seq
    BY <2>1, <2>2 DEF Ordered
  <2> QED BY <2>2, <2>3
<1>8. Ordered'
  BY <1>3, <1>7 DEF Ordered
<1>9. NotAhead'
  BY <1>2, <1>3 DEF NotAhead
<1>10. \A t \in Sub : \A i \in 1..Len(chan'[t]) :
          \E j \in 1..Len(chan[t]) : chan'[t][i] = chan[t][j]
  BY <1>2, <1>3
<1> QED BY <1>1, <1>3, <1>4, <1>5, <1>6, <1>8, <1>9, <1>10

\* A stream loop or a web viewer takes an access unit.
LEMMA TakenStep ==
    ASSUME PictureInv, NEW s \in Sub, Receive(s), WebType',
           UNCHANGED <<frame, cur, wpc>>,
           \/ shown' = shown
           \/ \E w \in Web : /\ s = cur[w] /\ wpc[w] = "loop"
                             /\ shown' = [shown EXCEPT ![w][Head(chan[s]).gen] =
                                    [seq |-> Head(chan[s]).seq, cached |-> FALSE]]
    PROVE  PictureInv' /\ StepsBackOnce
<1> DEFINE au == chan[s][1]
<1>1. chan[s] # <<>> /\ chan' = [chan EXCEPT ![s] = Tail(@)] /\ UNCHANGED lastIDR
  BY DEF Receive
<1>2. /\ ChanType' /\ Ordered' /\ NotAhead'
      /\ \A t \in Sub : \A i \in 1..Len(chan'[t]) :
            \E j \in 1..Len(chan[t]) : chan'[t][i] = chan[t][j]
      /\ Head(chan[s]) = au /\ au \in Unit /\ Newer(chan'[s], au.gen, au.seq)
      /\ 1 \in 1..Len(chan[s])
  BY <1>1, TailStep DEF PictureInv
<1>3. au.gen \in Sub /\ au.seq \in Nat /\ au.seq <= frame[au.gen]
  BY <1>2 DEF PictureInv, NotAhead, Unit
<1>4. [seq |-> au.seq, cached |-> FALSE] \in Shot
  BY <1>3 DEF Shot
<1>5. ASSUME NEW t \in Sub, NEW g \in Sub, NEW n, Newer(chan[t], g, n)
      PROVE  Newer(chan'[t], g, n)
  <2> SUFFICES ASSUME NEW i \in 1..Len(chan'[t]), chan'[t][i].gen = g
               PROVE  chan'[t][i].seq > n
    BY DEF Newer
  <2>1. PICK j \in 1..Len(chan[t]) : chan'[t][i] = chan[t][j]
    BY <1>2
  <2> QED BY <1>5, <2>1 DEF Newer
<1>6. \A n : Newer(chan[s], au.gen, n) => au.seq > n
  BY <1>2 DEF Newer
<1> HIDE DEF au
\* A viewer that was sent nothing now.
<1>7. ASSUME NEW w \in Web, NEW g \in Sub, shown'[w][g] = shown[w][g],
             shown[w][g] # None
      PROVE  /\ wpc[w] \in {"loop", "leaving"} /\ cur[w] \in Sub
             /\ ~shown[w][g].cached =>
                  /\ shown[w][g].seq <= frame[g]
                  /\ Newer(chan'[cur[w]], g, shown[w][g].seq)
  BY <1>5, <1>7 DEF PictureInv, QueueIsNewer
<1>8. CASE shown' = shown
  <2>1. QueueIsNewer'
    BY <1>7, <1>8 DEF QueueIsNewer
  <2>2. ShotType'
    BY <1>8 DEF PictureInv, ShotType
  <2> QED BY <1>2, <1>8, <2>1, <2>2 DEF PictureInv, StepsBackOnce
<1>9. ASSUME NEW w \in Web, s = cur[w], wpc[w] = "loop",
             shown' = [shown EXCEPT ![w][au.gen] = [seq |-> au.seq, cached |-> FALSE]]
      PROVE  PictureInv' /\ StepsBackOnce
  <2> DEFINE p == [seq |-> au.seq, cached |-> FALSE]
             g == au.gen
  <2>1. p \in Shot /\ p.seq = au.seq /\ ~p.cached /\ g \in Sub /\ Sends(w, g, p)
    BY <1>3, <1>4, <1>9 DEF Sends
  <2>2. ShotType
    BY DEF PictureInv
  <2> HIDE DEF p, g
  <2>3. /\ ShotType' /\ shown'[w][g] = p
        /\ \A u \in Web, h \in Sub : u # w \/ h # g => shown'[u][h] = shown[u][h]
    BY <2>1, <2>2, SentStep
  <2>4. /\ ShotType'
        /\ \A u \in Web, h \in Sub : u # w \/ h # au.gen => shown'[u][h] = shown[u][h]
    BY <2>3 DEF g
  <2>5. shown'[w][au.gen].seq = au.seq /\ ~shown'[w][au.gen].cached
    BY <2>1, <2>3 DEF g
  <2>6. QueueIsNewer'
    <3> SUFFICES ASSUME NEW u \in Web, NEW h \in Sub, shown'[u][h] # None
                 PROVE  /\ wpc[u] \in {"loop", "leaving"} /\ cur[u] \in Sub
                        /\ ~shown'[u][h].cached =>
                             /\ shown'[u][h].seq <= frame[h]
                             /\ Newer(chan'[cur[u]], h, shown'[u][h].seq)
      BY DEF QueueIsNewer
    <3>1. CASE u = w /\ h = au.gen
      BY <1>2, <1>3, <1>9, <2>5, <3>1
    <3>2. CASE u # w \/ h # au.gen
      BY <1>7, <2>4, <3>2
    <3> QED BY <3>1, <3>2
  <2>7. StepsBackOnce
    <3>1. shown[w][au.gen] # None /\ ~shown[w][au.gen].cached =>
            au.seq > shown[w][au.gen].seq
      BY <1>3, <1>9, <1>6 DEF PictureInv, QueueIsNewer
    <3> QED BY <2>4, <2>5, <3>1 DEF StepsBackOnce
  <2> QED BY <1>2, <2>4, <2>6, <2>7 DEF PictureInv
<1> QED BY <1>2, <1>8, <1>9

LEMMA FrameStep ==
    ASSUME PictureInv, NEW g \in Sub, Frame(g)
    PROVE  PictureInv' /\ StepsBackOnce
<1> DEFINE au == [gen |-> g, seq |-> frame[g] + 1]
<1>1. /\ frame' = [frame EXCEPT ![g] = frame[g] + 1] /\ frame \in [Sub -> Nat]
      /\ chan' = [s \in Sub |-> IF s \in subs /\ HasRoom(s)
                                THEN Append(chan[s], au) ELSE chan[s]]
      /\ lastIDR' \in {au, lastIDR}
      /\ UNCHANGED <<cur, wpc, shown>>
  BY DEF Frame, Broadcast, webVars, PictureInv, ChanType
<1>2. au \in Unit
  BY <1>1 DEF Unit
<1>3. au.seq = frame[g] + 1 /\ au.gen = g
  OBVIOUS
<1> HIDE DEF au
<1>4. /\ frame' \in [Sub -> Nat] /\ frame'[g] = frame[g] + 1
      /\ \A h \in Sub : frame'[h] \in Nat /\ frame[h] \in Nat /\ frame'[h] >= frame[h]
  BY <1>1
<1>5. ASSUME NEW s \in Sub
      PROVE  /\ chan'[s] \in Seq(Unit) /\ chan[s] \in Seq(Unit)
             /\ \/ chan'[s] = chan[s]
                \/ /\ Len(chan'[s]) = Len(chan[s]) + 1
                   /\ \A i \in 1..Len(chan[s]) : chan'[s][i] = chan[s][i]
                   /\ chan'[s][Len(chan[s]) + 1] = au
  <2>1. chan[s] \in Seq(Unit) /\ au \in Unit
    BY <1>2 DEF PictureInv, ChanType
  <2>2. chan'[s] = chan[s] \/ chan'[s] = Append(chan[s], au)
    BY <1>1
  <2>3. /\ Append(chan[s], au) \in Seq(Unit)
        /\ Len(Append(chan[s], au)) = Len(chan[s]) + 1
        /\ \A i \in 1..Len(chan[s]) : Append(chan[s], au)[i] = chan[s][i]
        /\ Append(chan[s], au)[Len(chan[s]) + 1] = au
    BY <2>1
  <2> QED BY <2>1, <2>2, <2>3
<1>6. ChanType'
  BY <1>1, <1>2, <1>5, <1>4 DEF PictureInv, ChanType
<1>7. ASSUME NEW s \in Sub, NEW i \in 1..Len(chan'[s])
      PROVE  \/ i \in 1..Len(chan[s]) /\ chan'[s][i] = chan[s][i]
             \/ i = Len(chan[s]) + 1 /\ chan'[s][i] = au
  <2>1. Len(chan[s]) \in Nat
    BY <1>5
  <2> QED BY <1>5, <1>7, <2>1
<1>8. \A s \in Sub : \A i \in 1..Len(chan[s]) :
          chan[s][i].gen \in Sub /\ chan[s][i].seq \in Nat
          /\ chan[s][i].seq <= frame[chan[s][i].gen]
  <2>1. \A s \in Sub : \A i \in 1..Len(chan[s]) : chan[s][i] \in Unit
    BY <1>5
  <2> QED BY <2>1 DEF PictureInv, NotAhead, Unit
<1>9. Ordered'
  <2> SUFFICES ASSUME NEW s \in Sub, NEW i \in 1..Len(chan'[s]),
                      NEW j \in 1..Len(chan'[s]), i < j,
                      chan'[s][i].gen = chan'[s][j].gen
               PROVE  chan'[s][i].seq < chan'[s][j].seq
    BY DEF Ordered
  <2>1. Len(chan[s]) \in Nat /\ Len(chan'[s]) \in Nat
    BY <1>5
  <2>2. CASE i \in 1..Len(chan[s]) /\ j \in 1..Len(chan[s])
    <3>1. chan'[s][i] = chan[s][i] /\ chan'[s][j] = chan[s][j]
      BY <1>7, <2>1, <2>2
    <3>2. chan[s][i].gen = chan[s][j].gen
      BY <3>1
    <3>3. chan[s][i].seq < chan[s][j].seq
      BY <2>2, <3>2 DEF PictureInv, Ordered
    <3> QED BY <3>1, <3>3
  <2>3. CASE i \in 1..Len(chan[s]) /\ j = Len(chan[s]) + 1
    <3>1. chan'[s][i] = chan[s][i] /\ chan'[s][j] = au
      BY <1>7, <2>1, <2>3
    <3>2. chan[s][i].gen = g /\ chan[s][i].seq <= frame[g]
      BY <1>3, <1>8, <2>3, <3>1
    <3> QED BY <1>3, <1>8, <1>4, <2>3, <3>1, <3>2
  <2>4. i # Len(chan[s]) + 1
    <3>1. j <= Len(chan[s]) + 1
      BY <1>7, <2>1
    <3> QED BY <2>1, <3>1
  <2> QED BY <1>7, <2>2, <2>3, <2>4
<1>10. NotAhead'
  <2> SUFFICES ASSUME NEW s \in Sub, NEW i \in 1..Len(chan'[s])
               PROVE  chan'[s][i].seq <= frame'[chan'[s][i].gen]
    BY DEF NotAhead
  <2>1. CASE i \in 1..Len(chan[s]) /\ chan'[s][i] = chan[s][i]
    <3> DEFINE h == chan[s][i].gen
    <3>1. h \in Sub /\ chan[s][i].seq \in Nat /\ chan[s][i].seq <= frame[h]
      BY <1>8, <2>1
    <3>2. frame[h] \in Nat /\ frame'[h] \in Nat /\ frame[h] <= frame'[h]
      BY <1>4, <3>1
    <3> HIDE DEF h
    <3>3. chan[s][i].seq <= frame'[h]
      BY <3>1, <3>2
    <3> QED BY <2>1, <3>3 DEF h
  <2>2. CASE chan'[s][i] = au
    BY <1>3, <1>4, <2>2
  <2> QED BY <1>7, <2>1, <2>2
<1>11. QueueIsNewer'
  <2> SUFFICES ASSUME NEW w \in Web, NEW h \in Sub, shown[w][h] # None
               PROVE  /\ wpc[w] \in {"loop", "leaving"} /\ cur[w] \in Sub
                      /\ ~shown[w][h].cached =>
                           /\ shown[w][h].seq <= frame'[h]
                           /\ Newer(chan'[cur[w]], h, shown[w][h].seq)
    BY <1>1 DEF QueueIsNewer
  <2>1. /\ wpc[w] \in {"loop", "leaving"} /\ cur[w] \in Sub
        /\ ~shown[w][h].cached =>
             shown[w][h].seq <= frame[h] /\ Newer(chan[cur[w]], h, shown[w][h].seq)
    BY DEF PictureInv, QueueIsNewer
  <2>2. ASSUME ~shown[w][h].cached
        PROVE  shown[w][h].seq <= frame'[h] /\ Newer(chan'[cur[w]], h, shown[w][h].seq)
    <3> DEFINE n == shown[w][h].seq
    <3>1. n \in Nat
      BY <2>1, <2>2 DEF PictureInv, ShotType, Shot
    <3>2. n <= frame[h] /\ Newer(chan[cur[w]], h, n)
      BY <2>1, <2>2
    <3> HIDE DEF n
    <3>3. ASSUME NEW i \in 1..Len(chan'[cur[w]]), chan'[cur[w]][i].gen = h
          PROVE  chan'[cur[w]][i].seq > n
      <4>1. CASE i \in 1..Len(chan[cur[w]]) /\ chan'[cur[w]][i] = chan[cur[w]][i]
        BY <3>2, <3>3, <4>1 DEF Newer
      <4>2. CASE chan'[cur[w]][i] = au
        <5>1. h = g
          BY <1>3, <3>3, <4>2
        <5> QED BY <1>3, <1>4, <3>1, <3>2, <4>2, <5>1
      <4> QED BY <1>7, <2>1, <4>1, <4>2
    <3>4. n <= frame'[h]
      BY <1>4, <3>1, <3>2
    <3> QED BY <3>3, <3>4 DEF Newer, n
  <2> QED BY <2>1, <2>2
<1>12. WebType' /\ ShotType'
  BY <1>1 DEF PictureInv, WebType, ShotType
<1> QED BY <1>1, <1>6, <1>9, <1>10, <1>11, <1>12 DEF PictureInv, StepsBackOnce

\* The picture a web viewer is sent from the cache, and the end of its visit.
LEMMA ShownStep ==
    ASSUME PictureInv, NEW w \in Web, WebKeyframe(w) \/ WebReturns(w)
    PROVE  PictureInv' /\ StepsBackOnce
<1>1. UNCHANGED <<chan, lastIDR, frame>>
  BY DEF WebKeyframe, WebReturns, CallReturns, hubVars, encVars
<1>2. ChanType' /\ Ordered' /\ NotAhead'
  BY <1>1 DEF PictureInv, ChanType, Ordered, NotAhead
<1>3. \A u \in Web : u # w => cur'[u] = cur[u] /\ wpc'[u] = wpc[u]
  BY DEF WebKeyframe, WebReturns, PictureInv, WebType
<1>4. CASE WebKeyframe(w)
  <2>1. /\ wpc[w] = "keyframe" /\ cur' = cur /\ wpc' = [wpc EXCEPT ![w] = "loop"]
        /\ \/ shown' = shown
           \/ /\ lastIDR # None
              /\ shown' = [shown EXCEPT ![w][lastIDR.gen] =
                              [seq |-> lastIDR.seq, cached |-> TRUE]]
    BY <1>4 DEF WebKeyframe
  <2>2. WebType' /\ cur[w] \in Sub /\ wpc'[w] = "loop"
    BY <2>1 DEF PictureInv, WebType
  <2>3. \A g \in Sub : shown[w][g] = None
    BY <2>1 DEF PictureInv, QueueIsNewer
  <2>4. CASE shown' = shown
    BY <1>1, <1>3, <2>1, <2>2, <2>3, <2>4, UnseenStep DEF PictureInv, QueueIsNewer
  <2>5. CASE /\ lastIDR # None
             /\ shown' = [shown EXCEPT ![w][lastIDR.gen] =
                              [seq |-> lastIDR.seq, cached |-> TRUE]]
    <3>1. PICK g \in Sub, p \in Shot : p.cached /\ Sends(w, g, p)
      <4>1. /\ lastIDR.gen \in Sub
            /\ [seq |-> lastIDR.seq, cached |-> TRUE] \in Shot
        BY <2>5 DEF PictureInv, ChanType, Unit, Shot
      <4>2. [seq |-> lastIDR.seq, cached |-> TRUE].cached
        OBVIOUS
      <4>3. Sends(w, lastIDR.gen, [seq |-> lastIDR.seq, cached |-> TRUE])
        BY <2>5 DEF Sends
      <4> QED BY <4>1, <4>2, <4>3
    <3>2. /\ ShotType' /\ shown'[w][g] = p
          /\ \A u \in Web, h \in Sub : u # w \/ h # g => shown'[u][h] = shown[u][h]
      BY <3>1, SentStep DEF PictureInv
    <3>3. \A u \in Web : u # w => \A h \in Sub : shown'[u][h] = shown[u][h]
      BY <3>2
    <3>4. \A h \in Sub : shown'[w][h] = None \/ shown'[w][h].cached
      BY <2>3, <3>1, <3>2
    <3>5. QueueIsNewer'
      <4> SUFFICES ASSUME NEW u \in Web, NEW h \in Sub, shown'[u][h] # None
                   PROVE  /\ wpc'[u] \in {"loop", "leaving"} /\ cur'[u] \in Sub
                          /\ ~shown'[u][h].cached =>
                               /\ shown'[u][h].seq <= frame'[h]
                               /\ Newer(chan'[cur'[u]], h, shown'[u][h].seq)
        BY DEF QueueIsNewer
      <4>1. CASE u = w
        BY <2>1, <2>2, <3>4, <4>1
      <4>2. CASE u # w
        BY <1>1, <1>3, <3>3, <4>2 DEF PictureInv, QueueIsNewer
      <4> QED BY <4>1, <4>2
    <3>6. StepsBackOnce
      BY <2>3, <3>3 DEF StepsBackOnce
    <3> QED BY <1>2, <2>2, <3>2, <3>5, <3>6 DEF PictureInv
  <2> QED BY <2>1, <2>4, <2>5
<1>5. CASE WebReturns(w)
  <2>1. /\ wpc' = [wpc EXCEPT ![w] = "idle"] /\ cur' = [cur EXCEPT ![w] = None]
        /\ shown' = [shown EXCEPT ![w] = NothingShown]
    BY <1>5 DEF WebReturns
  <2>2. NothingShown \in [Sub -> Shot] /\ \A g \in Sub : NothingShown[g] = None
    BY DEF NothingShown, Shot
  <2>3. /\ ShotType' /\ \A g \in Sub : shown'[w][g] = None
        /\ \A u \in Web : u # w => shown'[u] = shown[u]
    BY <2>1, <2>2 DEF PictureInv, ShotType
  <2>4. WebType'
    BY <2>1 DEF PictureInv, WebType
  <2>5. QueueIsNewer'
    BY <1>1, <1>3, <2>3 DEF PictureInv, QueueIsNewer
  <2>6. StepsBackOnce
    BY <2>3 DEF StepsBackOnce
  <2> QED BY <1>2, <2>3, <2>4, <2>5, <2>6 DEF PictureInv
<1> QED BY <1>4, <1>5

LEMMA PictureStep ==
    ASSUME PictureInv, [Next]_vars
    PROVE  PictureInv' /\ StepsBackOnce
<1>1. WebType /\ Session \cap Web = {} /\ None \notin Sub
  BY HubAssumption, ViewersAssumption DEF PictureInv
<1>2. ASSUME NEW x \in Session,
             \/ PlaySubscribes(x) \/ PlayJoins(x)
             \/ CloseLast(x) \/ CloseOther(x) \/ Handler(x)
      PROVE  PictureInv' /\ StepsBackOnce
  <2>1. UNCHANGED <<chan, lastIDR, frame, shown, wpc>>
    BY <1>2 DEF PlaySubscribes, Subscribe, PlayJoins, CloseLast, CloseOther, Handler,
       PlayReturns, Activated, CallReturns, CloseUnsubscribes, Unsubscribe,
       CloseReturns,
       hubVars, rtspVars, loopVars, webVars, encVars
  <2>2. cur' = cur \/ \E s : cur' = [cur EXCEPT ![x] = s]
    BY <1>2 DEF PlaySubscribes, PlayJoins, CloseLast, CloseOther, Handler,
       PlayReturns, Activated, CloseUnsubscribes, CloseReturns
  <2>3. WebType' /\ \A w \in Web : cur'[w] = cur[w]
    BY <1>1, <2>1, <2>2 DEF WebType
  <2> QED BY <2>1, <2>3, UnseenStep DEF PictureInv, QueueIsNewer
<1>3. ASSUME NEW s \in Sub, StreamLoop(s)
      PROVE  PictureInv' /\ StepsBackOnce
  <2>1. UNCHANGED <<frame, shown, wpc, cur>>
    BY <1>3 DEF StreamLoop, LoopReceive, LoopExit, LoopWritten, LoopOverflows,
       DropLoad, DropTime, DropDecide, webVars, encVars
  <2>2. WebType'
    BY <1>1, <2>1 DEF WebType
  <2>3. CASE LoopReceive(s)
    BY <2>1, <2>2, <2>3, TakenStep DEF LoopReceive
  <2>4. CASE ~LoopReceive(s)
    <3>1. chan' = chan /\ lastIDR' = lastIDR
      BY <1>3, <2>4 DEF StreamLoop, LoopExit, LoopWritten, LoopOverflows,
         DropLoad, DropTime, DropDecide, hubVars
    <3> QED BY <2>1, <2>2, <3>1, UnseenStep DEF PictureInv, QueueIsNewer
  <2> QED BY <2>3, <2>4
<1>4. ASSUME NEW w \in Web, WebForward(w)
      PROVE  PictureInv' /\ StepsBackOnce
  <2>1. /\ UNCHANGED <<frame, wpc, cur>> /\ wpc[w] = "loop" /\ Receive(cur[w])
        /\ shown' = [shown EXCEPT ![w][Head(chan[cur[w]]).gen] =
                        [seq |-> Head(chan[cur[w]]).seq, cached |-> FALSE]]
    BY <1>4 DEF WebForward, encVars
  <2>2. WebType' /\ cur[w] \in Sub
    BY <1>1, <2>1 DEF WebType
  <2> QED BY <2>1, <2>2, TakenStep
<1>5. ASSUME NEW w \in Web,
             \/ WebJoin(w) \/ WebDone(w) \/ Activated(w) \/ WebInit(w)
             \/ WebUnsubscribe(w)
      PROVE  PictureInv' /\ StepsBackOnce
  <2>1. UNCHANGED <<chan, lastIDR, frame, shown>>
    BY <1>5 DEF WebJoin, Subscribe, WebDone, Activated, CallReturns, WebInit,
       WebUnsubscribe, Unsubscribe, hubVars, webVars, encVars
  <2>2. CASE WebJoin(w)
    <3>1. PICK s \in Sub : /\ wpc[w] = "idle" /\ cur' = [cur EXCEPT ![w] = s]
                           /\ wpc' = [wpc EXCEPT ![w] = "subscribing"]
      BY <2>2 DEF WebJoin
    <3>2. WebType'
      BY <1>1, <2>1, <3>1 DEF WebType
    <3>3. \A g \in Sub : shown[w][g] = None
      BY <3>1 DEF PictureInv, QueueIsNewer
    <3>4. \A u \in Web : u # w => cur'[u] = cur[u] /\ wpc'[u] = wpc[u]
      BY <1>1, <3>1 DEF WebType
    <3> QED BY <2>1, <3>2, <3>3, <3>4, UnseenStep DEF PictureInv, QueueIsNewer
  <2>3. CASE WebDone(w) \/ Activated(w) \/ WebInit(w) \/ WebUnsubscribe(w)
    <3>1. /\ cur' = cur
          /\ \/ wpc' = wpc
             \/ wpc[w] = "loop" /\ wpc' = [wpc EXCEPT ![w] = "leaving"]
             \/ /\ wpc[w] = "subscribing"
                /\ \E c \in {"keyframe", "leaving"} : wpc' = [wpc EXCEPT ![w] = c]
      BY <2>3 DEF WebDone, Activated, WebInit, WebUnsubscribe, webVars
    <3>2. WebType'
      BY <1>1, <2>1, <3>1 DEF WebType
    <3>3. \A u \in Web, g \in Sub : shown[u][g] # None => wpc'[u] \in {"loop", "leaving"}
      BY <1>1, <3>1 DEF PictureInv, QueueIsNewer, WebType
    <3> QED BY <2>1, <3>1, <3>2, <3>3, UnseenStep
  <2> QED BY <1>5, <2>2, <2>3
<1>6. CASE Wiring \/ Tick \/ UNCHANGED vars
  <2>1. UNCHANGED <<chan, lastIDR, frame, shown, wpc, cur>>
    BY <1>6 DEF Wiring, SetSubscribeFn, SetRTPEncoder, NewPipeline, SetCallbacks,
       Tick, vars, hubVars, webVars, encVars
  <2>2. WebType'
    BY <1>1, <2>1 DEF WebType
  <2> QED BY <2>1, <2>2, UnseenStep DEF PictureInv, QueueIsNewer
<1>7. ASSUME NEW w \in Web, WebKeyframe(w) \/ WebReturns(w)
      PROVE  PictureInv' /\ StepsBackOnce
  BY <1>7, ShownStep
<1>8. ASSUME NEW g \in Sub, Frame(g)
      PROVE  PictureInv' /\ StepsBackOnce
  BY <1>8, FrameStep
<1> QED BY <1>2, <1>3, <1>4, <1>5, <1>6, <1>7, <1>8 DEF Next, WebHandler, Wiring

LEMMA PictureInvariant == Spec => []PictureInv
<1>1. ASSUME Init
      PROVE  PictureInv
  <2>1. /\ chan = [s \in Sub |-> <<>>] /\ lastIDR = None /\ frame = [g \in Sub |-> 0]
        /\ wpc = [w \in Web |-> "idle"] /\ shown = [w \in Web |-> [g \in Sub |-> None]]
        /\ cur = [v \in Session \cup Web |-> None]
    BY <1>1 DEF Init, HubInit, NothingShown
  <2>2. ChanType /\ Ordered /\ NotAhead
    BY <2>1 DEF ChanType, Ordered, NotAhead
  <2>3. WebType /\ ShotType /\ QueueIsNewer
    BY <2>1 DEF WebType, ShotType, Shot, QueueIsNewer
  <2> QED BY <2>2, <2>3 DEF PictureInv
<1>2. PictureInv /\ [Next]_vars => PictureInv'
  BY PictureStep
<1> QED BY <1>1, <1>2, PTL DEF Spec

\* Of each encoder's pictures a web viewer sees a step back at most once, from
\* the cached keyframe to what its channel already held, also while the units
\* of an older encoder still come in between: for any number of viewers and
\* encoders and any buffer size.
THEOREM StepsBack == Spec => WebStepsBackOnce
<1>1. PictureInv /\ [Next]_vars =>
        [\A w \in Web, g \in Sub :
            LET was == shown[w][g]
                now == shown'[w][g]
            IN  was # None /\ now # None /\ now # was => was.cached \/ now.seq > was.seq]_vars
  BY PictureStep DEF StepsBackOnce
<1> QED BY <1>1, PictureInvariant, PTL DEF Spec, WebStepsBackOnce
----------------------------------------------------------------------------
(***************************************************************************)
(* Stream loops without an RTP encoder.                                    *)
(***************************************************************************)
NoneStarts == launched = {} /\ \A t \in Sub : callPC[t] # "starting"

\* As long as a subscription made before NewPipeline is in the hub, no
\* Subscribe finds the hub empty, and no encoder is started.
BareInv ==
    /\ registered => wired = "rtpEncoder"
    /\ ~registered => NoneStarts
    /\ launched = {} => \A s \in Sub : chan[s] = <<>>
    /\ \A s \in bare : /\ s \in Sub /\ callPC[s] # "new" /\ chan[s] = <<>>
                       /\ s \in subs => NoneStarts

\* What an operation of the hub leaves of it.
LEMMA BareKept ==
    ASSUME BareInv, ViewType, ChanType, UNCHANGED <<wired, bare, launched>>,
           \/ UNCHANGED hubVars
           \/ \E s \in Sub : Subscribe(s) \/ Unsubscribe(s) \/ CallReturns(s) \/ Receive(s)
    PROVE  BareInv'
<1>1. CASE UNCHANGED hubVars
  BY <1>1 DEF hubVars, BareInv, NoneStarts
<1>2. ASSUME NEW s \in Sub, Subscribe(s)
      PROVE  BareInv'
  <2>1. /\ callPC[s] = "new" /\ UNCHANGED <<chan, registered>> /\ subs' = subs \cup {s}
        /\ callPC' = [callPC EXCEPT ![s] = IF subs = {} /\ registered
                                           THEN "starting" ELSE "open"]
    BY <1>2 DEF Subscribe
  <2>2. ASSUME subs # {} \/ ~registered, NoneStarts
        PROVE  NoneStarts'
    BY <2>1, <2>2 DEF NoneStarts, ViewType
  <2>3. callPC'[s] # "new" /\ \A t \in Sub : t # s => callPC'[t] = callPC[t]
    BY <2>1 DEF ViewType
  <2>4. \A t \in bare : /\ callPC'[t] # "new" /\ chan'[t] = <<>>
                        /\ t \in subs' => NoneStarts'
    BY <2>1, <2>2, <2>3 DEF BareInv
  <2>5. ~registered' => NoneStarts'
    BY <2>1, <2>2 DEF BareInv
  <2> QED BY <2>1, <2>4, <2>5 DEF BareInv
<1>3. ASSUME NEW s \in Sub, Unsubscribe(s) \/ CallReturns(s)
      PROVE  BareInv'
  <2>1. /\ UNCHANGED <<chan, registered>> /\ subs' \subseteq subs
        /\ \E c \in {"stopping", "gone", "open"} : callPC' = [callPC EXCEPT ![s] = c]
    BY <1>3 DEF Unsubscribe, CallReturns
  <2>2. /\ NoneStarts => NoneStarts'
        /\ \A t \in Sub : callPC[t] # "new" => callPC'[t] # "new"
    BY <2>1 DEF NoneStarts, ViewType
  <2> QED BY <2>1, <2>2 DEF BareInv
<1>4. ASSUME NEW s \in Sub, Receive(s)
      PROVE  BareInv'
  <2>1. /\ chan[s] # <<>> /\ \A t \in Sub : t # s => chan'[t] = chan[t]
        /\ UNCHANGED <<subs, registered, callPC>>
    BY <1>4 DEF Receive, ChanType
  <2>2. launched # {} /\ s \notin bare
    BY <2>1 DEF BareInv
  <2> QED BY <2>1, <2>2 DEF BareInv, NoneStarts
<1> QED BY <1>1, <1>2, <1>3, <1>4

LEMMA BareStep ==
    ASSUME BareInv, ViewInv, PictureInv, [Next]_vars
    PROVE  BareInv'
<1>1. ViewType /\ InHands /\ ChanType
  BY DEF ViewInv, PictureInv
<1>2. CASE Wiring
  <2>1. UNCHANGED <<bare, launched, subs, chan, callPC>>
    BY <1>2 DEF Wiring, SetSubscribeFn, SetRTPEncoder, NewPipeline, SetCallbacks,
       hubVars,
       loopVars, encVars
  <2>2. /\ registered => wired = "rtpEncoder"
        /\ registered' => wired' = "rtpEncoder"
        /\ ~registered' => ~registered
    BY <1>2 DEF Wiring, SetSubscribeFn, SetRTPEncoder, NewPipeline, SetCallbacks,
       hubVars,
       rtspVars, BareInv
  <2> QED BY <2>1, <2>2 DEF BareInv, NoneStarts
<1>3. ASSUME NEW g \in Sub, Frame(g)
      PROVE  BareInv'
  <2>1. /\ g \in launched /\ UNCHANGED <<wired, bare, launched, subs, registered, callPC>>
        /\ \A s \in Sub : s \notin subs => chan'[s] = chan[s]
    BY <1>3 DEF Frame, Broadcast, rtspVars, loopVars
  <2> QED BY <2>1 DEF BareInv, NoneStarts
<1>4. CASE Tick \/ UNCHANGED vars
  BY <1>1, <1>4, BareKept DEF Tick, vars, rtspVars, loopVars, encVars
<1>5. ASSUME NEW x \in Session, \/ PlaySubscribes(x) \/ PlayJoins(x)
                                \/ CloseLast(x) \/ CloseOther(x)
      PROVE  BareInv'
  BY <1>1, <1>5, BareKept DEF PlaySubscribes, PlayJoins, CloseLast, CloseOther,
     loopVars, encVars
<1>6. ASSUME NEW v \in Session \cup Web, Activated(v)
      PROVE  BareInv'
  <2>1. /\ cur[v] \in Sub /\ callPC[cur[v]] = "starting" /\ launched \subseteq launched'
        /\ callPC' = [callPC EXCEPT ![cur[v]] = "open"]
        /\ UNCHANGED <<subs, chan, registered, wired, bare>>
    BY <1>1, <1>6 DEF Activated, CallReturns, ViewType, rtspVars, loopVars
  <2>2. registered /\ \A s \in bare : s \notin subs
    BY <2>1 DEF BareInv, NoneStarts
  <2>3. \A t \in Sub : callPC[t] # "new" => callPC'[t] # "new"
    BY <1>1, <2>1 DEF ViewType
  <2> QED BY <2>1, <2>2, <2>3 DEF BareInv
<1>7. ASSUME NEW x \in Session, PlayReturns(x)
      PROVE  BareInv'
  <2>1. /\ cur[x] \in Sub /\ callPC[cur[x]] = "open"
        /\ bare' = IF wired = "rtpEncoder" THEN bare ELSE bare \cup {cur[x]}
        /\ UNCHANGED <<subs, chan, registered, callPC, wired, launched>>
    BY <1>1, <1>7 DEF PlayReturns, ViewType, InHands, hubVars, encVars
  <2>2. wired # "rtpEncoder" => NoneStarts /\ chan[cur[x]] = <<>>
    BY <2>1 DEF BareInv, NoneStarts
  <2>3. \A s \in bare' : /\ s \in Sub /\ callPC[s] # "new" /\ chan[s] = <<>>
                         /\ s \in subs => NoneStarts
    BY <2>1, <2>2 DEF BareInv
  <2>4. NoneStarts' <=> NoneStarts
    BY <2>1 DEF NoneStarts
  <2> QED BY <2>1, <2>3, <2>4 DEF BareInv
<1>8. ASSUME NEW x \in Session, CloseUnsubscribes(x) \/ CloseReturns(x)
      PROVE  BareInv'
  <2>1. cur[x] \in Sub
    BY <1>1, <1>8 DEF CloseUnsubscribes, CloseReturns, ViewType, InHands
  <2> QED BY <1>1, <1>8, <2>1, BareKept DEF CloseUnsubscribes, CloseReturns, rtspVars,
       loopVars, encVars
<1>9. ASSUME NEW s \in Sub, StreamLoop(s)
      PROVE  BareInv'
  BY <1>1, <1>9, BareKept DEF StreamLoop, LoopReceive, LoopExit, LoopWritten,
     LoopOverflows, DropLoad, DropTime, DropDecide, rtspVars, encVars
<1>10. ASSUME NEW w \in Web, \/ WebJoin(w) \/ WebDone(w) \/ WebInit(w) \/ WebKeyframe(w)
                            \/ WebForward(w) \/ WebUnsubscribe(w) \/ WebReturns(w)
      PROVE  BareInv'
  <2>1. WebJoin(w) \/ cur[w] \in Sub
    BY <1>1, <1>10 DEF WebDone, WebInit, WebKeyframe, WebForward, WebUnsubscribe,
       WebReturns, ViewType, InHands
  <2> QED BY <1>1, <1>10, <2>1, BareKept DEF WebJoin, WebDone, WebInit, WebKeyframe,
       WebForward, WebUnsubscribe, WebReturns, rtspVars, loopVars, encVars
<1> QED BY <1>2, <1>3, <1>4, <1>5, <1>6, <1>7, <1>8, <1>9, <1>10
        DEF Next, Handler, WebHandler, Wiring

\* A stream loop that a PLAY started between the two assignments of
\* SetSubscriber has no RTP encoder, and is never sent an access unit to
\* encode: whoever plays, joins and leaves, and whenever NewPipeline comes.
THEOREM BareLoopsIdle == Spec => []NilEncoderUnused
<1>1. Init => BareInv
  BY DEF Init, HubInit, BareInv, NoneStarts
<1>2. (ViewInv /\ PictureInv) /\ BareInv /\ [Next]_vars => BareInv'
  BY BareStep
<1>3. BareInv => NilEncoderUnused
  BY DEF BareInv, NilEncoderUnused
<1> QED BY <1>1, <1>2, <1>3, ViewInvariant, PictureInvariant, PTL DEF Spec
----------------------------------------------------------------------------
(***************************************************************************)
(* Types.                                                                  *)
(***************************************************************************)
\* The hub's part; the cached keyframe has been broadcast.
HubKept ==
    /\ HubTypeOK
    /\ \A s \in Sub : Len(chan[s]) <= BufSize
    /\ frame \in [Sub -> 0..MaxFrame]
    /\ lastIDR # None => lastIDR.seq <= frame[lastIDR.gen]

RtspType ==
    /\ wired \in {"no", "subscribeFn", "rtpEncoder"} /\ early \in BOOLEAN
    /\ hMu \in Session \cup {None}
    /\ playing \in SUBSET Session

DropType ==
    /\ seen \in [Sub -> [last : 0..MaxClock, now : 0..MaxClock]]
    /\ lastDropLog \in 0..MaxClock
    /\ clock \in Window..MaxClock

LoopType == bare \subseteq Sub /\ launched \subseteq Sub

ShownType == shown \in [Web -> [Sub -> Picture \cup {None}]]

ViewerTypes == HubKept /\ RtspType /\ DropType /\ LoopType /\ ShownType

\* What a step does to the hub, if anything, is one of the hub's operations.
HubMoves ==
    \/ UNCHANGED hubVars
    \/ SetCallbacks
    \/ \E s \in Sub : Subscribe(s) \/ Unsubscribe(s) \/ CallReturns(s) \/ Receive(s)

LEMMA HubMovesStep ==
    ASSUME HubKept, HubMoves, frame' = frame
    PROVE  HubKept'
<1>1. HubTypeOK /\ BufSize \in Nat
  BY HubAssumption DEF HubKept
<1>2. CASE UNCHANGED hubVars \/ SetCallbacks
  BY <1>1, <1>2 DEF HubKept, HubTypeOK, SetCallbacks, hubVars
<1>3. ASSUME NEW s \in Sub, Subscribe(s) \/ Unsubscribe(s) \/ CallReturns(s)
      PROVE  HubKept'
  <2>1. /\ UNCHANGED <<chan, lastIDR, registered>>
        /\ subs' \in SUBSET Sub
        /\ closed' \in [Sub -> BOOLEAN]
    BY <1>1, <1>3 DEF Subscribe, Unsubscribe, CallReturns, HubTypeOK
  <2>2. callPC' \in [Sub -> CallPC]
    BY <1>1, <1>3 DEF Subscribe, Unsubscribe, CallReturns, HubTypeOK, CallPC
  <2> QED BY <1>1, <2>1, <2>2 DEF HubKept, HubTypeOK
<1>4. ASSUME NEW s \in Sub, Receive(s)
      PROVE  HubKept'
  <2> DEFINE q == chan[s]
  <2>1. q \in Seq(AU) /\ q # <<>> /\ Len(q) <= BufSize
    BY <1>1, <1>4 DEF HubTypeOK, Receive, HubKept
  <2>2. Tail(q) \in Seq(AU) /\ Len(Tail(q)) <= BufSize
    BY <1>1, <2>1
  <2>3. chan' = [chan EXCEPT ![s] = Tail(q)]
        /\ UNCHANGED <<subs, closed, lastIDR, registered, callPC>>
    BY <1>4 DEF Receive
  <2>4. chan' \in [Sub -> Seq(AU)] /\ \A t \in Sub : Len(chan'[t]) <= BufSize
    BY <1>1, <2>2, <2>3 DEF HubTypeOK, HubKept
  <2> QED BY <1>1, <2>3, <2>4 DEF HubKept, HubTypeOK
<1> QED BY <1>2, <1>3, <1>4 DEF HubMoves

\* A broadcast sends only where there is room.
LEMMA HubFrameStep ==
    ASSUME HubKept, NEW g \in Sub, Frame(g)
    PROVE  HubKept'
<1> DEFINE au == [gen |-> g, seq |-> frame[g] + 1]
<1>1. HubTypeOK /\ BufSize \in Nat /\ MaxFrame \in Nat
  BY HubAssumption, ViewersAssumption DEF HubKept
<1>2. frame \in [Sub -> 0..MaxFrame] /\ frame[g] \in 0..MaxFrame /\ frame[g] < MaxFrame
  BY DEF Frame, HubKept
<1>3. frame[g] + 1 \in 1..MaxFrame
  BY <1>1, <1>2
<1>4. /\ frame' \in [Sub -> 0..MaxFrame] /\ frame'[g] = frame[g] + 1
      /\ \A h \in Sub : frame[h] <= frame'[h]
  <2>1. frame' = [frame EXCEPT ![g] = frame[g] + 1]
    BY DEF Frame
  <2> QED BY <1>1, <1>2, <1>3, <2>1
<1>5. au \in AU /\ au.seq = frame'[g] /\ au.gen = g
  BY <1>3, <1>4 DEF AU
<1>6. /\ lastIDR' = (IF IsIDR(au) THEN au ELSE lastIDR)
      /\ chan' = [s \in Sub |-> IF s \in subs /\ HasRoom(s)
                                THEN Append(chan[s], au) ELSE chan[s]]
      /\ UNCHANGED <<subs, closed, registered, callPC>>
  BY DEF Frame, Broadcast
<1> HIDE DEF au
<1>7. ASSUME NEW s \in Sub
      PROVE  chan'[s] \in Seq(AU) /\ Len(chan'[s]) <= BufSize
  <2>1. chan[s] \in Seq(AU) /\ Len(chan[s]) <= BufSize /\ Len(chan[s]) \in Nat
    BY <1>1 DEF HubTypeOK, HubKept
  <2>2. Append(chan[s], au) \in Seq(AU) /\ Len(Append(chan[s], au)) = Len(chan[s]) + 1
    BY <1>5, <2>1
  <2> QED BY <1>1, <1>6, <2>1, <2>2 DEF HasRoom
<1>8. lastIDR' \in AU \cup {None} /\ (lastIDR' # None => lastIDR'.seq <= frame'[lastIDR'.gen])
  <2>1. CASE lastIDR' = au
    BY <1>4, <1>5, <2>1
  <2>2. CASE lastIDR' = lastIDR
    <3>1. lastIDR # None =>
            /\ lastIDR.gen \in Sub /\ lastIDR.seq \in Nat
            /\ lastIDR.seq <= frame[lastIDR.gen]
      BY <1>1 DEF HubKept, HubTypeOK, AU
    <3>2. \A h \in Sub : frame[h] \in Nat /\ frame'[h] \in Nat
      BY <1>2, <1>4
    <3> QED BY <1>1, <1>4, <2>2, <3>1, <3>2 DEF HubTypeOK
  <2> QED BY <1>6, <2>1, <2>2
<1>9. chan' \in [Sub -> Seq(AU)]
  BY <1>6, <1>7
<1>10. HubTypeOK'
  BY <1>1, <1>6, <1>8, <1>9 DEF HubTypeOK
<1> QED BY <1>4, <1>7, <1>8, <1>10 DEF HubKept

LEMMA HubKeptStep ==
    ASSUME HubKept, ViewInv, [Next]_vars
    PROVE  HubKept'
<1>1. ViewType /\ InHands
  BY DEF ViewInv
<1>2. ASSUME NEW g \in Sub, Frame(g)
      PROVE  HubKept'
  BY <1>2, HubFrameStep
<1>3. CASE Wiring \/ Tick \/ UNCHANGED vars
  BY <1>3, HubMovesStep DEF Wiring, SetSubscribeFn, SetRTPEncoder, NewPipeline, Tick,
     vars, HubMoves, encVars
<1>4. ASSUME NEW x \in Session, \/ PlaySubscribes(x) \/ PlayJoins(x)
                                \/ CloseLast(x) \/ CloseOther(x)
      PROVE  HubKept'
  BY <1>4, HubMovesStep DEF PlaySubscribes, PlayJoins, CloseLast, CloseOther,
     HubMoves, encVars
<1>5. ASSUME NEW v \in Session \cup Web, Activated(v)
      PROVE  HubKept'
  <2>1. cur[v] \in Sub
    BY <1>1, <1>5 DEF Activated, ViewType
  <2> QED BY <1>5, <2>1, HubMovesStep DEF Activated, HubMoves, encVars
<1>6. ASSUME NEW x \in Session, PlayReturns(x) \/ CloseUnsubscribes(x) \/ CloseReturns(x)
      PROVE  HubKept'
  <2>1. cur[x] \in Sub
    BY <1>1, <1>6 DEF PlayReturns, CloseUnsubscribes, CloseReturns, ViewType, InHands
  <2> QED BY <1>6, <2>1, HubMovesStep DEF PlayReturns, CloseUnsubscribes, CloseReturns,
       HubMoves, encVars
<1>7. ASSUME NEW s \in Sub, StreamLoop(s)
      PROVE  HubKept'
  BY <1>7, HubMovesStep DEF StreamLoop, LoopReceive, LoopExit, LoopWritten,
     LoopOverflows, DropLoad, DropTime, DropDecide, HubMoves, encVars
<1>8. ASSUME NEW w \in Web, \/ WebJoin(w) \/ WebDone(w) \/ WebInit(w) \/ WebKeyframe(w)
                            \/ WebForward(w) \/ WebUnsubscribe(w) \/ WebReturns(w)
      PROVE  HubKept'
  <2>1. WebJoin(w) \/ cur[w] \in Sub
    BY <1>1, <1>8 DEF WebDone, WebInit, WebKeyframe, WebForward, WebUnsubscribe,
       WebReturns, ViewType, InHands
  <2> QED BY <1>8, <2>1, HubMovesStep DEF WebJoin, WebDone, WebInit, WebKeyframe,
       WebForward, WebUnsubscribe, WebReturns, HubMoves, encVars
<1> QED BY <1>2, <1>3, <1>4, <1>5, <1>6, <1>7, <1>8 DEF Next, Handler, WebHandler,
           Wiring, Frames

LEMMA RtspTypeStep ==
    ASSUME RtspType, [Next]_vars
    PROVE  RtspType'
<1>1. CASE UNCHANGED <<rtspVars, early>>
  BY <1>1 DEF RtspType, rtspVars
<1>2. CASE Wiring \/ Frames \/ Tick \/ UNCHANGED vars
  BY <1>1, <1>2 DEF Wiring, SetSubscribeFn, SetRTPEncoder, NewPipeline, Frames,
     Frame, Tick, vars, encVars, rtspVars, RtspType
<1>3. ASSUME NEW x \in Session, \/ PlaySubscribes(x) \/ PlayJoins(x) \/ PlayReturns(x)
                                \/ CloseLast(x) \/ CloseOther(x)
      PROVE  RtspType'
  BY <1>3 DEF PlaySubscribes, PlayJoins, PlayReturns, CloseLast, CloseOther, RtspType,
     encVars
<1>4. ASSUME NEW v \in Session \cup Web,
             Activated(v) \/ CloseUnsubscribes(v) \/ CloseReturns(v)
      PROVE  RtspType'
  BY <1>4 DEF Activated, CloseUnsubscribes, CloseReturns, RtspType, rtspVars, encVars
<1>5. ASSUME NEW s \in Sub, StreamLoop(s)
      PROVE  RtspType'
  BY <1>1, <1>5 DEF StreamLoop, LoopReceive, LoopExit, LoopWritten, LoopOverflows,
     DropLoad, DropTime, DropDecide, encVars
<1>6. ASSUME NEW w \in Web, \/ WebJoin(w) \/ WebDone(w) \/ WebInit(w) \/ WebKeyframe(w)
                            \/ WebForward(w) \/ WebUnsubscribe(w) \/ WebReturns(w)
      PROVE  RtspType'
  BY <1>1, <1>6 DEF WebJoin, WebDone, WebInit, WebKeyframe, WebForward, WebUnsubscribe,
     WebReturns, encVars
<1> QED BY <1>2, <1>3, <1>4, <1>5, <1>6 DEF Next, Handler, WebHandler, Wiring, Frames

LEMMA DropTypeStep ==
    ASSUME DropType, [Next]_vars
    PROVE  DropType'
<1>1. MaxClock \in Nat /\ Window \in Nat
  BY ViewersAssumption
<1>2. CASE UNCHANGED <<seen, lastDropLog, clock>>
  BY <1>2 DEF DropType
<1>3. CASE Tick
  BY <1>1, <1>3 DEF Tick, DropType
<1>4. ASSUME NEW s \in Sub, StreamLoop(s)
      PROVE  DropType'
  <2>1. CASE DropDecide(s)
    <3>1. /\ clock' = clock /\ seen' = [seen EXCEPT ![s] = [last |-> 0, now |-> 0]]
          /\ lastDropLog' \in {seen[s].now, lastDropLog}
      BY <2>1 DEF DropDecide
    <3>2. [last |-> 0, now |-> 0] \in [last : 0..MaxClock, now : 0..MaxClock]
      BY <1>1
    <3>3. seen[s].now \in 0..MaxClock
      BY DEF DropType
    <3> QED BY <3>1, <3>2, <3>3 DEF DropType
  <2>2. CASE DropLoad(s) \/ DropTime(s)
    <3>1. /\ UNCHANGED <<clock, lastDropLog>>
          /\ \/ seen' = [seen EXCEPT ![s].last = lastDropLog]
             \/ seen' = [seen EXCEPT ![s].now = clock]
      BY <2>2 DEF DropLoad, DropTime
    <3>2. clock \in 0..MaxClock
      BY <1>1 DEF DropType
    <3> QED BY <3>1, <3>2 DEF DropType
  <2>3. CASE LoopReceive(s) \/ LoopExit(s) \/ LoopWritten(s) \/ LoopOverflows(s)
    BY <1>2, <2>3 DEF LoopReceive, LoopExit, LoopWritten, LoopOverflows
  <2> QED BY <1>4, <2>1, <2>2, <2>3 DEF StreamLoop
<1>5. CASE \E x \in Session : \/ PlaySubscribes(x) \/ PlayJoins(x)
                              \/ CloseLast(x) \/ CloseOther(x) \/ Handler(x)
  BY <1>2, <1>5 DEF PlaySubscribes, PlayJoins, CloseLast, CloseOther, Handler,
     PlayReturns, Activated, CloseUnsubscribes, CloseReturns, loopVars
<1>6. CASE \E w \in Web : WebJoin(w) \/ WebDone(w) \/ WebHandler(w)
  BY <1>2, <1>6 DEF WebJoin, WebDone, WebHandler, Activated, WebInit, WebKeyframe,
                    WebForward, WebUnsubscribe, WebReturns, loopVars
<1>7. CASE Wiring \/ Frames \/ UNCHANGED vars
  BY <1>2, <1>7 DEF Wiring, SetSubscribeFn, SetRTPEncoder, NewPipeline, Frames,
     Frame, vars, loopVars
<1> QED BY <1>3, <1>4, <1>5, <1>6, <1>7 DEF Next, Wiring, Frames

LEMMA LoopTypeStep ==
    ASSUME LoopType, ViewInv, [Next]_vars
    PROVE  LoopType'
<1>1. ViewType /\ InHands
  BY DEF ViewInv
<1>2. CASE UNCHANGED <<bare, launched>>
  BY <1>2 DEF LoopType
<1>3. ASSUME NEW x \in Session, PlayReturns(x)
      PROVE  LoopType'
  BY <1>1, <1>3 DEF PlayReturns, ViewType, InHands, LoopType, encVars
<1>4. ASSUME NEW v \in Session \cup Web, Activated(v)
      PROVE  LoopType'
  BY <1>1, <1>4 DEF Activated, ViewType, LoopType, loopVars
<1>5. CASE \E x \in Session : \/ PlaySubscribes(x) \/ PlayJoins(x) \/ CloseLast(x)
                              \/ CloseOther(x) \/ CloseUnsubscribes(x) \/ CloseReturns(x)
  BY <1>2, <1>5 DEF PlaySubscribes, PlayJoins, CloseLast, CloseOther, CloseUnsubscribes,
     CloseReturns, loopVars, encVars
<1>6. CASE \E w \in Web : \/ WebJoin(w) \/ WebDone(w) \/ WebInit(w) \/ WebKeyframe(w)
                          \/ WebForward(w) \/ WebUnsubscribe(w) \/ WebReturns(w)
  BY <1>2, <1>6 DEF WebJoin, WebDone, WebInit, WebKeyframe, WebForward, WebUnsubscribe,
     WebReturns, loopVars, encVars
<1>7. CASE \E s \in Sub : StreamLoop(s)
  BY <1>2, <1>7 DEF StreamLoop, LoopReceive, LoopExit, LoopWritten, LoopOverflows,
     DropLoad, DropTime, DropDecide, encVars
<1>8. CASE Wiring \/ Frames \/ Tick \/ UNCHANGED vars
  BY <1>2, <1>8 DEF Wiring, SetSubscribeFn, SetRTPEncoder, NewPipeline, Frames, Frame,
     Tick, vars, loopVars, encVars
<1> QED BY <1>3, <1>4, <1>5, <1>6, <1>7, <1>8 DEF Next, Handler, WebHandler, Wiring,
           Frames

\* What a web viewer is sent was broadcast, from the cache or its channel.
LEMMA ShownTypeStep ==
    ASSUME HubKept, ShownType, ViewInv, PictureInv, [Next]_vars
    PROVE  ShownType'
<1>1. MaxFrame \in Nat /\ \A g \in Sub : frame[g] \in 0..MaxFrame
  BY ViewersAssumption DEF HubKept
<1>2. CASE UNCHANGED shown
  BY <1>2 DEF ShownType
<1>3. ASSUME NEW w \in Web, NEW g \in Sub, NEW p \in Picture,
             shown' = [shown EXCEPT ![w][g] = p]
      PROVE  ShownType'
  <2>1. [shown[w] EXCEPT ![g] = p] \in [Sub -> Picture \cup {None}]
    BY DEF ShownType
  <2>2. shown' = [shown EXCEPT ![w] = [shown[w] EXCEPT ![g] = p]]
    BY <1>3
  <2> QED BY <2>1, <2>2 DEF ShownType
<1>4. ASSUME NEW w \in Web, WebKeyframe(w)
      PROVE  ShownType'
  <2>1. CASE lastIDR = None
    BY <1>2, <1>4, <2>1 DEF WebKeyframe
  <2>2. CASE lastIDR # None
    <3>1. lastIDR.gen \in Sub /\ [seq |-> lastIDR.seq, cached |-> TRUE] \in Picture
      BY <1>1, <2>2 DEF HubKept, HubTypeOK, AU, Picture
    <3> QED BY <1>3, <1>4, <2>2, <3>1 DEF WebKeyframe
  <2> QED BY <2>1, <2>2
<1>5. ASSUME NEW w \in Web, WebForward(w)
      PROVE  ShownType'
  <2> DEFINE q == chan[cur[w]]
  <2>1. cur[w] \in Sub /\ q # <<>>
    BY <1>5 DEF WebForward, Receive, ViewInv, ViewType, InHands
  <2>2. q \in Seq(AU) /\ \A i \in 1..Len(q) : q[i].seq <= frame[q[i].gen]
    BY <2>1 DEF HubKept, HubTypeOK, PictureInv, NotAhead
  <2>3. Head(q) = q[1] /\ 1 \in 1..Len(q) /\ q[1] \in AU
    BY <2>1, <2>2
  <2>4. Head(q).gen \in Sub /\ [seq |-> Head(q).seq, cached |-> FALSE] \in Picture
    BY <1>1, <2>2, <2>3 DEF AU, Picture
  <2> QED BY <1>3, <1>5, <2>4 DEF WebForward
<1>6. ASSUME NEW w \in Web, WebReturns(w)
      PROVE  ShownType'
  BY <1>6 DEF WebReturns, NothingShown, ShownType
<1>7. ASSUME NEW w \in Web, WebJoin(w) \/ WebDone(w) \/ Activated(w) \/ WebInit(w)
                            \/ WebUnsubscribe(w)
      PROVE  ShownType'
  BY <1>2, <1>7 DEF WebJoin, WebDone, Activated, WebInit, WebUnsubscribe, webVars
<1>8. CASE \E x \in Session : \/ PlaySubscribes(x) \/ PlayJoins(x)
                              \/ CloseLast(x) \/ CloseOther(x) \/ Handler(x)
  BY <1>2, <1>8 DEF PlaySubscribes, PlayJoins, CloseLast, CloseOther, Handler,
     PlayReturns, Activated, CloseUnsubscribes, CloseReturns, webVars
<1>9. CASE \E s \in Sub : StreamLoop(s)
  BY <1>2, <1>9 DEF StreamLoop, LoopReceive, LoopExit, LoopWritten, LoopOverflows,
     DropLoad, DropTime, DropDecide, webVars
<1>10. CASE Wiring \/ Frames \/ Tick \/ UNCHANGED vars
  BY <1>2, <1>10 DEF Wiring, SetSubscribeFn, SetRTPEncoder, NewPipeline, Frames,
     Frame, Tick, vars, webVars
<1> QED BY <1>4, <1>5, <1>6, <1>7, <1>8, <1>9, <1>10 DEF Next, WebHandler, Wiring,
           Frames

\* Every channel keeps its capacity, and every picture a web viewer is sent
\* was broadcast, whoever joins, leaves and stalls.
THEOREM ViewersTypes == Spec => []TypeOK
<1>1. ASSUME Init
      PROVE  ViewerTypes
  <2>1. HubKept
    <3>1. \A s \in Sub : chan[s] = <<>>
      BY <1>1 DEF Init, HubInit
    <3>2. HubTypeOK
      <4>1. closed \in [Sub -> BOOLEAN] /\ registered \in BOOLEAN
        BY <1>1, Zenon DEF Init, HubInit
      <4>2. chan \in [Sub -> Seq(AU)] /\ callPC \in [Sub -> CallPC]
        BY <1>1 DEF Init, HubInit, CallPC
      <4>3. subs \subseteq Sub /\ lastIDR \in AU \cup {None}
        BY <1>1 DEF Init, HubInit
      <4> QED BY <4>1, <4>2, <4>3 DEF HubTypeOK
    <3>3. 0 <= BufSize /\ 0 \in 0..MaxFrame
      BY HubAssumption, ViewersAssumption
    <3> QED BY <1>1, <3>1, <3>2, <3>3 DEF Init, HubInit, HubKept
  <2>2. RtspType
    BY <1>1 DEF Init, RtspType
  <2>3. DropType
    BY <1>1, ViewersAssumption DEF Init, DropType
  <2>4. LoopType /\ ShownType
    BY <1>1 DEF Init, LoopType, NothingShown, ShownType
  <2> QED BY <2>1, <2>2, <2>3, <2>4 DEF ViewerTypes
<1>2. (ViewInv /\ PictureInv) /\ ViewerTypes /\ [Next]_vars => ViewerTypes'
  BY HubKeptStep, RtspTypeStep, DropTypeStep, LoopTypeStep, ShownTypeStep
     DEF ViewerTypes
<1>3. (ViewInv /\ PictureInv) /\ ViewerTypes => TypeOK
  BY DEF ViewInv, ViewType, ViewerTypes, HubKept, RtspType, DropType, LoopType,
     ShownType, TypeOK
<1> QED BY <1>1, <1>2, <1>3, ViewInvariant, PictureInvariant, PTL DEF Spec
=============================================================================
