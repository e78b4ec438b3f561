-------------------------------- MODULE PTZ --------------------------------
(***************************************************************************)
(* The simulated camera head of ptz/state.go: the commands that ONVIF and  *)
(* web clients issue in any order, each one critical section of s.mu, and  *)
(* the update loop's tick, which moves the head and then - after the       *)
(* unlock - reports the new position to onChange.                          *)
(*                                                                         *)
(* Positions are on an integer grid.  With the grid unit 1/40 the code's   *)
(* constants are PanMax = TiltMax = ZoomMax = 40, PanStep = 3 (panSpeed    *)
(* 1.5 over a 50 ms tick), TiltStep = 2, ZoomStep = 1, FlipStep = 4, and   *)
(* Horizon = 32.  Easing is rounded toward the target to the grid, so "all *)
(* three axes within eps" is "all three axes on the target".               *)
(***************************************************************************)
EXTENDS Integers

CONSTANTS
    PanMax, TiltMax, ZoomMax,  \* pan -PanMax..PanMax, tilt likewise, zoom 0..ZoomMax
    PanStep, TiltStep, ZoomStep, \* grid units per tick at full speed
    FlipStep,                  \* autoflipPanRate over a tick
    Horizon,                   \* TiltHorizon
    VelInput, AbsInput, RelInput, \* bounds: arguments clients give
    ClientToken,               \* tokens clients make up for SetPreset
    MaxPresetID,               \* bound: presets saved without a token
    SaveAt,                    \* bound: positions at which clients save presets
    None                       \* nil

Vector == [pan : Int, tilt : Int, zoom : Int]

\* Tilt and zoom are clamped wherever they are set; pan is wrapped, and only
\* once, so it may lie outside its range.
Position == [pan : Int, tilt : -TiltMax..TiltMax, zoom : 0..ZoomMax]

\* What onChange is told.
Status == [position : Position, moving : BOOLEAN]

ASSUME PTZAssumption ==
    /\ PanMax \in Nat \ {0} /\ TiltMax \in Nat \ {0} /\ ZoomMax \in Nat \ {0}
    /\ PanStep \in 0..(2 * PanMax)
    /\ TiltStep \in Nat /\ ZoomStep \in Nat
    /\ FlipStep \in Nat \ {0}
    /\ Horizon \in -TiltMax..TiltMax
    /\ VelInput \subseteq Vector
    /\ AbsInput \subseteq Vector
    /\ RelInput \subseteq Vector
    /\ MaxPresetID \in Nat
    /\ ClientToken \subseteq 0..MaxPresetID
    /\ SaveAt \subseteq Vector
    /\ None \notin Vector

Home == [pan |-> 0, tilt |-> Horizon, zoom |-> 0]
Still == [pan |-> 0, tilt |-> 0, zoom |-> 0]

\* Tokens: 0 is "preset_home", n is "preset_n".
Token == 0..MaxPresetID

VARIABLES
    position, velocity,
    target,         \* None or the position being approached
    moving,
    autoflipping,
    flipRemaining,  \* autoflipPanRemaining
    presets,        \* presets[token]: a saved position, or None
    nextPresetID,
    report,         \* the status tick took last (initially Home, at rest)
    pending,        \* and has yet to pass to onChange
    flipFrom,       \* history: the pan at which the current flip began, else 0
    strayed         \* history: some animation's target was out of the pan range

flipVars   == <<autoflipping, flipRemaining, flipFrom>>
motionVars == <<position, velocity, target, moving, flipVars, strayed>>
presetVars == <<presets, nextPresetID>>
reportVars == <<report, pending>>
vars == <<motionVars, presetVars, reportVars>>

InRange(pan) == pan \in -PanMax..PanMax

\* Only an animation toward a target out of range takes pan out of range.
PanKept ==
    ~strayed => /\ InRange(position.pan)
                /\ target # None => InRange(target.pan)
                /\ \A t \in Token : presets[t] # None => InRange(presets[t].pan)

TypeOK ==
    /\ position \in Position
    /\ velocity \in [pan : -1..1, tilt : -1..1, zoom : -1..1]
    /\ target \in Position \cup {None}
    /\ moving \in BOOLEAN
    /\ autoflipping \in BOOLEAN
    /\ flipRemaining \in 0..PanMax
    /\ presets \in [Token -> Position \cup {None}]
    /\ nextPresetID \in 0..MaxPresetID
    /\ report \in Status
    /\ pending \in BOOLEAN
    /\ flipFrom \in Int
    /\ strayed \in BOOLEAN
    /\ PanKept

Init ==
    /\ position = Home
    /\ velocity = Still
    /\ target = None
    /\ moving = FALSE
    /\ autoflipping = FALSE
    /\ flipRemaining = 0
    /\ presets = [t \in Token |-> IF t = 0 THEN Home ELSE None]
    /\ nextPresetID = 0
    /\ report = [position |-> Home, moving |-> FALSE]
    /\ pending = FALSE
    /\ flipFrom = 0
    /\ strayed = FALSE
----------------------------------------------------------------------------
Clamp(v, lo, hi) == IF v < lo THEN lo ELSE IF v > hi THEN hi ELSE v

\* One wrap, as the code does it: an angle more than one turn out of range
\* stays out of range.
Wrap(pan) ==
    IF pan > PanMax THEN pan - 2 * PanMax
    ELSE IF pan < -PanMax THEN pan + 2 * PanMax ELSE pan

\* Mutant: no tolerance, so the last step never reaches the target.
EasedShort(d) == IF d >= 0 THEN (78 * d + 99) \div 100
                 ELSE -((78 * (-d) + 99) \div 100)

\* What is left of a distance d after one tick of easing: e^-0.25 of it,
\* rounded toward zero.
Eased(d) == IF d >= 0 THEN (78 * d) \div 100 ELSE -((78 * (-d)) \div 100)

AnimateTo(p) ==
    /\ velocity' = Still
    /\ target' = p
    /\ moving' = TRUE
    /\ strayed' = (strayed \/ ~InRange(p.pan))

\* Mutant: a command leaves the flip armed.
KeepFlip == UNCHANGED flipVars

\* autoflipPanRemaining keeps its stale value.
CancelFlip == autoflipping' = FALSE /\ flipFrom' = 0 /\ UNCHANGED flipRemaining

ContinuousMove(v) ==
    LET speed == [pan  |-> Clamp(v.pan, -1, 1), tilt |-> Clamp(v.tilt, -1, 1),
                  zoom |-> Clamp(v.zoom, -1, 1)]
    IN  /\ target' = None
        /\ CancelFlip
        /\ velocity' = speed
        /\ moving' = (speed # Still)
        /\ UNCHANGED <<position, strayed, presetVars, reportVars>>

AbsoluteMove(p) ==
    /\ AnimateTo([pan  |-> Clamp(p.pan, -PanMax, PanMax),
                  tilt |-> Clamp(p.tilt, -TiltMax, TiltMax),
                  zoom |-> Clamp(p.zoom, 0, ZoomMax)])
    /\ CancelFlip
    /\ UNCHANGED <<position, presetVars, reportVars>>

\* Leaves autoflipping as it is, unlike every other command.
RelativeMove(d) ==
    /\ AnimateTo([pan  |-> Wrap(position.pan + d.pan),
                  tilt |-> Clamp(position.tilt + d.tilt, -TiltMax, TiltMax),
                  zoom |-> Clamp(position.zoom + d.zoom, 0, ZoomMax)])
    /\ UNCHANGED <<position, flipVars, presetVars, reportVars>>

\* Mutant: the animation's target survives Stop.
StopMoveKeepsTarget ==
    /\ CancelFlip
    /\ velocity' = Still
    /\ moving' = FALSE
    /\ UNCHANGED <<position, target, strayed, presetVars, reportVars>>

\* Both callers stop pan/tilt and zoom together.  Nobody is told: only tick
\* reports.
StopMove ==
    /\ target' = None
    /\ CancelFlip
    /\ velocity' = Still
    /\ moving' = FALSE
    /\ UNCHANGED <<position, strayed, presetVars, reportVars>>
----------------------------------------------------------------------------
\* SetPreset without a token.
SetNewPreset ==
    /\ nextPresetID < MaxPresetID
    /\ position \in SaveAt
    /\ nextPresetID' = nextPresetID + 1
    /\ presets' = [presets EXCEPT ![nextPresetID + 1] = position]
    /\ UNCHANGED <<motionVars, reportVars>>

\* SetPreset with a token, learnt from an earlier answer or made up: the code
\* takes any.
UpdatePreset(t) ==
    /\ t <= nextPresetID \/ t \in ClientToken
    /\ position \in SaveAt
    /\ presets' = [presets EXCEPT ![t] = position]
    /\ UNCHANGED <<motionVars, nextPresetID, reportVars>>

\* An unknown token changes nothing.
GotoPreset(t) ==
    /\ presets[t] # None
    /\ AnimateTo(presets[t])
    /\ CancelFlip
    /\ UNCHANGED <<position, presetVars, reportVars>>

\* Mutant: token numbers are handed back.
RemovePresetAndNumber(t) ==
    /\ nextPresetID > 0
    /\ presets[t] # None
    /\ presets' = [presets EXCEPT ![t] = None]
    /\ nextPresetID' = nextPresetID - 1
    /\ UNCHANGED <<motionVars, reportVars>>

RemovePreset(t) ==
    /\ presets[t] # None
    /\ presets' = [presets EXCEPT ![t] = None]
    /\ UNCHANGED <<motionVars, nextPresetID, reportVars>>
----------------------------------------------------------------------------
\* tick, up to its unlock

\* Mutant: the status is taken before the tick has changed it.
ReportStale(moves) ==
    report' = [position |-> position, moving |-> moving] /\ pending' = TRUE

\* The status taken under the lock, to be passed on after it.
Report(moves) ==
    report' = [position |-> position', moving |-> moves] /\ pending' = TRUE

\* Ease toward the target the short way round, and snap.
TickAnimate ==
    LET left(a) == Eased(target[a] - position[a])
        panLeft == Eased(Wrap(target.pan - position.pan))
        next == [pan  |-> Wrap(position.pan + Wrap(target.pan - position.pan) - panLeft),
                 tilt |-> target.tilt - left("tilt"),
                 zoom |-> target.zoom - left("zoom")]
        arrived == /\ Wrap(target.pan - next.pan) = 0
                   /\ next.tilt = target.tilt
                   /\ next.zoom = target.zoom
    IN  /\ target # None
        /\ position' = IF arrived THEN target ELSE next
        /\ target' = IF arrived THEN None ELSE target
        /\ moving' = ~arrived
        /\ Report(~arrived)
        /\ UNCHANGED <<velocity, flipVars, strayed, presetVars>>

\* Mutant: zoom is not clamped.
ZoomedFar == position.zoom + velocity.zoom * ZoomStep

Zoomed == Clamp(position.zoom + velocity.zoom * ZoomStep, 0, ZoomMax)

\* The half turn at nadir; its last step reverses the tilt.
TickFlip ==
    LET last == FlipStep >= flipRemaining
        step == IF last THEN flipRemaining ELSE FlipStep
    IN  /\ target = None
        /\ moving
        /\ autoflipping
        /\ position' = [pan |-> Wrap(position.pan + step), tilt |-> -TiltMax,
                        zoom |-> Zoomed]
        /\ flipRemaining' = flipRemaining - step
        /\ autoflipping' = ~last
        /\ flipFrom' = IF last THEN 0 ELSE flipFrom
        /\ velocity' = IF last THEN [velocity EXCEPT !.tilt = -@] ELSE velocity
        /\ Report(TRUE)
        /\ UNCHANGED <<target, moving, strayed, presetVars>>

\* Constant velocity; tilting below nadir starts a flip.
TickDrive ==
    LET tilt == position.tilt + velocity.tilt * TiltStep
        pan  == Wrap(position.pan + velocity.pan * PanStep)
        flip == tilt < -TiltMax
    IN  /\ target = None
        /\ moving
        /\ ~autoflipping
        /\ position' = [pan |-> pan, tilt |-> Clamp(tilt, -TiltMax, TiltMax),
                        zoom |-> Zoomed]
        /\ autoflipping' = flip
        /\ flipRemaining' = IF flip THEN PanMax ELSE flipRemaining
        /\ flipFrom' = IF flip THEN pan ELSE flipFrom
        /\ Report(TRUE)
        /\ UNCHANGED <<velocity, target, moving, strayed, presetVars>>

Tick == ~pending /\ (TickAnimate \/ TickFlip \/ TickDrive)

\* notifyChange, after the unlock and before the next tick.
Notify ==
    /\ pending
    /\ pending' = FALSE
    /\ UNCHANGED <<motionVars, presetVars, report>>
----------------------------------------------------------------------------
Command ==
    \/ \E v \in VelInput : ContinuousMove(v)
    \/ \E p \in AbsInput : AbsoluteMove(p)
    \/ \E d \in RelInput : RelativeMove(d)
    \/ StopMove
    \/ SetNewPreset
    \/ \E t \in Token : UpdatePreset(t) \/ GotoPreset(t) \/ RemovePreset(t)

Next == Command \/ Tick \/ Notify

Spec == Init /\ [][Next]_vars

\* The ticker fires and onChange returns; clients owe nothing.
FairSpec == Spec /\ WF_vars(Tick) /\ WF_vars(Notify)
----------------------------------------------------------------------------
\* GetStatus: the head is reported moving exactly while the next tick has an
\* animation or a velocity to carry out, whatever commands have interrupted
\* each other.  (At a limit that tick may leave the head where it is.)
StatusHonest ==
    /\ moving <=> target # None \/ velocity # Still
    /\ target # None => velocity = Still

\* A flip in progress always stands at nadir with the tilt still pointing
\* down, so its last step turns the tilt upward; and, when it began within
\* the pan range, it stays there and what is left of it leads to exactly half
\* a turn from where it began.  RelativeMove leaves autoflipping set: no later
\* command may resume that flip.
FlipIsHalfTurn ==
    autoflipping /\ moving /\ target = None =>
        /\ velocity.tilt = -1
        /\ position.tilt = -TiltMax
        /\ flipRemaining > 0
        /\ InRange(flipFrom) =>
             /\ InRange(position.pan)
             /\ Wrap(Wrap(position.pan + flipRemaining) - Wrap(flipFrom + PanMax)) = 0

\* Subscribers are told every position: the last report, passed on or on its
\* way, is always where the head is, in every interleaving of commands, ticks
\* and reports.  The move status told with it is less: a command changes it
\* silently, so it is behind until the next tick that has something to do -
\* after a command that stops the head, until the next motion.  Nothing but a
\* command lets it fall behind, and every such tick puts it right.
ReportsCurrent ==
    [][/\ report'.position = position'
       /\ report'.moving # moving' =>
             Command \/ (report.moving # moving /\ ~Tick)]_vars

\* A token the server chooses never overwrites a preset, whatever has been
\* saved, updated and removed before, unless a client made up the same token.
NewTokenIsFresh ==
    [][nextPresetID' # nextPresetID =>
          presets[nextPresetID'] = None \/ nextPresetID' \in ClientToken]_vars

\* state.go:34 and :335 - pan stays within its range.
PanInRange == InRange(position.pan)

\* Once clients fall silent an animation ends: the eased steps neither stall
\* short of the target nor oscillate across the +-180 degree seam.  The
\* exception is a target more than a full turn out of range, which relative
\* moves beyond a full turn can set: wrapped once, the distance to it never
\* becomes small, and the animation goes on for ever.
AnimationEnds ==
    <>[][~Command]_vars =>
        <>[](target = None \/ target.pan \notin (-3 * PanMax)..(3 * PanMax))
=============================================================================
