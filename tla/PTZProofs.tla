----------------------------- MODULE PTZProofs -----------------------------
(***************************************************************************)
(* What the run PTZ_motion checks on a small grid, proved for every grid,  *)
(* speed and input, far relative moves included: the status is honest,     *)
(* every position is reported, tilt and zoom stay in range, and a flip is  *)
(* half a turn.  Pan stays in range as long as no relative move is longer  *)
(* than a full turn, which is the case PTZ_farturn refutes.                *)
(***************************************************************************)
EXTENDS PTZ, TLAPS

\* No client asks for a relative move of more than a full turn.
WithinATurn == \A d \in RelInput : d.pan >= -2 * PanMax /\ d.pan <= 2 * PanMax

(***************************************************************************)
(* Arithmetic.                                                             *)
(***************************************************************************)
LEMMA ClampBounds ==
    ASSUME NEW v \in Int, NEW lo \in Int, NEW hi \in Int, lo <= hi
    PROVE  Clamp(v, lo, hi) \in lo..hi
BY DEF Clamp

LEMMA ClampInt ==
    ASSUME NEW v \in Int, NEW lo \in Int, NEW hi \in Int
    PROVE  Clamp(v, lo, hi) \in Int
BY DEF Clamp

\* The zoom that constant velocity leads to.
LEMMA ZoomedBounds ==
    ASSUME position.zoom \in Int, velocity.zoom \in Int
    PROVE  Zoomed \in 0..ZoomMax
<1>1. velocity.zoom * ZoomStep \in Int
  BY PTZAssumption
<1>2. position.zoom + velocity.zoom * ZoomStep \in Int
  BY <1>1
<1>3. 0 \in Int /\ ZoomMax \in Int /\ 0 <= ZoomMax
  BY PTZAssumption
<1> QED BY <1>2, <1>3, ClampBounds DEF Zoomed

LEMMA WrapInt ==
    ASSUME NEW a \in Int
    PROVE  Wrap(a) \in Int
BY PTZAssumption DEF Wrap

\* One wrap is enough for less than one turn and a half.
LEMMA WrapBounds ==
    ASSUME NEW a \in Int, a >= -3 * PanMax, a <= 3 * PanMax
    PROVE  Wrap(a) \in -PanMax..PanMax
BY PTZAssumption DEF Wrap

\* Easing neither stalls beyond the distance nor overshoots.
LEMMA EasedBetween ==
    ASSUME NEW d \in Int
    PROVE  /\ Eased(d) \in Int
           /\ d >= 0 => 0 <= Eased(d) /\ Eased(d) <= d
           /\ d <= 0 => d <= Eased(d) /\ Eased(d) <= 0
<1>1. CASE d >= 0
  BY <1>1 DEF Eased
<1>2. CASE ~(d >= 0)
  <2>1. -d \in Nat
    BY <1>2
  <2>2. (78 * (-d)) \div 100 \in Int /\ 0 <= (78 * (-d)) \div 100
        /\ (78 * (-d)) \div 100 <= -d
    BY <2>1
  <2> QED BY <1>2, <2>2 DEF Eased
<1> QED BY <1>1, <1>2

LEMMA NoneIsNoVector == None \notin Vector /\ None \notin Position /\ Position \subseteq Vector
BY PTZAssumption DEF Vector, Position
----------------------------------------------------------------------------
(***************************************************************************)
(* The status, for any input.                                              *)
(***************************************************************************)
Axes == /\ position \in Vector
        /\ target \in Vector \cup {None}
        /\ velocity \in [pan : -1..1, tilt : -1..1, zoom : -1..1]
        /\ moving \in BOOLEAN
        /\ flipRemaining \in 0..PanMax
        /\ presets \in [Token -> Vector \cup {None}]

StatusInv == Axes /\ StatusHonest

LEMMA StatusStep ==
    ASSUME StatusInv, [Next]_vars
    PROVE  StatusInv'
<1> USE NoneIsNoVector
<1>1. ASSUME NEW v \in VelInput, ContinuousMove(v) PROVE StatusInv'
  <2>1. v.pan \in Int /\ v.tilt \in Int /\ v.zoom \in Int
    BY PTZAssumption DEF Vector
  <2>2. velocity' \in [pan : -1..1, tilt : -1..1, zoom : -1..1]
    <3>1. /\ Clamp(v.pan, -1, 1) \in -1..1 /\ Clamp(v.tilt, -1, 1) \in -1..1
          /\ Clamp(v.zoom, -1, 1) \in -1..1
      BY <2>1 DEF Clamp
    <3> QED BY <1>1, <3>1 DEF ContinuousMove
  <2>3. /\ target' = None /\ moving' = (velocity' # Still)
        /\ UNCHANGED <<position, flipRemaining, presets>>
    BY <1>1 DEF ContinuousMove, CancelFlip, presetVars
  <2> QED BY <2>2, <2>3 DEF StatusInv, Axes, StatusHonest
<1>2. ASSUME NEW p \in Vector, AnimateTo(p),
             UNCHANGED <<position, flipRemaining, presets>>
      PROVE  StatusInv'
  BY <1>2 DEF AnimateTo, StatusInv, Axes, StatusHonest, Still
<1>3. ASSUME NEW p \in AbsInput, AbsoluteMove(p) PROVE StatusInv'
  <2>1. p.pan \in Int /\ p.tilt \in Int /\ p.zoom \in Int
    BY PTZAssumption DEF Vector
  <2>2. [pan  |-> Clamp(p.pan, -PanMax, PanMax),
         tilt |-> Clamp(p.tilt, -TiltMax, TiltMax),
         zoom |-> Clamp(p.zoom, 0, ZoomMax)] \in Vector
    <3>1. -PanMax \in Int /\ PanMax \in Int /\ -TiltMax \in Int /\ TiltMax \in Int
          /\ 0 \in Int /\ ZoomMax \in Int
      BY PTZAssumption
    <3>2. /\ Clamp(p.pan, -PanMax, PanMax) \in Int
          /\ Clamp(p.tilt, -TiltMax, TiltMax) \in Int
          /\ Clamp(p.zoom, 0, ZoomMax) \in Int
      BY <2>1, <3>1, ClampInt
    <3> QED BY <3>2 DEF Vector
  <2> QED BY <1>2, <1>3, <2>2 DEF AbsoluteMove, CancelFlip, presetVars
<1>4. ASSUME NEW d \in RelInput, RelativeMove(d) PROVE StatusInv'
  <2>1. d.pan \in Int /\ d.tilt \in Int /\ d.zoom \in Int
        /\ position.pan \in Int /\ position.tilt \in Int /\ position.zoom \in Int
    BY PTZAssumption DEF Vector, StatusInv, Axes
  <2>2. [pan  |-> Wrap(position.pan + d.pan),
         tilt |-> Clamp(position.tilt + d.tilt, -TiltMax, TiltMax),
         zoom |-> Clamp(position.zoom + d.zoom, 0, ZoomMax)] \in Vector
    <3>1. -TiltMax \in Int /\ TiltMax \in Int /\ 0 \in Int /\ ZoomMax \in Int
          /\ position.pan + d.pan \in Int /\ position.tilt + d.tilt \in Int
          /\ position.zoom + d.zoom \in Int
      BY <2>1, PTZAssumption
    <3>2. /\ Wrap(position.pan + d.pan) \in Int
          /\ Clamp(position.tilt + d.tilt, -TiltMax, TiltMax) \in Int
          /\ Clamp(position.zoom + d.zoom, 0, ZoomMax) \in Int
      BY <3>1, ClampInt, WrapInt
    <3> QED BY <3>2 DEF Vector
  <2> QED BY <1>2, <1>4, <2>2 DEF RelativeMove, flipVars, presetVars
<1>5. CASE StopMove
  <2>1. /\ target' = None /\ velocity' = Still /\ moving' = FALSE
        /\ UNCHANGED <<position, flipRemaining, presets>>
    BY <1>5 DEF StopMove, CancelFlip, presetVars
  <2>2. Axes'
    <3>1. Still \in [pan : -1..1, tilt : -1..1, zoom : -1..1]
      BY DEF Still
    <3>2. FALSE \in BOOLEAN
      OBVIOUS
    <3> QED BY <2>1, <3>1, <3>2 DEF StatusInv, Axes
  <2>3. StatusHonest'
    BY <2>1 DEF StatusHonest
  <2> QED BY <2>2, <2>3 DEF StatusInv
<1>6. CASE SetNewPreset
  BY <1>6, PTZAssumption DEF SetNewPreset, motionVars, flipVars, StatusInv, Axes,
     StatusHonest, Token
<1>7. ASSUME NEW t \in Token, UpdatePreset(t) \/ RemovePreset(t) PROVE StatusInv'
  BY <1>7 DEF UpdatePreset, RemovePreset, motionVars, flipVars, StatusInv, Axes,
     StatusHonest
<1>8. ASSUME NEW t \in Token, GotoPreset(t) PROVE StatusInv'
  <2>1. presets[t] \in Vector
    BY <1>8 DEF GotoPreset, StatusInv, Axes
  <2> QED BY <1>2, <1>8, <2>1 DEF GotoPreset, CancelFlip, presetVars
<1>9. CASE TickAnimate
  <2> DEFINE left(a) == Eased(target[a] - position[a])
             panLeft == Eased(Wrap(target.pan - position.pan))
             next == [pan  |-> Wrap(position.pan + Wrap(target.pan - position.pan) - panLeft),
                      tilt |-> target.tilt - left("tilt"),
                      zoom |-> target.zoom - left("zoom")]
             arrived == /\ Wrap(target.pan - next.pan) = 0
                        /\ next.tilt = target.tilt
                        /\ next.zoom = target.zoom
  <2>1. /\ target # None
        /\ position' = IF arrived THEN target ELSE next
        /\ target' = IF arrived THEN None ELSE target
        /\ moving' = ~arrived
        /\ UNCHANGED <<velocity, flipRemaining, presets>>
    BY <1>9 DEF TickAnimate, flipVars, presetVars
  <2>2. target \in Vector
    BY <2>1 DEF StatusInv, Axes
  <2>3. /\ target.pan \in Int /\ target.tilt \in Int /\ target.zoom \in Int
        /\ position.pan \in Int /\ position.tilt \in Int /\ position.zoom \in Int
    BY <2>2 DEF StatusInv, Axes, Vector
  <2>4. panLeft \in Int /\ left("tilt") \in Int /\ left("zoom") \in Int
    BY <2>3, WrapInt, EasedBetween
  <2>5. Wrap(position.pan + Wrap(target.pan - position.pan) - panLeft) \in Int
    BY <2>3, <2>4, WrapInt
  <2>6. next \in Vector
    BY <2>3, <2>4, <2>5 DEF Vector
  <2>7. velocity = Still
    BY <2>1 DEF StatusInv, StatusHonest
  <2>8. arrived \in BOOLEAN
    OBVIOUS
  <2> HIDE DEF next, arrived
  <2> QED BY <2>1, <2>2, <2>6, <2>7, <2>8 DEF StatusInv, Axes, StatusHonest
<1>10. CASE TickFlip
  <2>1. /\ target = None /\ moving /\ UNCHANGED <<target, moving, presets>>
        /\ position' \in Vector /\ flipRemaining' \in 0..PanMax
    <3>1. position.pan \in Int /\ position.zoom \in Int /\ velocity.zoom \in -1..1
          /\ flipRemaining \in 0..PanMax
      BY DEF StatusInv, Axes, Vector
    <3>2. Zoomed \in Int
      BY <3>1, ZoomedBounds, PTZAssumption
    <3>3. \A step \in Int : Wrap(position.pan + step) \in Int
      BY <3>1, WrapInt
    <3>4. /\ FlipStep \in Nat \ {0} /\ PanMax \in Nat /\ TiltMax \in Nat
      BY PTZAssumption
    <3> QED BY <1>10, <3>1, <3>2, <3>3, <3>4 DEF TickFlip, Vector, presetVars
  <2>2. /\ velocity' \in [pan : -1..1, tilt : -1..1, zoom : -1..1]
        /\ velocity # Still => velocity' # Still
    <3>1. velocity \in [pan : -1..1, tilt : -1..1, zoom : -1..1]
      BY DEF StatusInv, Axes
    <3>2. velocity' = velocity \/ velocity' = [velocity EXCEPT !.tilt = -@]
      BY <1>10 DEF TickFlip
    <3> QED BY <3>1, <3>2 DEF Still
  <2> QED BY <2>1, <2>2 DEF StatusInv, Axes, StatusHonest
<1>11. CASE TickDrive
  <2>1. /\ UNCHANGED <<velocity, target, moving, presets>>
        /\ flipRemaining' \in 0..PanMax
    BY <1>11, PTZAssumption DEF TickDrive, presetVars, StatusInv, Axes
  <2>2. position' \in Vector
    <3>1. position.pan \in Int /\ position.tilt \in Int /\ position.zoom \in Int
          /\ velocity.pan \in Int /\ velocity.tilt \in Int /\ velocity.zoom \in Int
      BY DEF StatusInv, Axes, Vector
    <3>2. velocity.pan * PanStep \in Int /\ velocity.tilt * TiltStep \in Int
          /\ velocity.zoom * ZoomStep \in Int
      BY <3>1, PTZAssumption
    <3>3. Zoomed \in Int
      BY <3>1, ZoomedBounds, PTZAssumption
    <3>4. Wrap(position.pan + velocity.pan * PanStep) \in Int
      BY <3>1, <3>2, WrapInt
    <3>5. Clamp(position.tilt + velocity.tilt * TiltStep, -TiltMax, TiltMax) \in Int
      <4>1. position.tilt + velocity.tilt * TiltStep \in Int
        BY <3>1, <3>2
      <4>2. -TiltMax \in Int /\ TiltMax \in Int
        BY PTZAssumption
      <4> QED BY <4>1, <4>2, ClampInt
    <3> QED BY <1>11, <3>3, <3>4, <3>5 DEF TickDrive, Vector
  <2> QED BY <2>1, <2>2 DEF StatusInv, Axes, StatusHonest
<1>12. CASE Notify \/ UNCHANGED vars
  BY <1>12 DEF Notify, vars, motionVars, flipVars, presetVars, StatusInv, Axes,
     StatusHonest
<1> QED BY <1>1, <1>3, <1>4, <1>5, <1>6, <1>7, <1>8, <1>9, <1>10, <1>11, <1>12
        DEF Next, Command, Tick

LEMMA StatusInit ==
    ASSUME Init
    PROVE  StatusInv
<1>1. Home \in Vector
  BY PTZAssumption DEF Home, Vector
<1>2. 0 \in 0..PanMax /\ 0 \in -1..1
  BY PTZAssumption
<1>3. position \in Vector /\ presets \in [Token -> Vector \cup {None}]
  BY <1>1 DEF Init
<1>4. velocity \in [pan : -1..1, tilt : -1..1, zoom : -1..1]
  BY <1>2 DEF Init, Still
<1>5. Axes
  BY <1>2, <1>3, <1>4 DEF Init, Axes
<1> QED BY <1>5 DEF Init, StatusInv, StatusHonest

\* GetStatus reports moving exactly while the next tick will move the head,
\* for every grid and every input, also those that leave the range.
THEOREM StatusIsHonest == Spec => []StatusHonest
<1>1. StatusInv /\ [Next]_vars => StatusInv'
  BY StatusStep
<1>2. StatusInv => StatusHonest
  BY DEF StatusInv
<1> QED BY <1>1, <1>2, StatusInit, PTL DEF Spec
----------------------------------------------------------------------------
(***************************************************************************)
(* The range of the head.                                                  *)
(***************************************************************************)

\* What the commands leave the head, its target and the presets.
CommandLeaves ==
    /\ position' = position
    /\ target' \in Position \cup {None}
    /\ presets' \in [Token -> Position \cup {None}]
    /\ strayed' \in BOOLEAN
    /\ PanKept'

\* Every animation notes a target out of range.
LEMMA AnimateKeepsPan ==
    ASSUME TypeOK, NEW p \in Position, AnimateTo(p),
           position' = position, presets' = presets
    PROVE  CommandLeaves
<1>1. target' = p /\ strayed' = (strayed \/ ~InRange(p.pan))
  BY DEF AnimateTo
<1>2. strayed' \in BOOLEAN
  BY <1>1 DEF TypeOK
<1>3. ASSUME ~strayed'
      PROVE  /\ InRange(position'.pan) /\ InRange(target'.pan)
             /\ \A t \in Token : presets'[t] # None => InRange(presets'[t].pan)
  BY <1>1, <1>3 DEF TypeOK, PanKept
<1>4. PanKept'
  BY <1>3 DEF PanKept
<1> QED BY <1>1, <1>2, <1>4 DEF CommandLeaves, TypeOK

LEMMA CommandKeepsPan ==
    ASSUME TypeOK, Command
    PROVE  CommandLeaves
<1>1. ASSUME NEW v \in VelInput, ContinuousMove(v) PROVE CommandLeaves
  BY <1>1 DEF ContinuousMove, presetVars, CommandLeaves, PanKept, TypeOK
<1>2. ASSUME NEW p \in AbsInput, AbsoluteMove(p) PROVE CommandLeaves
  <2>1. p.pan \in Int /\ p.tilt \in Int /\ p.zoom \in Int
    BY PTZAssumption DEF Vector
  <2>2. /\ Clamp(p.pan, -PanMax, PanMax) \in Int
        /\ Clamp(p.tilt, -TiltMax, TiltMax) \in -TiltMax..TiltMax
        /\ Clamp(p.zoom, 0, ZoomMax) \in 0..ZoomMax
    BY <2>1, PTZAssumption DEF Clamp
  <2>3. [pan  |-> Clamp(p.pan, -PanMax, PanMax),
         tilt |-> Clamp(p.tilt, -TiltMax, TiltMax),
         zoom |-> Clamp(p.zoom, 0, ZoomMax)] \in Position
    BY <2>2 DEF Position
  <2> QED BY <1>2, <2>3, AnimateKeepsPan DEF AbsoluteMove, presetVars
<1>3. ASSUME NEW d \in RelInput, RelativeMove(d) PROVE CommandLeaves
  <2>1. /\ d.pan \in Int /\ d.tilt \in Int /\ d.zoom \in Int
        /\ position.pan \in Int /\ position.tilt \in Int /\ position.zoom \in Int
    BY PTZAssumption DEF Vector, TypeOK, Position
  <2>2. Wrap(position.pan + d.pan) \in Int
    BY <2>1, PTZAssumption DEF Wrap
  <2>3. /\ Clamp(position.tilt + d.tilt, -TiltMax, TiltMax) \in -TiltMax..TiltMax
        /\ Clamp(position.zoom + d.zoom, 0, ZoomMax) \in 0..ZoomMax
    BY <2>1, PTZAssumption DEF Clamp
  <2>4. [pan  |-> Wrap(position.pan + d.pan),
         tilt |-> Clamp(position.tilt + d.tilt, -TiltMax, TiltMax),
         zoom |-> Clamp(position.zoom + d.zoom, 0, ZoomMax)] \in Position
    BY <2>2, <2>3 DEF Position
  <2> QED BY <1>3, <2>4, AnimateKeepsPan DEF RelativeMove, presetVars
<1>4. CASE StopMove
  BY <1>4 DEF StopMove, presetVars, CommandLeaves, PanKept, TypeOK
<1>5. ASSUME UNCHANGED motionVars, NEW t \in Token, NEW p \in {position, None},
             presets' = [presets EXCEPT ![t] = p]
      PROVE  CommandLeaves
  <2>1. /\ position' = position /\ target' = target /\ strayed' = strayed
    BY <1>5 DEF motionVars
  <2>2. presets' \in [Token -> Position \cup {None}]
    BY <1>5 DEF TypeOK
  <2>3. \A u \in Token : presets'[u] = presets[u] \/ presets'[u] = position
                                                \/ presets'[u] = None
    BY <1>5 DEF TypeOK
  <2>4. PanKept'
    BY <2>1, <2>3 DEF TypeOK, PanKept
  <2> QED BY <2>1, <2>2, <2>4 DEF CommandLeaves, TypeOK
<1>6. CASE SetNewPreset
  <2>1. nextPresetID + 1 \in Token
    BY <1>6, PTZAssumption DEF SetNewPreset, TypeOK, Token
  <2> QED BY <1>5, <1>6, <2>1 DEF SetNewPreset
<1>7. ASSUME NEW t \in Token, UpdatePreset(t) \/ RemovePreset(t) PROVE CommandLeaves
  BY <1>5, <1>7 DEF UpdatePreset, RemovePreset
<1>8. ASSUME NEW t \in Token, GotoPreset(t) PROVE CommandLeaves
  <2>1. presets[t] \in Position
    BY <1>8 DEF GotoPreset, TypeOK
  <2> QED BY <1>8, <2>1, AnimateKeepsPan DEF GotoPreset, presetVars
<1> QED BY <1>1, <1>2, <1>3, <1>4, <1>6, <1>7, <1>8 DEF Command

LEMMA PositionInRange ==
    ASSUME TypeOK, Tick
    PROVE  /\ position' \in Position
           /\ InRange(position'.pan) \/ strayed
<1>1. /\ position.pan \in Int /\ position.tilt \in -TiltMax..TiltMax
      /\ position.zoom \in 0..ZoomMax
      /\ InRange(position.pan) \/ strayed
      /\ PanMax \in Nat /\ TiltMax \in Nat /\ ZoomMax \in Nat
  BY PTZAssumption DEF TypeOK, Position, PanKept
<1>2. CASE TickAnimate
  <2> DEFINE turn == Wrap(target.pan - position.pan)
             pan  == Wrap(position.pan + turn - Eased(turn))
             tilt == target.tilt - Eased(target.tilt - position.tilt)
             zoom == target.zoom - Eased(target.zoom - position.zoom)
  <2>1. /\ target # None /\ target \in Position
        /\ \/ position' = target
           \/ position' = [pan |-> pan, tilt |-> tilt, zoom |-> zoom]
    BY <1>2 DEF TickAnimate, TypeOK
  <2>2. /\ target.pan \in Int /\ target.tilt \in -TiltMax..TiltMax
        /\ target.zoom \in 0..ZoomMax
    BY <2>1 DEF Position
  <2>3. turn \in Int /\ Eased(turn) \in Int /\ pan \in Int
    BY <1>1, <2>2, WrapInt, EasedBetween
  <2>4. ASSUME ~strayed
        PROVE  InRange(target.pan) /\ InRange(pan)
    <3>1. /\ InRange(target.pan) /\ position.pan \in -PanMax..PanMax
          /\ turn \in -PanMax..PanMax
      BY <1>1, <2>1, <2>2, <2>4, PTZAssumption DEF Wrap, TypeOK, PanKept, InRange
    <3>2. /\ Eased(turn) \in Int
          /\ turn >= 0 => 0 <= Eased(turn) /\ Eased(turn) <= turn
          /\ turn <= 0 => turn <= Eased(turn) /\ Eased(turn) <= 0
      BY <1>1, <2>3, <3>1, EasedBetween
    <3> HIDE DEF turn
    <3>3. /\ position.pan + turn - Eased(turn) \in Int
          /\ position.pan + turn - Eased(turn) >= -2 * PanMax
          /\ position.pan + turn - Eased(turn) <= 2 * PanMax
      BY <1>1, <3>1, <3>2
    <3> QED BY <1>1, <3>1, <3>3 DEF Wrap, InRange
  <2>5. tilt \in -TiltMax..TiltMax
    <3>1. target.tilt - position.tilt \in Int
      BY <1>1, <2>2
    <3> QED BY <1>1, <2>2, <3>1, EasedBetween
  <2>6. zoom \in 0..ZoomMax
    <3>1. target.zoom - position.zoom \in Int
      BY <1>1, <2>2
    <3> QED BY <1>1, <2>2, <3>1, EasedBetween
  <2> HIDE DEF pan, tilt, zoom
  <2> QED BY <2>1, <2>3, <2>4, <2>5, <2>6 DEF Position
<1>3. Zoomed \in 0..ZoomMax
  BY <1>1, ZoomedBounds DEF TypeOK
<1>4. CASE TickFlip
  <2>1. PICK step \in 0..PanMax :
            position' = [pan |-> Wrap(position.pan + step), tilt |-> -TiltMax,
                         zoom |-> Zoomed]
    BY <1>4, PTZAssumption DEF TickFlip, TypeOK
  <2>2. /\ Wrap(position.pan + step) \in Int
        /\ InRange(Wrap(position.pan + step)) \/ strayed
    BY <1>1, PTZAssumption DEF Wrap, InRange
  <2> QED BY <1>1, <1>3, <2>1, <2>2 DEF Position
<1>5. CASE TickDrive
  <2>1. velocity.pan \in -1..1 /\ velocity.tilt \in -1..1
    BY DEF TypeOK
  <2>2. /\ Wrap(position.pan + velocity.pan * PanStep) \in Int
        /\ InRange(Wrap(position.pan + velocity.pan * PanStep)) \/ strayed
    <3>1. /\ velocity.pan * PanStep \in Int
          /\ velocity.pan * PanStep >= -2 * PanMax
          /\ velocity.pan * PanStep <= 2 * PanMax
      <4>1. PanStep \in 0..(2 * PanMax)
        BY PTZAssumption
      <4>2. CASE velocity.pan = -1
        BY <1>1, <4>1, <4>2
      <4>3. CASE velocity.pan = 0
        BY <1>1, <4>1, <4>3
      <4>4. CASE velocity.pan = 1
        BY <1>1, <4>1, <4>4
      <4> QED BY <2>1, <4>2, <4>3, <4>4
    <3> DEFINE way == velocity.pan * PanStep
    <3>2. way \in Int /\ way >= -2 * PanMax /\ way <= 2 * PanMax
      BY <3>1
    <3> HIDE DEF way
    <3>3. /\ Wrap(position.pan + way) \in Int
          /\ InRange(Wrap(position.pan + way)) \/ strayed
      BY <1>1, <3>2 DEF Wrap, InRange
    <3> QED BY <3>3 DEF way
  <2>3. Clamp(position.tilt + velocity.tilt * TiltStep, -TiltMax, TiltMax)
            \in -TiltMax..TiltMax
    <3>1. velocity.tilt * TiltStep \in Int
      BY <2>1, PTZAssumption
    <3>2. /\ position.tilt + velocity.tilt * TiltStep \in Int
          /\ -TiltMax \in Int /\ TiltMax \in Int /\ -TiltMax <= TiltMax
      BY <1>1, <3>1
    <3> QED BY <3>2, ClampBounds
  <2> QED BY <1>3, <1>5, <2>2, <2>3 DEF TickDrive, Position
<1> QED BY <1>2, <1>4, <1>5 DEF Tick

LEMMA TypeStep ==
    ASSUME TypeOK, StatusInv, [Next]_vars
    PROVE  TypeOK'
<1>1. /\ velocity' \in [pan : -1..1, tilt : -1..1, zoom : -1..1]
      /\ moving' \in BOOLEAN /\ flipRemaining' \in 0..PanMax
  BY StatusStep DEF StatusInv, Axes
<1>2. CASE Command
  <2>1. CommandLeaves
    BY <1>2, CommandKeepsPan
  <2>2. autoflipping' \in BOOLEAN /\ flipFrom' \in Int
    <3>1. UNCHANGED flipVars \/ CancelFlip
      BY <1>2 DEF Command, ContinuousMove, AbsoluteMove, RelativeMove, StopMove,
         SetNewPreset, UpdatePreset, GotoPreset, RemovePreset, motionVars
    <3>2. autoflipping' \in BOOLEAN
      BY <3>1 DEF CancelFlip, flipVars, TypeOK
    <3>3. flipFrom' = flipFrom \/ flipFrom' = 0
      BY <3>1 DEF CancelFlip, flipVars
    <3>4. flipFrom \in Int /\ 0 \in Int
      BY DEF TypeOK
    <3> QED BY <3>2, <3>3, <3>4
  <2>3. nextPresetID' \in 0..MaxPresetID
    <3>1. UNCHANGED nextPresetID \/ SetNewPreset
      BY <1>2 DEF Command, ContinuousMove, AbsoluteMove, RelativeMove, StopMove,
         UpdatePreset, GotoPreset, RemovePreset, presetVars
    <3> QED BY <3>1, PTZAssumption DEF SetNewPreset, TypeOK
  <2>4. UNCHANGED reportVars
    BY <1>2 DEF Command, ContinuousMove, AbsoluteMove, RelativeMove, StopMove,
       SetNewPreset, UpdatePreset, GotoPreset, RemovePreset
  <2> QED BY <1>1, <2>1, <2>2, <2>3, <2>4 DEF CommandLeaves, TypeOK, reportVars
<1>3. CASE Tick
  <2>1. position' \in Position /\ (InRange(position'.pan) \/ strayed)
    BY <1>3, PositionInRange
  <2>2. /\ target' \in {target, None}
        /\ UNCHANGED <<presets, nextPresetID, strayed>>
    BY <1>3 DEF Tick, TickAnimate, TickFlip, TickDrive, presetVars
  <2>3. report' \in Status /\ pending' \in BOOLEAN
    <3>1. PICK moves \in BOOLEAN : Report(moves)
      BY <1>3 DEF Tick, TickAnimate, TickFlip, TickDrive
    <3> QED BY <2>1, <3>1 DEF Report, Status
  <2>4. autoflipping' \in BOOLEAN
    <3>1. CASE TickAnimate
      BY <3>1 DEF TickAnimate, flipVars, TypeOK
    <3>2. CASE TickFlip
      BY <3>2 DEF TickFlip
    <3>3. CASE TickDrive
      BY <3>3 DEF TickDrive
    <3> QED BY <1>3, <3>1, <3>2, <3>3 DEF Tick
  <2>5. flipFrom' \in Int
    <3>1. \/ flipFrom' = flipFrom \/ flipFrom' = 0 \/ flipFrom' = position'.pan
      <4>1. CASE TickAnimate
        BY <4>1 DEF TickAnimate, flipVars
      <4>2. CASE TickFlip
        BY <4>2 DEF TickFlip
      <4>3. CASE TickDrive
        BY <4>3 DEF TickDrive
      <4> QED BY <1>3, <4>1, <4>2, <4>3 DEF Tick
    <3>2. position'.pan \in Int /\ flipFrom \in Int /\ 0 \in Int
      BY <2>1 DEF TypeOK, Position
    <3> QED BY <3>1, <3>2
  <2>6. PanKept'
    BY <2>1, <2>2 DEF TypeOK, PanKept
  <2> QED BY <1>1, <2>1, <2>2, <2>3, <2>4, <2>5, <2>6 DEF TypeOK
<1>4. CASE Notify \/ UNCHANGED vars
  <2>1. UNCHANGED <<motionVars, presetVars, report>> /\ pending' \in BOOLEAN
    BY <1>4 DEF Notify, vars, reportVars, TypeOK
  <2> QED BY <2>1 DEF motionVars, flipVars, presetVars, TypeOK, PanKept
<1> QED BY <1>2, <1>3, <1>4 DEF Next
----------------------------------------------------------------------------
(***************************************************************************)
(* The flip and the reports.                                               *)
(***************************************************************************)

\* A step of the flip, over the seam or not, leaves its end where it was.
LEMMA StepsAddUp ==
    ASSUME NEW a \in -PanMax..PanMax, NEW r \in 0..PanMax, NEW s \in 0..PanMax,
           NEW b \in -PanMax..PanMax, s <= r,
           Wrap(Wrap(a + r) - b) = 0
    PROVE  Wrap(Wrap(Wrap(a + s) + (r - s)) - b) = 0
<1>1. \/ Wrap(Wrap(a + s) + (r - s)) = Wrap(a + r)
      \/ Wrap(Wrap(a + s) + (r - s)) = Wrap(a + r) + 2 * PanMax
      \/ Wrap(Wrap(a + s) + (r - s)) = Wrap(a + r) - 2 * PanMax
  BY PTZAssumption DEF Wrap
<1>2. /\ Wrap(a + r) \in -PanMax..PanMax
      /\ Wrap(Wrap(a + s) + (r - s)) \in -PanMax..PanMax
  BY PTZAssumption DEF Wrap
<1>3. ASSUME NEW x \in -PanMax..PanMax
      PROVE  Wrap(x - b) = 0 <=> x = b \/ x = b + 2 * PanMax \/ x = b - 2 * PanMax
  BY PTZAssumption DEF Wrap
<1> DEFINE x == Wrap(a + r)
           y == Wrap(Wrap(a + s) + (r - s))
<1>4. x \in -PanMax..PanMax /\ y \in -PanMax..PanMax
  BY <1>2
<1>5. y = x \/ y = x + 2 * PanMax \/ y = x - 2 * PanMax
  BY <1>1
<1>6. x = b \/ x = b + 2 * PanMax \/ x = b - 2 * PanMax
  BY <1>3, <1>4
<1> HIDE DEF x, y
<1>7. y = b \/ y = b + 2 * PanMax \/ y = b - 2 * PanMax
  BY <1>4, <1>5, <1>6, PTZAssumption
<1>8. Wrap(y - b) = 0
  BY <1>3, <1>4, <1>7
<1> QED BY <1>8 DEF y

LEMMA FlipStepKept ==
    ASSUME TypeOK, FlipIsHalfTurn, [Next]_vars
    PROVE  FlipIsHalfTurn'
<1> SUFFICES ASSUME autoflipping', moving', target' = None
             PROVE  FlipIsHalfTurn'
  BY DEF FlipIsHalfTurn
<1>1. /\ position.pan \in Int /\ position.tilt \in -TiltMax..TiltMax
      /\ velocity \in [pan : -1..1, tilt : -1..1, zoom : -1..1]
      /\ flipRemaining \in 0..PanMax /\ flipFrom \in Int
      /\ PanMax \in Nat \ {0} /\ TiltMax \in Nat \ {0} /\ FlipStep \in Nat \ {0}
      /\ TiltStep \in Nat
  BY PTZAssumption DEF TypeOK, Position
<1>2. CASE Command
  <2>1. UNCHANGED <<motionVars>>
    <3>1. ASSUME NEW v, AnimateTo(v), v # None PROVE FALSE
      BY <3>1 DEF AnimateTo
    <3>2. \A v : ~ContinuousMove(v)
      BY DEF ContinuousMove, CancelFlip
    <3>3. \A p : ~AbsoluteMove(p)
      BY DEF AbsoluteMove, CancelFlip
    <3>4. \A d \in RelInput : ~RelativeMove(d)
      <4> SUFFICES ASSUME NEW d \in RelInput, RelativeMove(d)
                   PROVE  FALSE
        OBVIOUS
      <4> DEFINE goal == [pan  |-> Wrap(position.pan + d.pan),
                          tilt |-> Clamp(position.tilt + d.tilt, -TiltMax, TiltMax),
                          zoom |-> Clamp(position.zoom + d.zoom, 0, ZoomMax)]
      <4>1. goal \in Vector
        <5>1. d.pan \in Int /\ d.tilt \in Int /\ d.zoom \in Int
              /\ position.zoom \in Int /\ ZoomMax \in Int
          BY PTZAssumption DEF Vector, TypeOK, Position
        <5>2. /\ position.pan + d.pan \in Int /\ position.tilt + d.tilt \in Int
              /\ position.zoom + d.zoom \in Int /\ -TiltMax \in Int /\ TiltMax \in Int
              /\ 0 \in Int
          BY <1>1, <5>1
        <5>3. /\ Wrap(position.pan + d.pan) \in Int
              /\ Clamp(position.tilt + d.tilt, -TiltMax, TiltMax) \in Int
              /\ Clamp(position.zoom + d.zoom, 0, ZoomMax) \in Int
          BY <5>1, <5>2, WrapInt, ClampInt
        <5> QED BY <5>3 DEF Vector
      <4>2. AnimateTo(goal)
        BY DEF RelativeMove
      <4> QED BY <3>1, <4>1, <4>2, NoneIsNoVector
    <3>5. ~StopMove /\ \A t : ~GotoPreset(t)
      BY DEF StopMove, GotoPreset, CancelFlip
    <3> QED BY <1>2, <3>2, <3>3, <3>4, <3>5 DEF Command, SetNewPreset,
            UpdatePreset, RemovePreset
  <2> QED BY <2>1 DEF motionVars, flipVars, FlipIsHalfTurn
<1>3. ~TickAnimate
  <2> SUFFICES ASSUME TickAnimate
               PROVE  FALSE
    OBVIOUS
  <2>1. target # None /\ (target' = None => ~moving')
    BY DEF TickAnimate
  <2> QED BY <2>1
<1>4. CASE TickFlip
  <2>1. ~(FlipStep >= flipRemaining)
    BY <1>4 DEF TickFlip
  <2>2. /\ target = None /\ moving /\ autoflipping
        /\ position' = [pan |-> Wrap(position.pan + FlipStep), tilt |-> -TiltMax,
                        zoom |-> Zoomed]
        /\ flipRemaining' = flipRemaining - FlipStep
        /\ flipFrom' = flipFrom /\ velocity' = velocity
    BY <1>4, <2>1 DEF TickFlip
  <2>3. /\ velocity.tilt = -1
        /\ InRange(flipFrom) =>
             /\ InRange(position.pan)
             /\ Wrap(Wrap(position.pan + flipRemaining) - Wrap(flipFrom + PanMax)) = 0
    BY <2>2 DEF FlipIsHalfTurn
  <2>4. FlipStep \in 0..PanMax /\ FlipStep <= flipRemaining
    BY <1>1, <2>1
  <2>5. ASSUME InRange(flipFrom)
        PROVE  /\ InRange(Wrap(position.pan + FlipStep))
               /\ Wrap(Wrap(Wrap(position.pan + FlipStep) + (flipRemaining - FlipStep))
                       - Wrap(flipFrom + PanMax)) = 0
    <3>1. /\ flipFrom \in -PanMax..PanMax /\ position.pan \in -PanMax..PanMax
      BY <2>3, <2>5 DEF InRange
    <3>2. Wrap(flipFrom + PanMax) \in -PanMax..PanMax
      BY <1>1, <3>1 DEF Wrap
    <3>3. InRange(Wrap(position.pan + FlipStep))
      BY <1>1, <2>4, <3>1 DEF Wrap, InRange
    <3> QED BY <1>1, <2>3, <2>4, <2>5, <3>1, <3>2, <3>3, StepsAddUp
  <2>6. flipRemaining - FlipStep > 0
    BY <1>1, <2>1
  <2> QED BY <2>2, <2>3, <2>5, <2>6 DEF FlipIsHalfTurn
<1>5. CASE TickDrive
  <2> DEFINE tilt == position.tilt + velocity.tilt * TiltStep
             pan  == Wrap(position.pan + velocity.pan * PanStep)
  <2>1. /\ tilt < -TiltMax
        /\ position' = [pan |-> pan, tilt |-> Clamp(tilt, -TiltMax, TiltMax),
                        zoom |-> Zoomed]
        /\ flipRemaining' = PanMax /\ flipFrom' = pan
        /\ velocity' = velocity
    BY <1>5 DEF TickDrive
  <2>2. velocity.tilt = -1
    <3>1. velocity.tilt \in -1..1
      BY <1>1
    <3>2. CASE velocity.tilt = 0
      BY <1>1, <2>1, <3>2
    <3>3. CASE velocity.tilt = 1
      BY <1>1, <2>1, <3>3
    <3> QED BY <3>1, <3>2, <3>3
  <2>3. Clamp(tilt, -TiltMax, TiltMax) = -TiltMax
    BY <2>1 DEF Clamp
  <2>4. pan + PanMax \in Int /\ Wrap(Wrap(pan + PanMax) - Wrap(pan + PanMax)) = 0
    <3>1. velocity.pan * PanStep \in Int
      BY <1>1, PTZAssumption
    <3>2. pan \in Int
      BY <1>1, <3>1, WrapInt
    <3>3. Wrap(pan + PanMax) \in Int
      BY <1>1, <3>2, WrapInt
    <3>4. Wrap(pan + PanMax) - Wrap(pan + PanMax) = 0
      BY <3>3
    <3>5. Wrap(0) = 0
      BY PTZAssumption DEF Wrap
    <3> QED BY <1>1, <3>2, <3>4, <3>5
  <2> HIDE DEF tilt, pan
  <2> QED BY <1>1, <2>1, <2>2, <2>3, <2>4 DEF FlipIsHalfTurn
<1>6. CASE Notify \/ UNCHANGED vars
  BY <1>6 DEF Notify, vars, motionVars, flipVars, FlipIsHalfTurn
<1> QED BY <1>2, <1>3, <1>4, <1>5, <1>6 DEF Next, Tick

\* What is reported, and by whom.
LEMMA ReportStep ==
    ASSUME StatusInv, report.position = position, [Next]_vars
    PROVE  /\ report'.position = position'
           /\ report'.moving # moving' =>
                 Command \/ (report.moving # moving /\ ~Tick)
<1>1. CASE Command
  <2>1. UNCHANGED <<position, report>>
    BY <1>1 DEF Command, ContinuousMove, AbsoluteMove, RelativeMove, StopMove,
       SetNewPreset, UpdatePreset, GotoPreset, RemovePreset, motionVars, reportVars
  <2> QED BY <1>1, <2>1
<1>2. CASE Tick
  <2>1. PICK moves \in BOOLEAN : Report(moves) /\ moving' = moves
    <3>1. CASE TickAnimate
      BY <3>1 DEF TickAnimate
    <3>2. CASE TickFlip \/ TickDrive
      BY <3>2 DEF TickFlip, TickDrive, StatusInv, Axes
    <3> QED BY <1>2, <3>1, <3>2 DEF Tick
  <2> QED BY <2>1 DEF Report
<1>3. CASE Notify \/ UNCHANGED vars
  <2>1. UNCHANGED <<position, moving, report>>
    BY <1>3 DEF Notify, vars, motionVars, reportVars
  <2>2. ~Tick \/ report'.moving = moving'
    <3>1. CASE Notify
      BY <3>1 DEF Notify, Tick
    <3>2. CASE UNCHANGED vars
      BY <3>2 DEF vars, reportVars, Tick, TickAnimate, TickFlip, TickDrive, Report
    <3> QED BY <1>3, <3>1, <3>2
  <2> QED BY <2>1, <2>2
<1> QED BY <1>1, <1>2, <1>3 DEF Next

\* Subscribers are told every position, in every interleaving of commands,
\* ticks and calls of onChange; the move status told with it falls behind
\* only by a command, and the next tick that moves the head corrects it.
THEOREM ReportsAreCurrent == Spec => ReportsCurrent
<1> DEFINE Inv == StatusInv /\ report.position = position
           Told == /\ report'.position = position'
                   /\ report'.moving # moving' =>
                         Command \/ (report.moving # moving /\ ~Tick)
<1>1. Init => Inv
  <2>1. Init => report.position = position
    BY DEF Init
  <2> QED BY <2>1, StatusInit
<1>2. Inv /\ [Next]_vars => Inv' /\ [Told]_vars
  BY StatusStep, ReportStep
<1>3. Spec => [][Told]_vars
  <2> HIDE DEF Inv, Told
  <2> QED BY <1>1, <1>2, PTL DEF Spec
<1> QED BY <1>3 DEF ReportsCurrent

LEMMA TypeInit ==
    ASSUME Init
    PROVE  TypeOK
<1>1. StatusInv
  BY StatusInit
<1>2. Home \in Position /\ 0 \in 0..MaxPresetID /\ InRange(Home.pan)
  BY PTZAssumption DEF Home, Position, InRange
<1>3. PanKept
  BY <1>2 DEF Init, PanKept
<1>4. [position |-> Home, moving |-> FALSE] \in Status
  BY <1>2 DEF Status
<1>5. autoflipping \in BOOLEAN /\ strayed \in BOOLEAN /\ pending \in BOOLEAN
  BY DEF Init
<1>6. flipFrom = 0 /\ 0 \in Int
  BY DEF Init
<1>7. /\ position \in Position /\ target \in Position \cup {None}
      /\ presets \in [Token -> Position \cup {None}]
      /\ nextPresetID \in 0..MaxPresetID /\ report \in Status
  BY <1>2, <1>4 DEF Init
<1> QED BY <1>1, <1>3, <1>5, <1>7, <1>6 DEF TypeOK, StatusInv, Axes

\* For every grid, speed and input: tilt and zoom never leave their ranges,
\* pan does so only by an animation whose target lies outside, and every
\* autoflip, however it is interrupted, reverses the tilt at nadir and, begun
\* within the pan range, turns half a circle.
THEOREM FlipsAreHalfTurns == Spec => [](TypeOK /\ FlipIsHalfTurn)
<1> DEFINE Inv == TypeOK /\ StatusInv /\ FlipIsHalfTurn
<1>1. Init => Inv
  BY TypeInit, StatusInit DEF Init, FlipIsHalfTurn
<1>2. Inv /\ [Next]_vars => Inv'
  BY TypeStep, StatusStep, FlipStepKept
<1>3. Inv => TypeOK /\ FlipIsHalfTurn
  OBVIOUS
<1> HIDE DEF Inv
<1> QED BY <1>1, <1>2, <1>3, PTL DEF Spec

\* The range of pan that state.go states holds under a condition on the
\* clients: no relative move is longer than a full turn.  Saved presets,
\* flips and the seam do not break it.
THEOREM PanStaysInRange ==
    ASSUME WithinATurn
    PROVE  Spec => []PanInRange
<1> DEFINE Inv == TypeOK /\ StatusInv /\ ~strayed
<1>1. Init => Inv
  BY TypeInit, StatusInit DEF Init
<1>2. Inv /\ [Next]_vars => Inv'
  <2> SUFFICES ASSUME TypeOK, StatusInv, ~strayed, [Next]_vars
               PROVE  ~strayed'
    BY TypeStep, StatusStep
  <2>1. /\ PanMax \in Nat /\ TiltMax \in Nat /\ ZoomMax \in Nat
        /\ position.pan \in -PanMax..PanMax
    BY PTZAssumption DEF TypeOK, PanKept, InRange
  <2>2. ASSUME NEW p \in AbsInput, AbsoluteMove(p) PROVE ~strayed'
    <3>1. p.pan \in Int
      BY PTZAssumption DEF Vector
    <3>2. InRange(Clamp(p.pan, -PanMax, PanMax))
      BY <2>1, <3>1 DEF Clamp, InRange
    <3> QED BY <2>2, <3>2 DEF AbsoluteMove, AnimateTo
  <2>3. ASSUME NEW d \in RelInput, RelativeMove(d) PROVE ~strayed'
    <3>1. d.pan \in Int /\ d.pan >= -2 * PanMax /\ d.pan <= 2 * PanMax
      BY PTZAssumption DEF Vector, WithinATurn
    <3>2. InRange(Wrap(position.pan + d.pan))
      BY <2>1, <3>1 DEF Wrap, InRange
    <3> QED BY <2>3, <3>2 DEF RelativeMove, AnimateTo
  <2>4. ASSUME NEW t \in Token, GotoPreset(t) PROVE ~strayed'
    <3>1. InRange(presets[t].pan)
      BY <2>4 DEF GotoPreset, TypeOK, PanKept
    <3> QED BY <2>4, <3>1 DEF GotoPreset, AnimateTo
  <2>5. CASE \/ \E v \in VelInput : ContinuousMove(v)
             \/ StopMove \/ SetNewPreset
             \/ \E t \in Token : UpdatePreset(t) \/ RemovePreset(t)
             \/ Tick \/ Notify \/ UNCHANGED vars
    BY <2>5 DEF ContinuousMove, StopMove, SetNewPreset, UpdatePreset, RemovePreset,
       Tick, TickAnimate, TickFlip, TickDrive, Notify, vars, motionVars
  <2> QED BY <2>2, <2>3, <2>4, <2>5 DEF Next, Command
<1>3. Inv => PanInRange
  BY DEF TypeOK, PanKept, PanInRange
<1> HIDE DEF Inv
<1> QED BY <1>1, <1>2, <1>3, PTL DEF Spec
----------------------------------------------------------------------------
(***************************************************************************)
(* Preset tokens.                                                          *)
(***************************************************************************)
\* Tokens that the server has not generated yet and no client makes up are
\* free.
TokensInv ==
    /\ nextPresetID \in 0..MaxPresetID
    /\ presets = [t \in Token |-> presets[t]]
    /\ \A t \in Token : t > nextPresetID /\ t \notin ClientToken => presets[t] = None

LEMMA TokensStep ==
    ASSUME TokensInv, [Next]_vars
    PROVE  /\ TokensInv'
           /\ nextPresetID' # nextPresetID =>
                presets[nextPresetID'] = None \/ nextPresetID' \in ClientToken
<1>1. MaxPresetID \in Nat
  BY PTZAssumption
<1>2. CASE SetNewPreset
  <2>1. /\ nextPresetID < MaxPresetID /\ nextPresetID' = nextPresetID + 1
        /\ presets' = [presets EXCEPT ![nextPresetID + 1] = position]
    BY <1>2 DEF SetNewPreset
  <2>2. nextPresetID + 1 \in Token /\ nextPresetID + 1 > nextPresetID
    BY <1>1, <2>1 DEF TokensInv, Token
  <2>3. \A t \in Token : t > nextPresetID + 1 =>
            t # nextPresetID + 1 /\ t > nextPresetID
    BY <1>1 DEF TokensInv, Token
  <2>4. TokensInv'
    <3>1. /\ presets' = [t \in Token |-> presets'[t]]
          /\ \A t \in Token : t # nextPresetID + 1 => presets'[t] = presets[t]
      BY <2>1 DEF TokensInv
    <3>2. nextPresetID + 1 \in 0..MaxPresetID
      BY <2>2 DEF Token
    <3> QED BY <2>1, <2>3, <3>1, <3>2 DEF TokensInv
  <2> QED BY <2>1, <2>2, <2>4 DEF TokensInv
<1>3. ASSUME NEW t \in Token, UpdatePreset(t) \/ RemovePreset(t)
      PROVE  TokensInv' /\ nextPresetID' = nextPresetID
  <2>1. /\ nextPresetID' = nextPresetID
        /\ \/ presets' = [presets EXCEPT ![t] = None]
           \/ /\ t <= nextPresetID \/ t \in ClientToken
              /\ presets' = [presets EXCEPT ![t] = position]
    BY <1>3 DEF UpdatePreset, RemovePreset
  <2>2. t <= nextPresetID => ~(t > nextPresetID)
    BY <1>1 DEF TokensInv, Token
  <2> QED BY <2>1, <2>2 DEF TokensInv
<1>4. CASE UNCHANGED presetVars
  BY <1>4 DEF presetVars, TokensInv
<1>5. CASE Command
  <2>1. CASE \E v \in VelInput : ContinuousMove(v)
    BY <1>4, <2>1 DEF ContinuousMove
  <2>2. CASE \E v \in AbsInput : AbsoluteMove(v)
    BY <1>4, <2>2 DEF AbsoluteMove
  <2>3. CASE \E v \in RelInput : RelativeMove(v)
    BY <1>4, <2>3 DEF RelativeMove
  <2>4. CASE StopMove \/ \E t \in Token : GotoPreset(t)
    BY <1>4, <2>4 DEF StopMove, GotoPreset
  <2> QED BY <1>2, <1>3, <1>5, <2>1, <2>2, <2>3, <2>4 DEF Command
<1>6. CASE Tick \/ Notify \/ UNCHANGED vars
  BY <1>4, <1>6 DEF Tick, TickAnimate, TickFlip, TickDrive, Notify, vars
<1> QED BY <1>5, <1>6 DEF Next

\* A token the server generates is new, for any number of presets saved,
\* updated and removed, unless a client has made up the same one.
THEOREM TokensAreFresh == Spec => NewTokenIsFresh
<1>1. Init => TokensInv
  <2>1. 0 \in 0..MaxPresetID /\ \A t \in Token : t > 0 => t # 0
    BY PTZAssumption DEF Token
  <2> QED BY <2>1 DEF Init, TokensInv
<1>2. TokensInv /\ [Next]_vars =>
        /\ TokensInv'
        /\ [nextPresetID' # nextPresetID =>
              presets[nextPresetID'] = None \/ nextPresetID' \in ClientToken]_vars
  BY TokensStep
<1> QED BY <1>1, <1>2, PTL DEF Spec, NewTokenIsFresh
=============================================================================
