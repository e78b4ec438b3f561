SPECIFICATION Spec
CONSTANTS
  PanMax = 3
  TiltMax = 1
  ZoomMax = 1
  PanStep = 2
  TiltStep = 1
  ZoomStep = 1
  FlipStep = 2
  Horizon = 1
  MaxPresetID = 2
  ClientToken = {1}
  None = None
  SaveAt <- MCSaveAt
  VelInput <- MCVelInput
  AbsInput <- MCAbsInput
  RelInput <- MCRelFar
INVARIANTS PanInRange
