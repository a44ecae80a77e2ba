SPECIFICATION Spec
CONSTANTS
  RenderBuffers = 3
  ParamsOf <- AAB
  Disturbances = 2
INVARIANTS
  BuffersConserved
  OverlayOnItsPicture
  MatchesRenderer
PROPERTIES
  OrderKept
  ReconfigureDropsNothing
