SPECIFICATION Spec
CONSTANTS
  Controls <- MCControls
  Operations <- MCOperations
  Profiles <- MCProfiles
  Granularities = {"detailed", "layer", "macro", "template"}
  Layers = 2
  TileTokens = 2
  Templates = {"q_proj", "D_K0"}
  Word = 64
INVARIANTS LastMarksTheEnd MacroKeepsLatency
CHECK_DEADLOCK FALSE
