\* Calls over three owners and two activations, in one image.
SPECIFICATION FairSpec
CONSTANTS
  Owners = {o1, o2, o3}
  Frames = {f1, f2}
  Image = image
  Slots <- AllSlots
  In <- Container
  FrameSlots = 2
  MaxCount = 2
  None = none
INVARIANTS HoldingsExact NothingStranded CleanBoundaries
PROPERTIES CleanupEnds
