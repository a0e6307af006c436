SPECIFICATION Spec
CONSTANTS
  Link = {"body"}
  Joint = {"fixed", "hinge", "universal"}
  DOF <- Degrees
  NoSuch = "other"
  Model = "model"
  MaxEntries = 2
  MaxMoves = 1
PROPERTIES OthersAreApplied ReplyTells OtherComponentKept
