SPECIFICATION MCSpec
CONSTANTS
    NoMsg = NoMsg
    MaxStream = 60
    CoeffX = 13457
    CoeffY = 1412
    CoeffZ = 6212
    Offset = 8
    UintSize = 256
    LoadNum = 31
    LoadDen = 2
    Sites <- MCSites
    Cutoffs = {5, 10}
    MaxPoints = 3
    Boxes <- MCBoxes
    Distances = {4, 5, 7, 10, 12}
    Places <- MCPlaces
    MaxPlaced = 3
    MaxLayers = 3
    One = 10
INVARIANTS OneOfFivePasses PrintedInTurn SearchExact ListComplete NearPairsMeetOnce
