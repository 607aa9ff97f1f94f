CONSTANTS
    N = 2
    Devices <- HastyPeer
SPECIFICATION FairSpec
PROPERTY ValidatesTransferredImage
