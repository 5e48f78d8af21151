SPECIFICATION FairSpec
CONSTANTS
    c1 = c1
    c2 = c2
    c3 = c3
    Messages <- ThreeMessages
    Conversations <- ThreeConversations
    Conv <- OneEach
    Blobs <- BlobsOfOneEach
    Large = {1, 2}
    Groups = {}
    MaxUploads = 2
    MaxLarge = 1
    Budget = 0
    Clock <- ClockMovesOn
    MaxCrashes = 0
    MaxReconnects = 0
    MaxMeddling = 1
PROPERTIES
    StopEndsJobs
CHECK_DEADLOCK FALSE
