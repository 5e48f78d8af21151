SPECIFICATION Spec
CONSTANTS
    c1 = c1
    c2 = c2
    c3 = c3
    Messages <- ThreeMessages
    Conversations <- TwoConversations
    Conv <- FileTextFile
    Blobs <- BlobsOfFileTextFile
    Large = {1, 3}
    Groups = {c1}
    MaxUploads = 2
    MaxLarge = 1
    Budget = 1
    Clock <- ClockWithTies
    MaxCrashes = 1
    MaxReconnects = 1
    MaxMeddling = 2
PROPERTY
    SentAsEnrolled
CHECK_DEADLOCK FALSE
