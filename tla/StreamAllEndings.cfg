SPECIFICATION FairSpec
CONSTANT MaxEvents = 5
INVARIANTS
    TypeOK
    NoEventLost
    CallbacksSerialized
    ChunksCounted
    StatusFollowsErr
PROPERTY
    EverythingEnds
