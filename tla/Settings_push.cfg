SPECIFICATION FairSpec
CONSTANTS
    phone = phone
    n1 = n1
    c1 = c1
    c2 = c2
    c3 = c3
    Slots = {s1}
    Ids = {phone, tv}
    Own = {}
    NoId = NoId
    Controllers = {c1, c2, c3}
    Watched = {c3}
    Voice = Voice
    Vols = {2}
    Names = {n1}
    DefaultVol = 0
    Limit = 1
    Room = 1
    NoName = NoName
    None = None
    MaxConn = 2
    MaxAsked = 2
    MaxTurns = 1
    Starts <- FewStarts
INVARIANTS TypeOK ToldWhatIsSet StoredAsSet NothingMissed
PROPERTIES LateJoinerTold
CHECK_DEADLOCK FALSE
