SPECIFICATION FairSpec
CONSTANTS
    one = one
    two = two
    Turns = {t1}
    Memories = {one, two}
    Stranger = Stranger
    Shadow = {}
    Vocabulary <- Says
    MaxWords = 2
    MaxCalls = 1
    Room = 1
INVARIANTS   OneVoice RememberedAsSaid
PROPERTIES TurnsSettle
CHECK_DEADLOCK FALSE
