SPECIFICATION Spec
CONSTANTS
    t1 = t1
    t2 = t2
    m1 = m1
    m2 = m2
    d1 = d1
    d2 = d2
    Tab = {t1, t2}
    Message = {m1, m2}
    MediaMessage = {m2}
    Device = {d1}
    Capacity = 1
    MaxDrops = 2
    Leavers = {t1}
    MayFailToLoad = TRUE
INVARIANTS
    TypeOK
    QueueBounded
    NothingDiscarded
PROPERTY
    ListedEventuallySent
CHECK_DEADLOCK FALSE
