SPECIFICATION Spec
CONSTANTS
    t1 = t1
    t2 = t2
    Threads = {t1, t2}
    Items <- MCItems
    Empty = Empty
    NoItem = NoItem
    NoThread = NoThread
    InitSize = 0
    MaxPush = 6
INVARIANTS
    HeapOrder
PROPERTIES
    ImplementsMinQueue
