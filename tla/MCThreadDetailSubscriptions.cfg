\* Two threads of one environment, two consumers, room for one entry.
SPECIFICATION Spec
CONSTANTS
    t1 = t1
    t2 = t2
    e1 = e1
    Thread = {t1, t2}
    Environment = {e1}
    EnvironmentOf <- OneEnvironment
    Consumer = {chat, sidebar1}
    NoEntry = NoEntry
    Generation = {1, 2}
    MaxCached = 1
    MaxLost = 1
SYMMETRY Symmetric
INVARIANTS
    RefCountIsExact
    NoLeakedSubscription
PROPERTIES
    StickyWhileActive
