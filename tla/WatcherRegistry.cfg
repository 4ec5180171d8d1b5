SPECIFICATION Spec
CONSTANTS
    Clients = {c1, c2}
    Keys = {k1, k2}
    Off = Off
    Broken = Broken
    Watchers = {w1, w2}
    Slots = {s1, s2}
    None = None
    MaxEdits = 1
    MaxResets = 1
INVARIANTS OneWatcher NoPhantomWatcher NewestConfigActs CachedConfigCurrent ClientKeepsWatcher StopsWithLastClient
SYMMETRY Interchangeable
CHECK_DEADLOCK FALSE
