CONSTANTS
    Procs = {p, q}
    Uuids = {u}
    BlendPoints = {blend}
    MountPoints = {m, n}
    NoMount = NoMount
    MaxEntries = 2
    MaxImages = 2
    MaxSubvols = 1
SPECIFICATION Spec
SYMMETRY Symmetry
INVARIANTS
    TypeOK
    ListenerKnows
    AnnouncedIsFound
    RecordMatchesEvents
PROPERTIES
    TwoCallListing
