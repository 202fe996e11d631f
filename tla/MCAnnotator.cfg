CONSTANTS
    h1 = h1
    h2 = h2
    Download = Download
    Update = Update
    Updated = Updated
    Scan = Scan
    Handlers <- MCHandlers
    Notes <- MCNotes
    StartsOf <- MCStartsOf
    TagOf <- MCTagOf
    CacheSize = 2
    MaxId = 3
SPECIFICATION Spec
INVARIANTS TypeOK CachedStartsOpen RegionsPaired OneEndPerRegion RecentStartsRemembered TagsOwn
SYMMETRY Symmetry
