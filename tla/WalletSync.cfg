\* The tick and the distribution refresh, a POST syncs, a viewer looks.
SPECIFICATION FairSpec
CONSTANTS
    Token = {t1}
    Refresher = {tick, distribution}
    Poster = {post}
    Viewer = {viewer}
    Nobody = Nobody
    Attempts = 3
    MaxTime = 1
INVARIANT
    OverviewShowsSync
PROPERTIES
    EveryRefreshRuns
    IndexedNeverGoesBack
CHECK_DEADLOCK FALSE
