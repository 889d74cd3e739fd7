SPECIFICATION Spec
CONSTANTS
    Requesters = {r1}
    Core <- MCCore
    Plugins <- MCPlugins
    Configurations <- MCConfigurations
    RoutesOf <- MCRoutesOf
    Requests <- MCRequests
    NoPlugin = NoPlugin
    Daemons = {d1, d2}
    Tools = {tool}
    HistoryLength = 1
    Times = {1, 2}
    MaxEvents = 5
    Nobody = Nobody
SYMMETRY Symmetry
INVARIANT TypeOK
INVARIANT MissedOnlyByRemoval
INVARIANT FoundIsLoaded
INVARIANT RoutesOfPlugins
INVARIANT PidfileTells
INVARIANT HistoryKept
