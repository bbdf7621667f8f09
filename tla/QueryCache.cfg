SPECIFICATION EntrySpec
CONSTANTS
    Keys <- MCKeys
    Mutations <- MCMutations
    Tables <- MCTables
    Callers = {c1, c2}
    Reads <- MCReads
    Writes <- MCWrites
    Hits <- MCHits
    KnownGaps <- MCGaps
    RequestsMayFail = TRUE
INVARIANTS NoSilentStale
PROPERTY EventuallyFresh
