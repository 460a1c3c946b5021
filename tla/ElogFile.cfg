\* Two writers and two names, up to three rotated files.
SPECIFICATION Spec
CONSTANTS
    Writers = {w1, w2}
    Controller = ctl
    NoOne = NoOne
    NoName = NoName
    Log = log
    Other = other
    Names <- MCNames
    Builds <- MCBuilds
    Configs <- MCConfigs
    MaxFiles = 3
    MaxWrites <- MCMaxWrites
INVARIANTS
    LastLinesInOrder
PROPERTIES
    OnlyOldestRemoved
    SizeBounded
