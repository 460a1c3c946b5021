\* One call of elog_output at a time, any setting between its tests; the
\* three tags the table tells apart share two entries.
SPECIFICATION Spec
CONSTANTS
    core = core
    net = net
    longA = longA
    longB = longB
    hello = hello
    NoTag = NoTag
    Tags <- MCTags
    Trunc <- MCTrunc
    Texts <- MCTexts
    TagFilters <- MCTagFilters
    Keywords <- MCKeywords
    Levels = {0, 3, 5}
    Slots = 2
    Setters = 1
SYMMETRY ShortTags
INVARIANTS
    LevelInEffect
    AcceptedJustified
    RejectedJustified
PROPERTY
    ImplementsLevels
