\* Any line, raw text or dump after any other, the colour and the format set at any time.
SPECIFICATION LineSpec
CONSTANTS
    Size = 16
    StrLen <- MCStrLen
    TagMax = 4
    LineNumMax = 4
    Group = 2
    Wrap = 16
    MaxFmts = 2
    Levels = {3}
    TagLens = {2, 3}
    Fmts <- MCFmts
    Givens <- MCGivens
    Texts = {0, 1, 3, 8, 9, 12, 17}
    Keywords <- MCKeywords
    Headers = {3, 17}
    Widths = {0, 1, 3, 4}
    Sizes = {0, 1, 3, 4, 5, 7, 8, 9, 11, 12, 13, 15}
INVARIANTS
    LineBounded
    OutputWhole
    OutFresh
    KeywordExact
    DumpExact
    FoundAgain
PROPERTY
    LineReturns
