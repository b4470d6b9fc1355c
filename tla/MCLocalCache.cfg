CONSTANTS
    t = t
    u = u
    Keys <- MCKeys
    Tags = {t, u}
    TagChoices <- MCTagChoices
    SearchPrefixes <- MCPrefixes
    SearchPatterns <- MCPatterns
    MaxKnownKeys = 1
    MaxSize = 1
    MaxKeys = 1
    Scannable = {1}
SPECIFICATION Spec
INVARIANTS
    TagsFindEntries
    IndexIsExact
    MatchesIsDenotes
