SPECIFICATION Spec
CONSTANTS
    BufLen = 5
    Chars = {a, b}
    NL = NL
    NUL = NUL
    MaxKeys = 6
INVARIANT InputIntact
PROPERTY LineTaken
