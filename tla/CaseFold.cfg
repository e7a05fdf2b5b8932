CONSTANTS
    foo = foo
    FOO = FOO
    bar = bar
    NoItem = NoItem
    Deleted = Deleted
    Items <- Items3
    Names <- Three
    Name <- NameOf
    Folded <- CaseFolded
    Hashes = {0, 2}
    Size = 4
    LoadDivisor = 4
    Sizes = {4, 8}
SPECIFICATION Spec
INVARIANT Counted
CHECK_DEADLOCK FALSE
