CONSTANTS
    foo = foo
    foo2 = foo2
    bar = bar
    baz = baz
    NoItem = NoItem
    Deleted = Deleted
    Items <- Four
    Names <- Three
    Name <- NameOf
    Folded <- AsIs
    Hashes = {0, 2}
    Size = 4
    LoadDivisor = 4
    Sizes = {4, 8}
SPECIFICATION Spec
INVARIANT TypeOK
INVARIANT Counted
INVARIANT SearchEnds
INVARIANT OneOfAName
INVARIANT Reachable
PROPERTY IsDictionary
CHECK_DEADLOCK FALSE
