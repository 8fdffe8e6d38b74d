\* A server and a command line over one file, three runs.
CONSTANTS
    Proc = {d, c}
    Daemon = {d}
    User = {test, anonymous}
    NoAccount = NoAccount
    s1 = s1
    s2 = s2
    a1 = a1
    a2 = a2
    Secret = {s1, s2}
    Attr = {a1, a2}
    Test = test
    Anonymous = anonymous
    TestAccount <- MCTestAccount
    AnonymousAccount <- MCAnonymousAccount
    AllowAnonymous = TRUE
    Missing = Missing
    Broken = Broken
    FirstFile <- MCFirstFile
    MaxRuns = 3
SPECIFICATION Spec
INVARIANTS
    StaleNeedsOverlap
    BrokenIsASave
PROPERTIES
    ActsAsAccounts
