\* One server alone: two connections, and whatever ends it in between.
CONSTANTS
    Proc = {d}
    Daemon = {d}
    User = {test, anonymous}
    NoAccount = NoAccount
    s1 = s1
    s2 = s2
    a1 = a1
    a2 = a2
    Secret = {s1, s2}
    Attr = {a1, a2}
    Test = test
    Anonymous = anonymous
    TestAccount <- MCTestAccount
    AnonymousAccount <- MCAnonymousAccount
    AllowAnonymous = TRUE
    Missing = Missing
    Broken = Broken
    FirstFile <- MCFirstFile
    MaxRuns = 2
SPECIFICATION Spec
PROPERTY UsersSurvive
