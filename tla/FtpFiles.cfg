\* One session beside others, two accounts, one virtual host, six paths.
CONSTANTS
    Path <- MCPath
    Foreign <- MCForeign
    Opaque <- MCOpaque
    Arg <- MCArg
    UniqueName <- MCUniqueName
    Name = {"alice", "nobody"}
    NoName = NoName
    Account = {"server", "host"}
    NoAccount = NoAccount
    NameOf <- MCNameOf
    HomeOf <- MCHomeOf
    Grants <- MCGrants
    HostOf <- MCHostOf
    Host = {"h"}
    NoHost = NoHost
    RootOf <- MCRootOf
SPECIFICATION Spec
INVARIANTS
    TypeOK
    Confined
    ActsAsLoggedIn
PROPERTIES
    ReplacesOnlyIfRaced
    WhatEndsTheProcess
