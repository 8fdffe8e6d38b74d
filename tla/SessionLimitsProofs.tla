-------------------------- MODULE SessionLimitsProofs --------------------------
(***************************************************************************)
(* Theorems about SessionLimits for every number of connections, every     *)
(* limit and whatever the clients send.                                    *)
(*                                                                         *)
(* A login that passes a test enters a window, and raises the count when   *)
(* it leaves it: count plus window is what the test bounds, and a window   *)
(* has no more members than there are connections.                         *)
(***************************************************************************)
EXTENDS SessionLimits, FiniteSetTheorems, TLAPS

UserBound(u) ==
    MaxSessionsPerUser > 0 =>
        countUser[u] + Cardinality(UserWindow(u)) <= MaxSessionsPerUser - 1 + Cardinality(Conn)

HostBound(h) ==
    MaxSessions > 0 =>
        countHost[h] + Cardinality(HostWindow(h)) <= MaxSessions - 1 + Cardinality(Conn)

IInv ==
    /\ TypeOK
    /\ \A u \in User : UserBound(u)
    /\ \A h \in Host : HostBound(h)

\* A window is a finite set of connections.
LEMMA WindowsAreFinite ==
  ASSUME NEW S \in SUBSET Conn
  PROVE  /\ IsFiniteSet(S)
         /\ Cardinality(S) \in Nat
         /\ Cardinality(Conn) \in Nat
         /\ Cardinality(S) <= Cardinality(Conn)
BY ConnIsFinite, FS_Subset, FS_CardinalityType

\* A window that loses members is no larger, and one that loses a given member
\* is smaller by one.
LEMMA WindowShrinks ==
  ASSUME NEW S \in SUBSET Conn, NEW T \in SUBSET S
  PROVE  /\ Cardinality(T) <= Cardinality(S)
         /\ \A c \in S : T \subseteq S \ {c} => Cardinality(T) <= Cardinality(S) - 1
<1>1. Cardinality(T) <= Cardinality(S)
  BY WindowsAreFinite, FS_Subset
<1>2. ASSUME NEW c \in S, T \subseteq S \ {c}
      PROVE  Cardinality(T) <= Cardinality(S) - 1
  <2>1. Cardinality(S \ {c}) = Cardinality(S) - 1
    BY WindowsAreFinite, FS_RemoveElement
  <2>2. Cardinality(T) <= Cardinality(S \ {c})
    BY <1>2, WindowsAreFinite, FS_Subset
  <2> QED
    BY <2>1, <2>2
<1> QED
  BY <1>1, <1>2

LEMMA InitIInv == Init => IInv
<1> SUFFICES ASSUME Init PROVE IInv
  OBVIOUS
<1> USE DEF Init
<1>1. TypeOK
  BY DEF TypeOK, Place
<1>2. (\A u \in User : UserWindow(u) = {}) /\ (\A h \in Host : HostWindow(h) = {})
  BY DEF UserWindow, HostWindow
<1>3. Cardinality({}) = 0 /\ Cardinality(Conn) \in Nat
  BY FS_EmptySet, WindowsAreFinite
<1>4. ASSUME NEW u \in User PROVE UserBound(u)
  <2>1. Cardinality(UserWindow(u)) = 0 /\ countUser[u] = 0
    BY <1>2, <1>3
  <2> QED
    BY <1>3, <2>1, LimitsAreNat DEF UserBound
<1>5. ASSUME NEW h \in Host PROVE HostBound(h)
  <2>1. Cardinality(HostWindow(h)) = 0 /\ countHost[h] = 0
    BY <1>2, <1>3
  <2> QED
    BY <1>3, <2>1, LimitsAreNat DEF HostBound
<1> QED
  BY <1>1, <1>4, <1>5 DEF IInv

\* Where no count rises and no window grows, the bounds stay.
LEMMA QuietStep ==
  ASSUME IInv, TypeOK',
         \A u \in User : countUser'[u] <= countUser[u] /\ UserWindow(u)' \subseteq UserWindow(u),
         \A h \in Host : countHost'[h] <= countHost[h] /\ HostWindow(h)' \subseteq HostWindow(h)
  PROVE  IInv'
<1>1. ASSUME NEW u \in User PROVE UserBound(u)'
  <2>1. UserWindow(u) \in SUBSET Conn
    BY DEF UserWindow
  <2>2. Cardinality(UserWindow(u)') <= Cardinality(UserWindow(u))
    BY <2>1, WindowShrinks
  <2>3. /\ Cardinality(UserWindow(u)) \in Nat /\ Cardinality(UserWindow(u)') \in Nat
        /\ Cardinality(Conn) \in Nat
    BY <2>1, WindowsAreFinite
  <2> QED
    BY <2>2, <2>3, LimitsAreNat DEF IInv, UserBound, TypeOK
<1>2. ASSUME NEW h \in Host PROVE HostBound(h)'
  <2>1. HostWindow(h) \in SUBSET Conn
    BY DEF HostWindow
  <2>2. Cardinality(HostWindow(h)') <= Cardinality(HostWindow(h))
    BY <2>1, WindowShrinks
  <2>3. /\ Cardinality(HostWindow(h)) \in Nat /\ Cardinality(HostWindow(h)') \in Nat
        /\ Cardinality(Conn) \in Nat
    BY <2>1, WindowsAreFinite
  <2> QED
    BY <2>2, <2>3, LimitsAreNat DEF IInv, HostBound, TypeOK
<1> QED
  BY <1>1, <1>2 DEF IInv

\* Every step but a login's own leaves counts and windows alone or lowers them.
LEMMA OtherStepsAreQuiet ==
  ASSUME IInv, NEW c \in Conn,
         \/ Connect(c) \/ (\E u \in User : HandleUSER(c, u)) \/ (\E h \in Host : HandleHOST(c, h))
         \/ RaiseFlag(c) \/ Leave(c) \/ Stop(c) \/ Destroy(c)
  PROVE  IInv'
<1> USE DEF IInv, TypeOK, Place, Handled
<1>1. CASE Connect(c) \/ RaiseFlag(c) \/ Leave(c)
  <2> USE <1>1 DEF Connect, RaiseFlag, Leave
  <2>1. TypeOK'
    OBVIOUS
  <2>2. \A u \in User : UserWindow(u)' \subseteq UserWindow(u)
    BY DEF UserWindow
  <2>3. \A h \in Host : HostWindow(h)' \subseteq HostWindow(h)
    BY DEF HostWindow
  <2> QED
    BY <2>1, <2>2, <2>3, QuietStep
<1>2. CASE (\E u \in User : HandleUSER(c, u)) \/ (\E h \in Host : HandleHOST(c, h))
  <2> USE <1>2 DEF HandleUSER, HandleHOST
  <2>1. TypeOK'
    OBVIOUS
  <2>2. \A u \in User : UserWindow(u)' \subseteq UserWindow(u)
    BY DEF UserWindow
  <2>3. \A h \in Host : HostWindow(h)' \subseteq HostWindow(h)
    BY DEF HostWindow
  <2> QED
    BY <2>1, <2>2, <2>3, QuietStep
<1>3. CASE Stop(c) \/ Destroy(c)
  <2>1. GiveBack(c)
    BY <1>3 DEF Stop, Destroy
  <2>2. /\ countUser' \in [User -> Nat] /\ \A u \in User : countUser'[u] <= countUser[u]
        /\ countHost' \in [Host -> Nat] /\ \A h \in Host : countHost'[h] <= countHost[h]
        /\ registered' \in [Conn -> BOOLEAN]
    BY <2>1 DEF GiveBack, UnregisterSession
  <2>3. TypeOK'
    BY <1>3, <2>2 DEF Stop, Destroy
  <2>4. \A u \in User : UserWindow(u)' \subseteq UserWindow(u)
    BY <1>3 DEF Stop, Destroy, UserWindow
  <2>5. \A h \in Host : HostWindow(h)' \subseteq HostWindow(h)
    BY <1>3 DEF Stop, Destroy, HostWindow
  <2> QED
    BY <2>2, <2>3, <2>4, <2>5, QuietStep
<1> QED
  BY <1>1, <1>2, <1>3

\* Passing the user's limit: the window gains a member, and the count it was
\* compared with leaves room for all connections at once.
LEMMA CheckUserKeepsIInv ==
  ASSUME IInv, NEW c \in Conn, CheckUser(c)
  PROVE  IInv'
<1> USE DEF IInv, TypeOK, Place, Handled
<1>1. TypeOK'
  BY DEF CheckUser
<1>2. \A h \in Host : countHost'[h] <= countHost[h] /\ HostWindow(h)' \subseteq HostWindow(h)
  BY DEF CheckUser, HostWindow
<1>3. ASSUME NEW u \in User PROVE UserBound(u)'
  <2>1. CASE u = name[c] /\ (MaxSessionsPerUser > 0 => countUser[u] < MaxSessionsPerUser)
    <3>1. Cardinality(UserWindow(u)') \in Nat /\ Cardinality(Conn) \in Nat
          /\ Cardinality(UserWindow(u)') <= Cardinality(Conn)
      BY WindowsAreFinite DEF UserWindow
    <3>2. countUser'[u] = countUser[u] /\ countUser[u] \in Nat
      BY DEF CheckUser
    <3> QED
      BY <2>1, <3>1, <3>2, LimitsAreNat DEF UserBound
  <2>2. CASE ~(u = name[c] /\ (MaxSessionsPerUser > 0 => countUser[u] < MaxSessionsPerUser))
    <3>1. UserWindow(u)' \subseteq UserWindow(u)
      BY <2>2, LimitsAreNat DEF CheckUser, UserWindow
    <3>2. Cardinality(UserWindow(u)') <= Cardinality(UserWindow(u))
      BY <3>1, WindowShrinks DEF UserWindow
    <3>3. /\ Cardinality(UserWindow(u)) \in Nat /\ Cardinality(UserWindow(u)') \in Nat
          /\ Cardinality(Conn) \in Nat
      BY WindowsAreFinite DEF UserWindow
    <3> QED
      BY <3>2, <3>3, LimitsAreNat DEF UserBound, CheckUser
  <2> QED
    BY <2>1, <2>2
<1>4. ASSUME NEW h \in Host PROVE HostBound(h)'
  <2>1. Cardinality(HostWindow(h)') <= Cardinality(HostWindow(h))
    BY <1>2, WindowShrinks DEF HostWindow
  <2>2. /\ Cardinality(HostWindow(h)) \in Nat /\ Cardinality(HostWindow(h)') \in Nat
        /\ Cardinality(Conn) \in Nat
    BY WindowsAreFinite DEF HostWindow
  <2> QED
    BY <2>1, <2>2, LimitsAreNat DEF HostBound, CheckUser
<1> QED
  BY <1>1, <1>3, <1>4

\* Passing the host's limit is the same for the host's window; the connection
\* stays in the user's, or leaves it when it is refused.
LEMMA CheckHostKeepsIInv ==
  ASSUME IInv, NEW c \in Conn, CheckHost(c)
  PROVE  IInv'
<1> USE DEF IInv, TypeOK, Place, Handled
<1>1. TypeOK'
  BY DEF CheckHost
<1>2. ASSUME NEW u \in User PROVE UserBound(u)'
  <2>1. UserWindow(u)' \subseteq UserWindow(u)
    BY DEF CheckHost, UserWindow
  <2>2. Cardinality(UserWindow(u)') <= Cardinality(UserWindow(u))
    BY <2>1, WindowShrinks DEF UserWindow
  <2>3. /\ Cardinality(UserWindow(u)) \in Nat /\ Cardinality(UserWindow(u)') \in Nat
        /\ Cardinality(Conn) \in Nat
    BY WindowsAreFinite DEF UserWindow
  <2> QED
    BY <2>2, <2>3, LimitsAreNat DEF UserBound, CheckHost
<1>3. ASSUME NEW h \in Host PROVE HostBound(h)'
  <2>1. /\ Cardinality(HostWindow(h)) \in Nat /\ Cardinality(HostWindow(h)') \in Nat
        /\ Cardinality(Conn) \in Nat /\ Cardinality(HostWindow(h)') <= Cardinality(Conn)
        /\ countHost'[h] = countHost[h] /\ countHost[h] \in Nat
    BY WindowsAreFinite DEF HostWindow, CheckHost
  <2>2. CASE h = vhost[c] /\ (MaxSessions > 0 => countHost[h] < MaxSessions)
    BY <2>1, <2>2, LimitsAreNat DEF HostBound
  <2>3. CASE ~(h = vhost[c] /\ (MaxSessions > 0 => countHost[h] < MaxSessions))
    <3>1. HostWindow(h)' \subseteq HostWindow(h)
      BY <2>3, LimitsAreNat, NoNameIsNoName DEF CheckHost, HostWindow
    <3>2. Cardinality(HostWindow(h)') <= Cardinality(HostWindow(h))
      BY <3>1, WindowShrinks DEF HostWindow
    <3> QED
      BY <2>1, <3>2, LimitsAreNat DEF HostBound
  <2> QED
    BY <2>2, <2>3
<1> QED
  BY <1>1, <1>2, <1>3

\* Registration trades one member of the window for one of the count.
LEMMA RegisterKeepsIInv ==
  ASSUME IInv, NEW c \in Conn, Register(c)
  PROVE  IInv'
<1> USE DEF IInv, TypeOK, Place
<1>1. TypeOK'
  BY DEF Register, RegisterSession
<1>2. ASSUME NEW u \in User PROVE UserBound(u)'
  <2>1. /\ Cardinality(UserWindow(u)) \in Nat /\ Cardinality(UserWindow(u)') \in Nat
        /\ Cardinality(Conn) \in Nat
    BY WindowsAreFinite DEF UserWindow
  <2>2. CASE u = name[c]
    <3>1. c \in UserWindow(u) /\ UserWindow(u)' \subseteq UserWindow(u) \ {c}
      BY <2>2 DEF Register, UserWindow
    <3>2. Cardinality(UserWindow(u)') <= Cardinality(UserWindow(u)) - 1
      BY <3>1, WindowShrinks DEF UserWindow
    <3>3. countUser'[u] = countUser[u] + 1
      BY <2>2 DEF Register, RegisterSession
    <3> QED
      BY <2>1, <3>2, <3>3, LimitsAreNat DEF UserBound
  <2>3. CASE u # name[c]
    <3>1. UserWindow(u)' = UserWindow(u)
      BY <2>3 DEF Register, UserWindow
    <3>2. countUser'[u] = countUser[u]
      BY <2>3 DEF Register, RegisterSession
    <3> QED
      BY <2>1, <3>1, <3>2 DEF UserBound
  <2> QED
    BY <2>2, <2>3
<1>3. ASSUME NEW h \in Host PROVE HostBound(h)'
  <2>1. /\ Cardinality(HostWindow(h)) \in Nat /\ Cardinality(HostWindow(h)') \in Nat
        /\ Cardinality(Conn) \in Nat
    BY WindowsAreFinite DEF HostWindow
  <2>2. CASE h = vhost[c]
    <3>1. c \in HostWindow(h) /\ HostWindow(h)' \subseteq HostWindow(h) \ {c}
      BY <2>2 DEF Register, HostWindow
    <3>2. Cardinality(HostWindow(h)') <= Cardinality(HostWindow(h)) - 1
      BY <3>1, WindowShrinks DEF HostWindow
    <3>3. countHost'[h] = countHost[h] + 1
      BY <2>2 DEF Register, RegisterSession
    <3> QED
      BY <2>1, <3>2, <3>3, LimitsAreNat DEF HostBound
  <2>3. CASE h # vhost[c]
    <3>1. HostWindow(h)' = HostWindow(h)
      BY <2>3 DEF Register, HostWindow
    <3>2. countHost'[h] = countHost[h]
      BY <2>3 DEF Register, RegisterSession
    <3> QED
      BY <2>1, <3>1, <3>2 DEF HostBound
  <2> QED
    BY <2>2, <2>3
<1> QED
  BY <1>1, <1>2, <1>3

LEMMA NextKeepsIInv == IInv /\ [Next]_vars => IInv'
<1> SUFFICES ASSUME IInv, [Next]_vars PROVE IInv'
  OBVIOUS
<1>1. CASE UNCHANGED vars
  BY <1>1 DEF IInv, TypeOK, UserBound, HostBound, UserWindow, HostWindow, vars
<1>2. CASE Next
  BY <1>2, OtherStepsAreQuiet, CheckUserKeepsIInv, CheckHostKeepsIInv, RegisterKeepsIInv DEF Next
<1> QED
  BY <1>1, <1>2

\* However logins interleave, and whatever clients send between and after them, a
\* user's or host's count passes its limit by less than the number of connections.
THEOREM LimitsAreNearlyKept == Spec => []OvershootBound
<1>1. IInv => OvershootBound
  BY DEF IInv, UserBound, HostBound, OvershootBound
<1> QED
  BY <1>1, InitIInv, NextKeepsIInv, PTL DEF Spec

\* The variables keep their types.
THEOREM TypeCorrect == Spec => []TypeOK
<1>1. IInv => TypeOK
  BY DEF IInv
<1> QED
  BY <1>1, InitIInv, NextKeepsIInv, PTL DEF Spec

------------------------------------------------------------------------------
(* The counts against the sessions.  session_registered_ goes up one step   *)
(* after the count: until then the session is one of Flagging.              *)

Registered(names, x) == {c \in Conn : registered[c] /\ names[c] = x}
Flagging(names, x)   == {c \in Conn : at[c] = "flag" /\ names[c] = x}
Sessions(names, x)   == Cardinality(Registered(names, x)) + Cardinality(Flagging(names, x))

Counted(count, names, x) ==
    /\ ~renamed => count[x] >= Sessions(names, x)
    /\ ~renamed /\ ~repeated => count[x] = Sessions(names, x)

\* A login that is on its way is the first of its connection, or repeated is set.
FirstLogins ==
    \A c \in Conn : at[c] \in {"checkHost", "register", "flag"} /\ registered[c] => repeated

CountInv ==
    /\ IInv
    /\ FirstLogins
    /\ \A u \in User : Counted(countUser, name, u)
    /\ \A h \in Host : Counted(countHost, vhost, h)

\* One connection more or less in a set of them.
LEMMA OneMoreOneLess ==
  ASSUME NEW S \in SUBSET Conn, NEW c \in Conn
  PROVE  /\ Cardinality(S) \in Nat
         /\ c \in S => Cardinality(S \cup {c}) = Cardinality(S)
         /\ c \notin S => Cardinality(S \cup {c}) = Cardinality(S) + 1
         /\ c \in S => Cardinality(S \ {c}) = Cardinality(S) - 1
<1>1. IsFiniteSet(S) /\ Cardinality(S) \in Nat
  BY WindowsAreFinite
<1>2. c \in S => S \cup {c} = S
  OBVIOUS
<1> QED
  BY <1>1, <1>2, FS_AddElement, FS_RemoveElement

LEMMA InitCounts == Init => CountInv
<1> SUFFICES ASSUME Init PROVE CountInv
  OBVIOUS
<1>1. IInv /\ FirstLogins
  BY InitIInv DEF Init, FirstLogins
<1>2. /\ \A u \in User : Registered(name, u) = {} /\ Flagging(name, u) = {} /\ countUser[u] = 0
      /\ \A h \in Host : Registered(vhost, h) = {} /\ Flagging(vhost, h) = {} /\ countHost[h] = 0
  BY DEF Init, Registered, Flagging
<1>3. Cardinality({}) = 0
  BY FS_EmptySet
<1>4. 0 + 0 = 0
  OBVIOUS
<1>6. /\ \A u \in User : Sessions(name, u) = 0
      /\ \A h \in Host : Sessions(vhost, h) = 0
  BY <1>2, <1>3, <1>4, Zenon DEF Sessions
<1>5. /\ \A u \in User : Counted(countUser, name, u)
      /\ \A h \in Host : Counted(countHost, vhost, h)
  BY <1>2, <1>6 DEF Counted
<1> QED
  BY <1>1, <1>5 DEF CountInv

\* Where a count and the sets of its sessions stay, it stays right.
LEMMA QuietCounts ==
  ASSUME CountInv, IInv', FirstLogins', renamed => renamed', repeated => repeated',
         \A u \in User : renamed' \/ /\ countUser'[u] = countUser[u]
                                     /\ Registered(name, u)' = Registered(name, u)
                                     /\ Flagging(name, u)' = Flagging(name, u),
         \A h \in Host : renamed' \/ /\ countHost'[h] = countHost[h]
                                     /\ Registered(vhost, h)' = Registered(vhost, h)
                                     /\ Flagging(vhost, h)' = Flagging(vhost, h)
  PROVE  CountInv'
<1>1. ASSUME NEW u \in User PROVE Counted(countUser, name, u)'
  BY DEF CountInv, Counted, Sessions
<1>2. ASSUME NEW h \in Host PROVE Counted(countHost, vhost, h)'
  BY DEF CountInv, Counted, Sessions
<1> QED
  BY <1>1, <1>2 DEF CountInv

LEMMA OtherStepsCount ==
  ASSUME CountInv, IInv', NEW c \in Conn,
         \/ Connect(c) \/ (\E u \in User : HandleUSER(c, u)) \/ (\E h \in Host : HandleHOST(c, h))
         \/ CheckUser(c) \/ CheckHost(c) \/ Leave(c)
  PROVE  CountInv'
<1> USE DEF CountInv, IInv, TypeOK, Handled
<1>1. CASE Connect(c) \/ CheckUser(c) \/ CheckHost(c) \/ Leave(c)
  <2> USE <1>1 DEF Connect, CheckUser, CheckHost, Leave
  <2>1. FirstLogins' /\ (renamed => renamed') /\ (repeated => repeated')
    BY DEF FirstLogins
  <2>2. \A u \in User : /\ countUser'[u] = countUser[u]
                        /\ Registered(name, u)' = Registered(name, u)
                        /\ Flagging(name, u)' = Flagging(name, u)
    BY DEF Registered, Flagging
  <2>3. \A h \in Host : /\ countHost'[h] = countHost[h]
                        /\ Registered(vhost, h)' = Registered(vhost, h)
                        /\ Flagging(vhost, h)' = Flagging(vhost, h)
    BY DEF Registered, Flagging
  <2> QED
    BY <2>1, <2>2, <2>3, QuietCounts
<1>2. CASE (\E u \in User : HandleUSER(c, u)) \/ (\E h \in Host : HandleHOST(c, h))
  <2> USE <1>2 DEF HandleUSER, HandleHOST
  <2>1. FirstLogins' /\ (renamed => renamed') /\ (repeated => repeated')
    BY DEF FirstLogins
  <2>2. \A u \in User : renamed' \/ /\ countUser'[u] = countUser[u]
                                    /\ Registered(name, u)' = Registered(name, u)
                                    /\ Flagging(name, u)' = Flagging(name, u)
    BY DEF Registered, Flagging
  <2>3. \A h \in Host : renamed' \/ /\ countHost'[h] = countHost[h]
                                    /\ Registered(vhost, h)' = Registered(vhost, h)
                                    /\ Flagging(vhost, h)' = Flagging(vhost, h)
    BY DEF Registered, Flagging
  <2> QED
    BY <2>1, <2>2, <2>3, QuietCounts
<1> QED
  BY <1>1, <1>2

\* registerSession() counts the session that begins to raise its flag.
LEMMA RegisterCounts ==
  ASSUME CountInv, IInv', NEW c \in Conn, Register(c)
  PROVE  CountInv'
<1> USE DEF IInv, TypeOK
<1>1. FirstLogins' /\ (renamed => renamed') /\ (repeated => repeated')
  BY DEF CountInv, FirstLogins, Register
<1>2. ASSUME NEW u \in User PROVE Counted(countUser, name, u)'
  <2> DEFINE R == Registered(name, u)
             F == Flagging(name, u)
  <2>1. R \in SUBSET Conn /\ F \in SUBSET Conn /\ countUser[u] \in Nat /\ Counted(countUser, name, u)
    BY DEF Registered, Flagging, CountInv
  <2>2. Cardinality(R) \in Nat /\ Cardinality(F) \in Nat
    BY <2>1, OneMoreOneLess
  <2>3. R' = R
    BY DEF Register, Registered
  <2>4. CASE u = name[c]
    <3>1. c \notin F /\ F' = F \cup {c} /\ countUser'[u] = countUser[u] + 1
      BY <2>4 DEF Register, RegisterSession, Flagging
    <3> HIDE DEF R, F
    <3>2. Cardinality(F') = Cardinality(F) + 1
      BY <2>1, <3>1, OneMoreOneLess
    <3>3. Sessions(name, u)' = Sessions(name, u) + 1 /\ Sessions(name, u) \in Nat
      BY <2>2, <2>3, <3>2 DEF Sessions, R, F
    <3> QED
      BY <1>1, <2>1, <3>1, <3>3 DEF Counted
  <2>5. CASE u # name[c]
    <3>1. F' = F /\ countUser'[u] = countUser[u]
      BY <2>5 DEF CountInv, Register, RegisterSession, Flagging
    <3> QED
      BY <1>1, <2>1, <2>3, <3>1 DEF Counted, Sessions
  <2> QED
    BY <2>4, <2>5
<1>3. ASSUME NEW h \in Host PROVE Counted(countHost, vhost, h)'
  <2> DEFINE R == Registered(vhost, h)
             F == Flagging(vhost, h)
  <2>1. R \in SUBSET Conn /\ F \in SUBSET Conn /\ countHost[h] \in Nat /\ Counted(countHost, vhost, h)
    BY DEF Registered, Flagging, CountInv
  <2>2. Cardinality(R) \in Nat /\ Cardinality(F) \in Nat
    BY <2>1, OneMoreOneLess
  <2>3. R' = R
    BY DEF Register, Registered
  <2>4. CASE h = vhost[c]
    <3>1. c \notin F /\ F' = F \cup {c} /\ countHost'[h] = countHost[h] + 1
      BY <2>4 DEF Register, RegisterSession, Flagging
    <3> HIDE DEF R, F
    <3>2. Cardinality(F') = Cardinality(F) + 1
      BY <2>1, <3>1, OneMoreOneLess
    <3>3. Sessions(vhost, h)' = Sessions(vhost, h) + 1 /\ Sessions(vhost, h) \in Nat
      BY <2>2, <2>3, <3>2 DEF Sessions, R, F
    <3> QED
      BY <1>1, <2>1, <3>1, <3>3 DEF Counted
  <2>5. CASE h # vhost[c]
    <3>1. F' = F /\ countHost'[h] = countHost[h]
      BY <2>5 DEF CountInv, Register, RegisterSession, Flagging
    <3> QED
      BY <1>1, <2>1, <2>3, <3>1 DEF Counted, Sessions
  <2> QED
    BY <2>4, <2>5
<1> QED
  BY <1>1, <1>2, <1>3 DEF CountInv

\* Its flag is up: one session less of Flagging, and one more that is registered,
\* unless the connection was registered before.
LEMMA RaiseFlagCounts ==
  ASSUME CountInv, IInv', NEW c \in Conn, RaiseFlag(c)
  PROVE  CountInv'
<1> USE DEF IInv, TypeOK
<1>1. FirstLogins' /\ (renamed => renamed') /\ (repeated => repeated')
  BY DEF CountInv, FirstLogins, RaiseFlag, Handled
<1>2. ASSUME NEW u \in User PROVE Counted(countUser, name, u)'
  <2> DEFINE R == Registered(name, u)
             F == Flagging(name, u)
  <2>1. R \in SUBSET Conn /\ F \in SUBSET Conn /\ countUser[u] \in Nat /\ Counted(countUser, name, u)
    BY DEF Registered, Flagging, CountInv
  <2>2. Cardinality(R) \in Nat /\ Cardinality(F) \in Nat
    BY <2>1, OneMoreOneLess
  <2>3. countUser'[u] = countUser[u]
    BY DEF RaiseFlag
  <2>4. CASE u = name[c]
    <3>1. c \in F /\ F' = F \ {c} /\ R' = R \cup {c}
      BY <2>4 DEF RaiseFlag, Handled, Registered, Flagging
    <3>2. c \in R => repeated'
      BY DEF RaiseFlag, CountInv, FirstLogins, Registered
    <3> HIDE DEF R, F
    <3>3. /\ Cardinality(F') = Cardinality(F) - 1
          /\ c \in R => Cardinality(R') = Cardinality(R)
          /\ c \notin R => Cardinality(R') = Cardinality(R) + 1
      BY <2>1, <3>1, OneMoreOneLess
    <3> QED
      BY <1>1, <2>1, <2>2, <2>3, <3>2, <3>3 DEF Counted, Sessions, R, F
  <2>5. CASE u # name[c]
    <3>1. F' = F /\ R' = R
      BY <2>5 DEF RaiseFlag, Handled, Registered, Flagging
    <3> QED
      BY <1>1, <2>1, <2>3, <3>1 DEF Counted, Sessions
  <2> QED
    BY <2>4, <2>5
<1>3. ASSUME NEW h \in Host PROVE Counted(countHost, vhost, h)'
  <2> DEFINE R == Registered(vhost, h)
             F == Flagging(vhost, h)
  <2>1. R \in SUBSET Conn /\ F \in SUBSET Conn /\ countHost[h] \in Nat /\ Counted(countHost, vhost, h)
    BY DEF Registered, Flagging, CountInv
  <2>2. Cardinality(R) \in Nat /\ Cardinality(F) \in Nat
    BY <2>1, OneMoreOneLess
  <2>3. countHost'[h] = countHost[h]
    BY DEF RaiseFlag
  <2>4. CASE h = vhost[c]
    <3>1. c \in F /\ F' = F \ {c} /\ R' = R \cup {c}
      BY <2>4 DEF RaiseFlag, Handled, Registered, Flagging
    <3>2. c \in R => repeated'
      BY DEF RaiseFlag, CountInv, FirstLogins, Registered
    <3> HIDE DEF R, F
    <3>3. /\ Cardinality(F') = Cardinality(F) - 1
          /\ c \in R => Cardinality(R') = Cardinality(R)
          /\ c \notin R => Cardinality(R') = Cardinality(R) + 1
      BY <2>1, <3>1, OneMoreOneLess
    <3> QED
      BY <1>1, <2>1, <2>2, <2>3, <3>2, <3>3 DEF Counted, Sessions, R, F
  <2>5. CASE h # vhost[c]
    <3>1. F' = F /\ R' = R
      BY <2>5 DEF RaiseFlag, Handled, Registered, Flagging
    <3> QED
      BY <1>1, <2>1, <2>3, <3>1 DEF Counted, Sessions
  <2> QED
    BY <2>4, <2>5
<1> QED
  BY <1>1, <1>2, <1>3 DEF CountInv

\* stop() and the destructor give back what is registered, under the names of then.
LEMMA StopCounts ==
  ASSUME CountInv, IInv', NEW c \in Conn, Stop(c) \/ Destroy(c)
  PROVE  CountInv'
<1> USE DEF IInv, TypeOK
<1>1. FirstLogins' /\ (renamed => renamed') /\ (repeated => repeated')
  BY DEF CountInv, FirstLogins, Stop, Destroy, GiveBack
<1>2. ASSUME NEW u \in User PROVE Counted(countUser, name, u)'
  <2> DEFINE R == Registered(name, u)
             F == Flagging(name, u)
  <2>1. R \in SUBSET Conn /\ F \in SUBSET Conn /\ countUser[u] \in Nat /\ Counted(countUser, name, u)
    BY DEF Registered, Flagging, CountInv
  <2>2. Cardinality(R) \in Nat /\ Cardinality(F) \in Nat
    BY <2>1, OneMoreOneLess
  <2>3. F' = F
    BY DEF Stop, Destroy, Flagging
  <2>4. CASE u = name[c] /\ registered[c]
    <3>1. c \in R /\ R' = R \ {c}
      BY <2>4 DEF Stop, Destroy, GiveBack, Registered
    <3>2. countUser'[u] = IF countUser[u] > 0 THEN countUser[u] - 1 ELSE countUser[u]
      BY <2>4 DEF Stop, Destroy, GiveBack, UnregisterSession
    <3> HIDE DEF R, F
    <3>3. Cardinality(R') = Cardinality(R) - 1 /\ Cardinality(R') \in Nat
      BY <2>1, <3>1, OneMoreOneLess
    <3> QED
      BY <1>1, <2>1, <2>2, <2>3, <3>2, <3>3 DEF Counted, Sessions, R, F
  <2>5. CASE ~(u = name[c] /\ registered[c])
    <3>1. R' = R
      BY <2>5 DEF Stop, Destroy, GiveBack, Registered
    <3>2. countUser'[u] = countUser[u]
      BY <2>5 DEF Stop, Destroy, GiveBack, UnregisterSession
    <3> QED
      BY <1>1, <2>1, <2>3, <3>1, <3>2 DEF Counted, Sessions
  <2> QED
    BY <2>4, <2>5
<1>3. ASSUME NEW h \in Host PROVE Counted(countHost, vhost, h)'
  <2> DEFINE R == Registered(vhost, h)
             F == Flagging(vhost, h)
  <2>1. R \in SUBSET Conn /\ F \in SUBSET Conn /\ countHost[h] \in Nat /\ Counted(countHost, vhost, h)
    BY DEF Registered, Flagging, CountInv
  <2>2. Cardinality(R) \in Nat /\ Cardinality(F) \in Nat
    BY <2>1, OneMoreOneLess
  <2>3. F' = F
    BY DEF Stop, Destroy, Flagging
  <2>4. CASE h = vhost[c] /\ registered[c]
    <3>1. c \in R /\ R' = R \ {c}
      BY <2>4 DEF Stop, Destroy, GiveBack, Registered
    <3>2. countHost'[h] = IF countHost[h] > 0 THEN countHost[h] - 1 ELSE countHost[h]
      BY <2>4 DEF Stop, Destroy, GiveBack, UnregisterSession
    <3> HIDE DEF R, F
    <3>3. Cardinality(R') = Cardinality(R) - 1 /\ Cardinality(R') \in Nat
      BY <2>1, <3>1, OneMoreOneLess
    <3> QED
      BY <1>1, <2>1, <2>2, <2>3, <3>2, <3>3 DEF Counted, Sessions, R, F
  <2>5. CASE ~(h = vhost[c] /\ registered[c])
    <3>1. R' = R
      BY <2>5 DEF Stop, Destroy, GiveBack, Registered
    <3>2. countHost'[h] = countHost[h]
      BY <2>5 DEF Stop, Destroy, GiveBack, UnregisterSession
    <3> QED
      BY <1>1, <2>1, <2>3, <3>1, <3>2 DEF Counted, Sessions
  <2> QED
    BY <2>4, <2>5
<1> QED
  BY <1>1, <1>2, <1>3 DEF CountInv

LEMMA NextKeepsCounts == CountInv /\ [Next]_vars => CountInv'
<1> SUFFICES ASSUME CountInv, [Next]_vars PROVE CountInv'
  OBVIOUS
<1>1. IInv'
  BY NextKeepsIInv DEF CountInv
<1>2. CASE UNCHANGED vars
  BY <1>1, <1>2 DEF CountInv, FirstLogins, Counted, Sessions, Registered, Flagging, vars
<1>3. ASSUME NEW c \in Conn,
             \/ Connect(c) \/ (\E u \in User : HandleUSER(c, u))
             \/ (\E h \in Host : HandleHOST(c, h)) \/ CheckUser(c) \/ CheckHost(c)
             \/ Register(c) \/ RaiseFlag(c) \/ Leave(c) \/ Stop(c) \/ Destroy(c)
      PROVE  CountInv'
  BY <1>1, <1>3, OtherStepsCount, RegisterCounts, RaiseFlagCounts, StopCounts
<1> QED
  BY <1>2, <1>3 DEF Next

\* As long as no registered session takes another name or host, the tracker counts
\* at least the sessions there are, however stop() meets the login on its way.
THEOREM CountsAreEnough == Spec => []NeverUndercounts
<1>1. CountInv => NeverUndercounts
  BY DEF CountInv, Counted, Sessions, Registered, Flagging, NeverUndercounts,
         UserSessions, HostSessions
<1> QED
  BY <1>1, InitCounts, NextKeepsCounts, PTL DEF Spec

\* With logins that are not repeated either, it counts just those.
THEOREM CountsAreRight == Spec => []CountsAreExact
<1>1. CountInv => CountsAreExact
  BY DEF CountInv, Counted, Sessions, Registered, Flagging, CountsAreExact,
         UserSessions, HostSessions
<1> QED
  BY <1>1, InitCounts, NextKeepsCounts, PTL DEF Spec
==============================================================================
