------------------------- MODULE ProcessControlProofs -------------------------
(***************************************************************************)
(* Theorems about ProcessControl for every number of processes, commands,  *)
(* hosts and settings.                                                     *)
(*                                                                         *)
(* What a command finds in the PID file is true of a moment that is past   *)
(* when it acts.  The argument is about who else can be under way then: as *)
(* long as no start or restart has met another command (overlap), a        *)
(* process on its way to serve is alone, but for servers that nobody has   *)
(* told to stop and for those that wait for their last sessions (Alone),   *)
(* and beside a server whose port is open and that could write its PID     *)
(* file there are only processes that leave that file as it is (Harmless). *)
(***************************************************************************)
EXTENDS ProcessControl, TLAPS

ServerCommand == {"start", "restart"}

\* A process that knows the PID file.
Program(p) == Ours(p) /\ command[p] # "virtual"

\* What a process can be at a place, and where its port is open.
PlaceInv ==
  \A p \in Pid :
    /\ ~Ours(p) => command[p] = "virtual" /\ held[p] = Nobody
    /\ at[p] \in Starting \cup {"serve"} => command[p] \in ServerCommand
    /\ at[p] \in Asking => command[p] \in {"stop", "restart", "status", "reload"}
    /\ at[p] = "kill" => command[p] # "status"
    /\ at[p] \in {"poll", "unlink"} => command[p] \in {"stop", "restart"}
    /\ at[p] \in Saving \cup {"manage"} => command[p] = "virtual"
    /\ at[p] = "drop" => command[p] # "virtual"
    /\ at[p] = "read" => held[p] = Nobody
    /\ at[p] \in {"check", "kill", "poll", "unlink"} => held[p] \in Pid
    /\ command[p] \notin ServerCommand
         => flag[p] = "no" /\ pending[p] = {} /\ handler[p] = "no"
    /\ handler[p] # "no" => flag[p] # "no"
    /\ port = p => p \in served /\ handler[p] \in {"no", "stop"} /\ at[p] # "destroy"
    /\ p \in served => /\ at[p] \in Serving \cup {"destroy"} /\ command[p] \in ServerCommand
                       /\ at[p] \in {"drop", "exit", "destroy"} => flag[p] # "no"
    /\ at[p] \in {"open_pid", "write_pid", "serve", "destroy"} => p \in served
    /\ at[p] = "destroy" => handler[p] = "no"
    /\ at[p] \in {"open_pid", "write_pid", "serve"} /\ flag[p] = "no" => port = p

\* The PID file names a server, or one is about to write it.
FileInv ==
  /\ \A w \in opened : at[w] = "write_pid"
  /\ ~left => /\ pidFile \in Pid => Handles(pidFile) /\ at[pidFile] \in {"serve", "drop"}
              /\ pidFile = Blank => opened # {}

MeetInv == Meeting => overlap

\* Who is named in a command's variable: it is gone when the command goes on
\* to start, and it is or was a server.
HeldInv ==
  /\ \A p \in Pid :
       at[p] \in Starting \cup {"unlink", "serve"} /\ held[p] \in Pid => at[held[p]] = "free"
  /\ ~left /\ ~overlap =>
       \A p \in Pid : held[p] \in Pid => Handles(held[p]) \/ at[held[p]] = "free"
  /\ hit => left \/ overlap

\* Beside the server p, the process q does nothing to the PID file.
Harmless(q, p) ==
  Program(q) => \/ at[q] = "destroy"
                \/ /\ flag[q] = "no"
                   /\ at[q] \in {"load", "bind", "exit", "read", "check", "kill", "poll"}
                   /\ at[q] \in {"check", "kill", "poll"} => held[q] = p

NamedInv ==
  ~overlap /\ ~intruded =>
    \A p \in Pid :
      port = p /\ p \notin Barred =>
        /\ at[p] = "write_pid" => p \in opened
        /\ at[p] \in {"serve", "drop"} => pidFile = p
        /\ at[p] = "exit" => pidFile = Nobody
        /\ at[p] \in {"serve", "drop", "exit"} => \A q \in Pid \ {p} : Harmless(q, p)

\* A restart stops the server that there is.
RestartInv ==
  ~overlap /\ ~intruded =>
    \A p \in Pid : command[p] = "restart" =>
      /\ at[p] \in {"check", "kill", "poll"} => port \in {held[p], Nobody} \cup Barred
      /\ at[p] \in {"unlink", "load", "bind"} => port \in {Nobody} \cup Barred

ProcInv == PlaceInv /\ FileInv /\ MeetInv /\ HeldInv /\ NamedInv /\ RestartInv

\* Whose text will be in the file next.
Texting(p) == at[p] \in {"text", "undo_text"}

WishInv ==
  \A p \in Pid : /\ at[p] \in Saving => wish[p] \in Wish
                 /\ at[p] \in {"undo", "undo_text"} => wish[p].does = "add"

\* The end of a process.
Over == {"exit", "destroy"}

\* One process at a time, of those that have read the file.
SaverInv ==
  /\ \A p \in current : at[p] \in Saving \cup Over
  /\ \A p \in Pid : Texting(p) => current = {p} /\ hostFile = Broken

\* The file holds what was asked for, less the texts after a save.
Lasting == IF resaved THEN Saved(asked) ELSE asked
AskedInv == (\A p \in Pid : ~Texting(p)) => hostFile # Broken /\ Loaded = Lasting

\* The memory of a process that has read the file is what it will be asked for.
MemoryInv ==
  \A p \in current :
    /\ at[p] \in {"open", "text"} => /\ Accepts(asked, wish[p])
                                     /\ Saved(hosts[p]) = Saved(Changed(asked, wish[p]))
    /\ at[p] \in {"undo", "undo_text"} => Saved(hosts[p]) = Saved(asked)

HostsInv == WishInv /\ (~stale /\ ~torn => SaverInv /\ AskedInv /\ MemoryInv)

-------------------------------------------------------------------------------
USE PidMarks, BarredArePids DEF Ours, Handles, Main, Running, ServerCommand, Starting, Serving,
                 Asking, Saving, Over

\* A process on its way to serve is alone with servers that nobody stops, and with
\* those that are past all but their sessions.
LEMMA Alone ==
  ASSUME TypeOK, PlaceInv, MeetInv, HeldInv, ~overlap,
         NEW p \in Pid, NEW q \in Pid \ {p}, at[p] \in Starting, Program(q)
  PROVE  \/ at[q] = "serve" /\ ~Ending(q) /\ handler[q] = "no" /\ port = q
         \/ at[q] = "destroy"
<1>0. SUFFICES ASSUME at[q] # "destroy"
               PROVE  at[q] = "serve" /\ ~Ending(q) /\ handler[q] = "no" /\ port = q
  OBVIOUS
<1>1. ~Meeting
  BY DEF MeetInv
<1>2. Commanding(p)
  BY DEF Commanding, PlaceInv
<1>3. ~Commanding(q) /\ ~(Ending(q) /\ q # held[p])
  BY <1>0, <1>1, <1>2 DEF Meeting, PlaceInv
<1>4. q # held[p]
  BY DEF HeldInv, Program
<1>5. ~Ending(q)
  BY <1>3, <1>4
<1>6. at[q] = "serve"
  BY <1>3, <1>5 DEF Commanding, Ending, Program
<1> QED
  BY <1>5, <1>6 DEF PlaceInv, Ending

LEMMA InitProcesses == Init => ProcInv
<1> SUFFICES ASSUME Init PROVE ProcInv
  OBVIOUS
<1>1. ~Meeting
  BY DEF Init, Meeting, Commanding
<1> QED
  BY <1>1 DEF Init, ProcInv, PlaceInv, FileInv, MeetInv, HeldInv, NamedInv, RestartInv
-------------------------------------------------------------------------------
(* The maps of hosts.                                                       *)

LEMMA LoadedIsMap == ASSUME HostsTypeOK PROVE Loaded \in Map
BY HostMarks DEF HostsTypeOK, Loaded, Map, EmptyMap

LEMMA SavedIsMap ==
  ASSUME NEW m \in Map
  PROVE  Saved(m) \in Map /\ Saved(Saved(m)) = Saved(m)
<1>1. ASSUME NEW h \in Hostname, m[h] # NoHost
      PROVE  [m[h] EXCEPT !.custom = FALSE] \in Host \ {NoHost}
  BY <1>1, HostMarks DEF Map, Host
<1> QED
  BY <1>1, HostMarks DEF Saved, Map, Host

LEMMA ChangedIsMap ==
  ASSUME NEW m \in Map, NEW w \in Wish, Accepts(m, w)
  PROVE  Changed(m, w) \in Map
BY HostMarks DEF Changed, Accepts, Wish, Subcommand, Map, Host, NewHost

\* A save takes no host away.
LEMMA SavedAccepts ==
  ASSUME NEW m \in Map, NEW w \in Wish
  PROVE  Accepts(Saved(m), w) <=> Accepts(m, w)
<1>1. w.name \in Hostname
  BY DEF Wish
<1>2. ASSUME m[w.name] # NoHost PROVE [m[w.name] EXCEPT !.custom = FALSE] # NoHost
  BY <1>1, <1>2, HostMarks DEF Map, Host
<1> QED
  BY <1>1, <1>2 DEF Accepts, Saved

\* A save forgets the same whether it comes before the change or after it.
LEMMA SavedChanged ==
  ASSUME NEW m \in Map, NEW w \in Wish, Accepts(m, w)
  PROVE  Saved(Changed(m, w)) = Saved(Changed(Saved(m), w))
<1>1. w.name \in Hostname
  BY DEF Wish
<1>3. ASSUME NEW h \in Hostname
      PROVE  Saved(Changed(m, w))[h] = Saved(Changed(Saved(m), w))[h]
  <2>1. CASE h # w.name
    BY <2>1, HostMarks DEF Saved, Changed, Map, Host
  <2>2. CASE h = w.name
    <3>1. CASE w.does = "add"
      BY <1>1, <2>2, <3>1 DEF Saved, Changed, Map, NewHost
    <3>2. CASE w.does = "remove"
      BY <1>1, <2>2, <3>2 DEF Saved, Changed, Map
    <3>3. CASE w.does = "modify"
      <4>1. m[h] \in Host /\ m[h] # NoHost
        BY <1>1, <2>2, <3>3 DEF Accepts, Map
      <4> DEFINE new(x) == [x EXCEPT !.setting = w.to, !.enabled = w.on]
                 plain(x) == [x EXCEPT !.custom = FALSE]
      <4>2. \A x \in Host : new(x) \in Host /\ plain(x) \in Host /\ NoHost \notin Host
        BY HostMarks DEF Host, Wish
      <4>3. plain(new(m[h])) = plain(new(plain(m[h])))
        BY <4>1 DEF Host
      <4>4. Changed(m, w)[h] = new(m[h]) /\ Changed(Saved(m), w)[h] = new(Saved(m)[h])
        BY <1>1, <2>2, <3>3 DEF Saved, Changed, Map
      <4>5. \A k : k[h] # NoHost => Saved(k)[h] = plain(k[h])
        BY DEF Saved
      <4> HIDE DEF new, plain
      <4> QED
        BY ONLY <4>1, <4>2, <4>3, <4>4, <4>5
    <3> QED
      BY <3>1, <3>2, <3>3 DEF Wish, Subcommand
  <2> QED
    BY <2>1, <2>2
<1> QED
  BY <1>3 DEF Saved

\* A step that moves q says nothing about the saving of hosts.
Elsewhere(q) ==
  \/ at'[q] = at[q]
  \/ at[q] \notin Saving \cup Over /\ at'[q] \notin Saving
  \/ at[q] \notin Saving /\ at'[q] = "destroy"

LEMMA HostsStay ==
  ASSUME HostsInv, UNCHANGED hostVars, current \subseteq Pid,
         \A q \in Pid : Elsewhere(q)
  PROVE  HostsInv'
BY DEF hostVars, Elsewhere, Texting, HostsInv, WishInv, SaverInv, AskedInv, MemoryInv, Loaded, Lasting

\* A process that ends in the middle of a save leaves a torn file.
LEMMA HostsForgotten ==
  ASSUME HostsInv, HostsTypeOK, NEW p \in Pid, EndHosts(p, Texting(p)), at'[p] = "free",
         \A q \in Pid \ {p} : Elsewhere(q)
  PROVE  HostsInv'
BY DEF EndHosts, Forgets, HostsTypeOK, Elsewhere, Texting, HostsInv, WishInv, SaverInv, AskedInv,
       MemoryInv, Loaded, Lasting

LEMMA ManageKeepsHosts ==
  ASSUME TypeOK, HostsInv, NEW p \in Pid, NEW w \in Wish, at[p] = "manage", Goes(p, "open"),
         LoadForCommand(p, w)
  PROVE  HostsInv'
<1>1. hosts' = [hosts EXCEPT ![p] = Changed(Loaded, w)] /\ wish' = [wish EXCEPT ![p] = w]
      /\ Accepts(Loaded, w) /\ UNCHANGED <<hostFile, asked, resaved, stale, torn>>
      /\ at' = [at EXCEPT ![p] = "open"] /\ ~Texting(p)
      /\ current' = IF hostFile = Broken THEN current ELSE current \cup {p}
  BY DEF LoadForCommand, Goes, Texting
<1>2. /\ at \in [Pid -> Place] /\ wish \in [Pid -> Wish \cup {NoWish}] /\ hosts \in [Pid -> Map]
      /\ asked \in Map /\ Loaded \in Map
  BY LoadedIsMap DEF TypeOK, HostsTypeOK
<1>3. WishInv'
  BY <1>1, <1>2 DEF HostsInv, WishInv
<1>4. ASSUME ~stale, ~torn PROVE SaverInv' /\ AskedInv' /\ MemoryInv'
  <2>1. SaverInv /\ AskedInv /\ MemoryInv
    BY <1>4 DEF HostsInv
  <2>2. SaverInv'
    BY <1>1, <1>2, <2>1 DEF SaverInv, Texting
  <2>3. AskedInv'
    BY <1>1, <1>2, <2>1 DEF AskedInv, Lasting, Loaded, Texting
  <2>4. ASSUME hostFile # Broken
        PROVE  Accepts(asked, w) /\ Saved(hosts'[p]) = Saved(Changed(asked, w))
    <3>1. \A q \in Pid : ~Texting(q)
      BY <2>1, <2>4 DEF SaverInv
    <3>2. Loaded \in {asked, Saved(asked)}
      BY <2>1, <3>1 DEF AskedInv, Lasting
    <3>3. Accepts(asked, w)
      BY <1>1, <1>2, <3>2, SavedAccepts
    <3>4. Saved(Changed(Loaded, w)) = Saved(Changed(asked, w))
      BY <1>2, <3>2, <3>3, SavedChanged
    <3> QED
      BY <1>1, <1>2, <3>3, <3>4
  <2>5. MemoryInv'
    BY <1>1, <1>2, <2>1, <2>4 DEF MemoryInv, SaverInv
  <2> QED
    BY <2>2, <2>3, <2>5
<1> QED
  BY <1>1, <1>3, <1>4 DEF HostsInv

LEMMA OpeningKeepsHosts ==
  ASSUME TypeOK, HostsInv, NEW p \in Pid, OpenHostsFile(p)
  PROVE  HostsInv'
<1>1. PICK place \in {"text", "undo_text"} :
         /\ at' = [at EXCEPT ![p] = place]
         /\ place = "text" => at[p] = "open"
         /\ place = "undo_text" => at[p] = "undo"
         /\ at[p] \in {"open", "undo"}
  BY DEF OpenHostsFile, Goes
<1>2. OpenHosts(p) /\ at \in [Pid -> Place]
  BY DEF OpenHostsFile, TypeOK
<1>3. WishInv'
  BY <1>1, <1>2 DEF OpenHosts, HostsInv, WishInv
<1>4. ASSUME ~stale', ~torn' PROVE SaverInv' /\ AskedInv' /\ MemoryInv'
  <2>1. ~stale /\ ~torn /\ p \in current /\ current' = {p} /\ hostFile' = Broken
    BY <1>2, <1>4 DEF OpenHosts
  <2>2. SaverInv /\ AskedInv /\ MemoryInv
    BY <2>1 DEF HostsInv
  <2>3. \A q \in Pid \ {p} : at'[q] = at[q] /\ ~Texting(q)
    BY <1>1, <1>2, <2>1, <2>2 DEF SaverInv, Texting
  <2>4. SaverInv'
    BY <1>1, <1>2, <2>1, <2>3 DEF SaverInv, Texting
  <2>5. AskedInv'
    BY <1>1, <1>2, <2>2 DEF AskedInv, OpenHosts, Texting
  <2>6. MemoryInv'
    BY <1>1, <1>2, <2>1, <2>2 DEF MemoryInv, OpenHosts
  <2> QED
    BY <2>4, <2>5, <2>6
<1> QED
  BY <1>3, <1>4 DEF HostsInv

\* addVirtualHost() takes back just what it has added.
LEMMA TakenBack ==
  ASSUME NEW m \in Map, NEW k \in Map, NEW w \in Wish, w.does = "add",
         Accepts(m, w), Saved(k) = Saved(Changed(m, w))
  PROVE  Saved([k EXCEPT ![w.name] = NoHost]) = Saved(m)
<1> DEFINE taken == [k EXCEPT ![w.name] = NoHost]
<1>1. ASSUME NEW h \in Hostname PROVE Saved(taken)[h] = Saved(m)[h]
  <2>1. CASE h = w.name
    BY <2>1 DEF Saved, Accepts, Map
  <2>2. CASE h # w.name
    <3>1. Saved(k)[h] = Saved(m)[h]
      BY <2>2 DEF Saved, Changed, Map
    <3>2. Saved(taken)[h] = Saved(k)[h]
      BY <2>2 DEF Saved, Map
    <3> QED
      BY <3>1, <3>2
  <2> QED
    BY <2>1, <2>2
<1> QED
  BY <1>1 DEF Saved, Map

LEMMA FailingKeepsHosts ==
  ASSUME TypeOK, HostsInv, NEW p \in Pid, OpenHostsFails(p)
  PROVE  HostsInv'
<1>1. CASE at[p] = "open" /\ wish[p].does = "add" /\ TakeBack(p) /\ Goes(p, "undo")
  <2>1. ASSUME p \in current, SaverInv, AskedInv, MemoryInv
        PROVE  Saved(hosts'[p]) = Saved(asked)
    <3>1. wish[p] \in Wish /\ Accepts(asked, wish[p])
          /\ Saved(hosts[p]) = Saved(Changed(asked, wish[p]))
      BY <1>1, <2>1 DEF MemoryInv, HostsInv, WishInv
    <3>2. hosts[p] \in Map /\ asked \in Map
          /\ hosts'[p] = [hosts[p] EXCEPT ![wish[p].name] = NoHost]
      BY <1>1 DEF TypeOK, HostsTypeOK, TakeBack
    <3> QED
      BY <1>1, <3>1, <3>2, TakenBack
  <2> QED
    BY <1>1, <2>1 DEF TakeBack, HostsTypeOK, TypeOK, Goes, Texting, HostsInv, WishInv, SaverInv,
       AskedInv, MemoryInv, Loaded, Lasting
<1>2. CASE KeepHosts /\ Goes(p, "exit") /\ ~Texting(p)
  BY <1>2 DEF KeepHosts, hostVars, Goes, TypeOK, HostsTypeOK, Texting, HostsInv, WishInv, SaverInv,
     AskedInv, MemoryInv, Loaded, Lasting
<1> QED
  BY <1>1, <1>2 DEF OpenHostsFails, Texting

LEMMA WritingKeepsHosts ==
  ASSUME TypeOK, HostsInv, NEW p \in Pid, WriteHostsFile(p)
  PROVE  HostsInv'
<1>1. at' = [at EXCEPT ![p] = "exit"] /\ Texting(p)
  BY DEF WriteHostsFile, Goes, Texting
<1>2. CASE LoseHosts(p)
  BY <1>1, <1>2 DEF LoseHosts, Forgets, TypeOK, HostsTypeOK, Texting, HostsInv, WishInv
<1>3. CASE WriteHosts(p, at[p] = "text")
  <2>1. WishInv'
    BY <1>1, <1>3 DEF WriteHosts, Forgets, TypeOK, HostsTypeOK, Texting, HostsInv, WishInv
  <2>2. ASSUME ~stale, ~torn
        PROVE  /\ current' = {} /\ \A q \in Pid : at'[q] \notin {"text", "undo_text"}
               /\ hostFile' = Saved(asked') /\ asked' \in Map /\ resaved'
    <3>1. current = {p} /\ SaverInv /\ AskedInv /\ MemoryInv /\ wish[p] \in Wish
      BY <1>1, <2>2 DEF HostsInv, SaverInv, WishInv, Texting
    <3>2. current' = {} /\ \A q \in Pid : at'[q] \notin {"text", "undo_text"}
      BY <1>1, <1>3, <3>1 DEF WriteHosts, Forgets, SaverInv, TypeOK, Texting
    <3>3. CASE at[p] = "text"
      <4>1. Accepts(asked, wish[p]) /\ Saved(hosts[p]) = Saved(Changed(asked, wish[p]))
        BY <3>1, <3>3 DEF MemoryInv
      <4>2. Changed(asked, wish[p]) \in Map
        BY <3>1, <4>1, ChangedIsMap DEF TypeOK, HostsTypeOK
      <4> QED
        BY <1>3, <2>2, <3>2, <3>3, <4>1, <4>2 DEF WriteHosts
    <3>4. CASE at[p] = "undo_text"
      BY <1>3, <3>1, <3>2, <3>4 DEF WriteHosts, MemoryInv, AskedInv, TypeOK, HostsTypeOK
    <3> QED
      BY <1>1, <3>3, <3>4 DEF Texting
  <2>3. ASSUME NEW m \in Map, hostFile' = Saved(m) PROVE Loaded' = Saved(m) /\ hostFile' # Broken
    BY <2>3, SavedIsMap, HostMarks DEF Loaded
  <2> QED
    BY <1>3, <2>1, <2>2, <2>3
       DEF WriteHosts, HostsInv, SaverInv, AskedInv, Lasting, MemoryInv, Texting
<1> QED
  BY <1>2, <1>3 DEF WriteHostsFile
-------------------------------------------------------------------------------
(* The processes.  Each step is looked at in a state of the invariant; what *)
(* it may meet there is what Alone and NamedInv leave.                      *)

Parts == PlaceInv /\ FileInv /\ HeldInv /\ NamedInv /\ RestartInv

USE DEF Parts, ProcInv, PlaceInv, FileInv, HeldInv, NamedInv, RestartInv, Harmless, Program, Ending,
        Held, Proceeds, Goes, Gone, Ends, Dies, RemovePidFile, KeepPidFile, KeepHistory, ServerRuns

LEMMA EndKeepsParts ==
  ASSUME TypeOK, ProcInv, overlap => overlap', NEW p \in Pid,
         at[p] \in {"load", "bind", "exit", "destroy"}, Ends(p), KeepPidFile, KeepHistory
  PROVE  Parts'
BY Alone DEF TypeOK

\* A process that dies leaves the file to another server, or that is noted.
LEMMA DyingKeepsFile ==
  ASSUME TypeOK, ProcInv, NEW q \in Pid, pidFile' = pidFile, opened' = opened \ {q},
         left' = (left \/ (Ours(q) /\ (pidFile = q \/ q \in opened))),
         \A r \in Pid \ {q} : at[r] \in {"write_pid", "serve", "drop"}
                            => at'[r] = at[r] /\ command'[r] = command[r]
  PROVE  FileInv'
<1>1. \A w \in opened' : at'[w] = "write_pid"
  BY DEF TypeOK
<1>2. ASSUME ~left', pidFile' \in Pid
      PROVE  (Handles(pidFile) /\ at[pidFile] \in {"serve", "drop"})'
  <2>1. pidFile # q /\ Handles(pidFile) /\ at[pidFile] \in {"serve", "drop"}
    BY <1>2
  <2> QED
    BY <1>2, <2>1
<1>3. ASSUME ~left', pidFile' = Blank PROVE opened' # {}
  <2>1. q \notin opened /\ opened # {}
    BY <1>3
  <2> QED
    BY <2>1
<1> QED
  BY <1>1, <1>2, <1>3

LEMMA DyingKeepsParts ==
  ASSUME TypeOK, ProcInv, overlap => overlap', NEW p \in Pid, Ours(p), Dies(p, at),
         UNCHANGED <<intruded, hit>>
  PROVE  Parts'
<1>1. FileInv'
  BY DyingKeepsFile
<1>2. PlaceInv' /\ HeldInv' /\ NamedInv' /\ RestartInv'
  BY Alone DEF TypeOK
<1> QED
  BY <1>1, <1>2

\* exit() with a server to destroy.
LEMMA DestroyingKeepsParts ==
  ASSUME TypeOK, ProcInv, overlap => overlap', NEW p \in Pid, p \in served, flag[p] # "no",
         DestroyServer(p), handler'[p] = "no", pending' \in [Pid -> SUBSET Signal],
         handler' \in [Pid -> {"no", "stop", "wait", "remove"}],
         \A q \in Pid \ {p} : pending'[q] = pending[q] /\ handler'[q] = handler[q],
         pidFile' = pidFile, opened' = opened \ {p}, left \in BOOLEAN, left' \in BOOLEAN,
         left => left', ~left' => pidFile # p /\ p \notin opened
  PROVE  Parts'
<1>1. FileInv'
  BY DEF DestroyServer, TypeOK
<1>2. PlaceInv'
  BY DEF DestroyServer, TypeOK
<1>3. HeldInv' /\ NamedInv' /\ RestartInv'
  BY Alone DEF DestroyServer, TypeOK
<1> QED
  BY <1>1, <1>2, <1>3

LEMMA ServerKeepsParts ==
  ASSUME TypeOK, ProcInv, overlap => overlap', NEW p \in Pid, ServerSteps(p)
  PROVE  Parts'
<1>1. CASE LoadConfiguration(p)
  <2>1. CASE Goes(p, "bind") /\ UNCHANGED <<command, held, pending, flag, handler, port, served>>
    BY <1>1, <2>1, Alone DEF LoadConfiguration, TypeOK
  <2> QED
    BY <1>1, <2>1, EndKeepsParts DEF LoadConfiguration
<1>2. CASE StartThrows(p)
  <2>1. ~intruded' => ~intruded /\ port' = Nobody
    BY <1>2 DEF StartThrows, TypeOK
  <2>2. NamedInv'
    BY <2>1
  <2>3. PlaceInv' /\ FileInv' /\ HeldInv' /\ RestartInv'
    BY <1>2, Alone DEF StartThrows, TypeOK
  <2> QED
    BY <2>2, <2>3
<1>3. CASE Bind(p)
  <2>1. CASE port = Nobody /\ port' = p /\ served' = served \cup {p}
    <3>1. /\ at[p] = "bind" /\ at' = [at EXCEPT ![p] = "open_pid"] /\ handler[p] = "no"
          /\ UNCHANGED <<command, held, pending, flag, handler, pidFile, opened, left, hit>>
          /\ intruded' = intruded
      BY <1>3, <2>1 DEF Bind, TypeOK
    <3>2. PlaceInv'
      BY <2>1, <3>1 DEF TypeOK
    <3>3. FileInv' /\ HeldInv'
      BY <2>1, <3>1 DEF TypeOK
    <3>4. NamedInv' /\ RestartInv'
      BY <2>1, <3>1, Alone DEF TypeOK
    <3> QED
      BY <3>2, <3>3, <3>4
  <2> QED
    BY <1>3, <2>1, EndKeepsParts DEF Bind
<1>4. CASE OpenPidFile(p)
  BY <1>4, Alone DEF OpenPidFile, TypeOK
<1>5. CASE WritePidFile(p)
  BY <1>5, Alone DEF WritePidFile, TypeOK
<1>6. CASE LeaveMainLoop(p)
  BY <1>6, Alone DEF LeaveMainLoop, TypeOK
<1>7. CASE DropPidFile(p)
  <2>1. CASE MayRemove(p) /\ pidFile' = Nobody /\ opened' = {} /\ Goes(p, "exit") /\ KeepHistory
             /\ UNCHANGED <<command, held, pending, flag, handler, port, served>>
    <3>1. PlaceInv' /\ FileInv' /\ HeldInv' /\ RestartInv'
      BY <1>7, <2>1, Alone DEF DropPidFile, TypeOK
    <3>2. NamedInv'
      BY <1>7, <2>1, Alone DEF DropPidFile, TypeOK
    <3> QED
      BY <3>1, <3>2
  <2> QED
    BY <1>7, <2>1, DyingKeepsParts DEF DropPidFile
<1>8. CASE Exit(p)
  <2>1. CASE p \in served /\ DestroyServer(p) /\ UNCHANGED <<pending, handler, left>> /\ KeepPidFile
    <3>1. flag[p] # "no" /\ p \notin opened /\ (~left => pidFile # p) /\ left \in BOOLEAN
      BY <1>8, <2>1 DEF Exit, TypeOK
    <3>2. opened' = opened \ {p}
      BY <2>1, <3>1
    <3>3. handler' \in [Pid -> {"no", "stop", "wait", "remove"}] /\ pending' \in [Pid -> SUBSET Signal]
      BY <2>1 DEF TypeOK
    <3>4. /\ handler'[p] = "no"
          /\ \A q \in Pid \ {p} : pending'[q] = pending[q] /\ handler'[q] = handler[q]
      BY <1>8, <2>1 DEF Exit
    <3>5. /\ pidFile' = pidFile /\ left' = left
          /\ ~left' => pidFile # p /\ p \notin opened
      BY <2>1, <3>1
    <3> QED
      BY <2>1, <3>1, <3>2, <3>3, <3>4, <3>5, DestroyingKeepsParts
  <2> QED
    BY <1>8, <2>1, EndKeepsParts DEF Exit
<1> QED
  BY <1>1, <1>2, <1>3, <1>4, <1>5, <1>6, <1>7, <1>8 DEF ServerSteps
LEMMA AskingKeepsParts ==
  ASSUME TypeOK, ProcInv, overlap => overlap', NEW p \in Pid, AskingSteps(p)
  PROVE  Parts'
<1>1. CASE ReadPidFile(p)
  BY <1>1, Alone DEF ReadPidFile, TypeOK
<1>2. CASE Check(p)
  BY <1>2, Alone DEF Check, TypeOK
<1>3. CASE Kill(p)
  <2> DEFINE q == held[p]
             onward == [at EXCEPT ![p] = AfterKill(command[p])]
  <2>1. CASE ~Running(q) /\ Goes(p, "exit")
             /\ UNCHANGED <<command, held, pending, flag, handler, port, served, left>>
    BY <1>3, <2>1, Alone DEF Kill, TypeOK
  <2>2. CASE Handles(q) /\ at' = onward /\ UNCHANGED <<command, held, flag, handler, port, served, left>>
    <3>1. PlaceInv'
      BY <1>3, <2>2 DEF Kill, TypeOK, AfterKill, SignalOf
    <3>2. FileInv' /\ HeldInv' /\ NamedInv' /\ RestartInv'
      BY <1>3, <2>2, Alone DEF Kill, TypeOK, AfterKill, SignalOf
    <3> QED
      BY <3>1, <3>2
  <2>3. CASE Running(q) /\ ~Handles(q) /\ Dies(q, onward)
    <3>1. PlaceInv'
      BY <1>3, <2>3 DEF Kill, TypeOK, AfterKill
    <3>2. FileInv'
      BY <1>3, <2>3, DyingKeepsFile DEF Kill, TypeOK
    <3>3. HeldInv' /\ NamedInv' /\ RestartInv'
      BY <1>3, <2>3, Alone DEF Kill, TypeOK, AfterKill
    <3> QED
      BY <3>1, <3>2, <3>3
  <2> QED
    BY <1>3, <2>1, <2>2, <2>3 DEF Kill
<1>4. CASE PollEnds(p)
  BY <1>4, Alone DEF PollEnds, TypeOK
<1>5. CASE GiveUpPolling(p)
  <2>1. FileInv'
    BY <1>5, DyingKeepsFile DEF GiveUpPolling, TypeOK
  <2>2. PlaceInv' /\ HeldInv' /\ NamedInv' /\ RestartInv'
    BY <1>5, Alone DEF GiveUpPolling, TypeOK
  <2> QED
    BY <2>1, <2>2
<1>6. CASE Unlink(p)
  BY <1>6, Alone DEF Unlink, TypeOK
<1> QED
  BY <1>1, <1>2, <1>3, <1>4, <1>5, <1>6 DEF AskingSteps

LEMMA VirtualKeepsParts ==
  ASSUME TypeOK, ProcInv, overlap => overlap', NEW p \in Pid, VirtualSteps(p)
  PROVE  Parts'
<1>1. PICK place \in Saving \cup {"exit"} :
        /\ at' = [at EXCEPT ![p] = place]
        /\ at[p] \in Saving \cup {"manage"}
        /\ KeepProcesses
  BY DEF VirtualSteps, Manage, OpenHostsFile, OpenHostsFails, WriteHostsFile
<1> QED
  BY <1>1 DEF KeepProcesses, TypeOK

LEMMA HandlerKeepsParts ==
  ASSUME TypeOK, ProcInv, overlap => overlap', NEW p \in Pid,
         HandlerSteps(p) \/ StopReturns(p) \/ Destroyed(p)
  PROVE  Parts'
<1>1. CASE Deliver(p)
  <2>1. PICK s \in pending[p] : Deliver(p)!(s)
    BY <1>1 DEF Deliver
  <2>2. CASE flag[p] = "no"
    <3>1. /\ flag' = [flag EXCEPT ![p] = s] /\ handler' = [handler EXCEPT ![p] = "stop"]
          /\ pending' = [pending EXCEPT ![p] = @ \ {s}] /\ s \in Signal
          /\ UNCHANGED <<at, command, held, port, served, left, hit, pidFile, opened>> /\ Handles(p)
          /\ ~intruded' => ~intruded /\ port \in {p, Nobody}
      BY <2>1, <2>2 DEF TypeOK
    <3>2. PlaceInv'
      BY <2>2, <3>1 DEF TypeOK, Signal
    <3>3. FileInv' /\ HeldInv' /\ RestartInv'
      BY <3>1, Alone DEF TypeOK
    <3>4. NamedInv'
      BY <3>1 DEF TypeOK, Signal
    <3> QED
      BY <3>2, <3>3, <3>4
  <2>3. CASE flag[p] # "no"
    <3>1. ForcedExit(p, s) /\ Ours(p)
      BY <2>1, <2>3
    <3>2. CASE Dies(p, at) /\ UNCHANGED <<runs, intruded, hit>>
      BY <3>1, <3>2, DyingKeepsParts
    <3>3. CASE p \in served /\ DestroyServer(p) /\ pidFile' = pidFile /\ opened' = opened \ {p}
               /\ pending' = [pending EXCEPT ![p] = @ \ {s}]
               /\ handler' = [handler EXCEPT ![p] = "no"]
               /\ left' = (left \/ pidFile = p \/ p \in opened)
      <4>1. /\ handler' \in [Pid -> {"no", "stop", "wait", "remove"}] /\ handler'[p] = "no"
            /\ \A q \in Pid \ {p} : handler'[q] = handler[q]
        BY <3>3 DEF TypeOK
      <4>2. /\ pending' \in [Pid -> SUBSET Signal]
            /\ \A q \in Pid \ {p} : pending'[q] = pending[q]
        BY <3>3 DEF TypeOK
      <4>3. /\ left \in BOOLEAN /\ left' \in BOOLEAN
            /\ left => left'
            /\ ~left' => pidFile # p /\ p \notin opened
        BY <3>3 DEF TypeOK
      <4>4. p \in served /\ DestroyServer(p) /\ pidFile' = pidFile /\ opened' = opened \ {p}
        BY <3>3
      <4>5. \A q \in Pid \ {p} : pending'[q] = pending[q] /\ handler'[q] = handler[q]
        BY <4>1, <4>2
      <4>6. /\ handler' \in [Pid -> {"no", "stop", "wait", "remove"}] /\ handler'[p] = "no"
            /\ pending' \in [Pid -> SUBSET Signal]
        BY <4>1, <4>2
      <4> QED
        BY <2>3, <4>3, <4>4, <4>5, <4>6, DestroyingKeepsParts
    <3> QED
      BY <3>1, <3>2, <3>3 DEF ForcedExit
  <2> QED
    BY <2>2, <2>3 DEF TypeOK
<1>2. CASE HandlerStops(p)
  BY <1>2, Alone DEF HandlerStops, TypeOK
<1>3. CASE HandlerRemoves(p)
  <2>1. CASE MayRemove(p) /\ pidFile' = Nobody /\ opened' = {} /\ KeepHistory
             /\ handler' = [handler EXCEPT ![p] = "no"]
             /\ UNCHANGED <<at, command, held, pending, flag, port, served>>
    <3>1. PlaceInv' /\ FileInv' /\ HeldInv' /\ RestartInv'
      BY <1>3, <2>1, Alone DEF HandlerRemoves, TypeOK
    <3>2. NamedInv'
      BY <1>3, <2>1, Alone DEF HandlerRemoves, TypeOK
    <3> QED
      BY <3>1, <3>2
  <2>2. Ours(p)
    BY <1>3 DEF HandlerRemoves, TypeOK
  <2> QED
    BY <1>3, <2>1, <2>2, DyingKeepsParts DEF HandlerRemoves
<1>4. CASE StopReturns(p)
  BY <1>4, Alone DEF StopReturns, TypeOK
<1>5. CASE Destroyed(p)
  BY <1>5, EndKeepsParts DEF Destroyed
<1> QED
  BY <1>1, <1>2, <1>3, <1>4, <1>5 DEF HandlerSteps

LEMMA SurroundingsKeepParts ==
  ASSUME TypeOK, ProcInv, overlap => overlap', NEW p \in Pid, Surroundings(p)
  PROVE  Parts'
<1>1. ASSUME NEW c \in Command, Begin(p, c) PROVE Parts'
  BY <1>1, Alone DEF Begin, FirstPlace, Command, TypeOK
<1>2. CASE OtherComes(p)
  BY <1>2, Alone DEF OtherComes, TypeOK
<1>3. CASE OtherLeaves(p)
  BY <1>3, Alone DEF OtherLeaves, TypeOK
<1>4. CASE SignalByHand(p)
  BY <1>4, Alone DEF SignalByHand, TypeOK
<1>5. CASE Crash(p)
  <2>1. FileInv'
    BY <1>5, DyingKeepsFile DEF Crash
  <2>2. PlaceInv' /\ HeldInv' /\ NamedInv' /\ RestartInv'
    BY <1>5, Alone DEF Crash, TypeOK
  <2> QED
    BY <2>1, <2>2
<1> QED
  BY <1>1, <1>2, <1>3, <1>4, <1>5 DEF Surroundings

-------------------------------------------------------------------------------
(* The types.                                                               *)

LEMMA HostsTyped ==
  ASSUME HostsTypeOK, NEW p \in Pid,
         \/ UNCHANGED hostVars
         \/ LoadForServer(p)
         \/ \E w \in Wish : LoadForCommand(p, w)
         \/ OpenHosts(p)
         \/ TakeBack(p)
         \/ Forgets(p) /\ UNCHANGED <<hostFile, asked, resaved, stale>> /\ torn' \in BOOLEAN
  PROVE  HostsTypeOK'
<1>1. CASE UNCHANGED hostVars
  BY <1>1 DEF hostVars, HostsTypeOK
<1>2. CASE LoadForServer(p)
  BY <1>2, LoadedIsMap DEF LoadForServer, HostsTypeOK
<1>3. CASE \E w \in Wish : LoadForCommand(p, w)
  BY <1>3, LoadedIsMap, ChangedIsMap DEF LoadForCommand, HostsTypeOK
<1>4. CASE OpenHosts(p)
  BY <1>4 DEF OpenHosts, HostsTypeOK
<1>5. CASE TakeBack(p)
  <2>1. [hosts[p] EXCEPT ![wish[p].name] = NoHost] \in Map
    BY DEF HostsTypeOK, Map
  <2> QED
    BY <1>5, <2>1 DEF TakeBack, HostsTypeOK
<1>6. CASE Forgets(p) /\ UNCHANGED <<hostFile, asked, resaved, stale>> /\ torn' \in BOOLEAN
  <2>1. EmptyMap \in Map
    BY DEF EmptyMap, Map
  <2> QED
    BY <1>6, <2>1 DEF Forgets, HostsTypeOK
<1> QED
  BY <1>1, <1>2, <1>3, <1>4, <1>5, <1>6

LEMMA WritingTyped ==
  ASSUME TypeOK, HostsInv, NEW p \in Pid, WriteHostsFile(p)
  PROVE  HostsTypeOK'
<1>1. CASE LoseHosts(p)
  BY <1>1, HostsTyped DEF LoseHosts, TypeOK
<1>2. CASE WriteHosts(p, at[p] = "text")
  <2>1. EmptyMap \in Map
    BY DEF EmptyMap, Map
  <2>2. hosts' \in [Pid -> Map] /\ wish' \in [Pid -> Wish \cup {NoWish}] /\ current' \subseteq Pid
    BY <1>2, <2>1 DEF WriteHosts, Forgets, TypeOK, HostsTypeOK
  <2>3. hostFile' \in Map
    BY <1>2, SavedIsMap DEF WriteHosts, TypeOK, HostsTypeOK
  <2>4. ASSUME at[p] = "text", ~stale, ~torn PROVE Changed(asked, wish[p]) \in Map
    <3>1. Accepts(asked, wish[p]) /\ wish[p] \in Wish
      BY <2>4 DEF HostsInv, SaverInv, MemoryInv, WishInv, Texting
    <3> QED
      BY <3>1, ChangedIsMap DEF TypeOK, HostsTypeOK
  <2> QED
    BY <1>2, <2>2, <2>3, <2>4 DEF WriteHosts, TypeOK, HostsTypeOK
<1> QED
  BY <1>1, <1>2 DEF WriteHostsFile

LEMMA StepTyped ==
  ASSUME TypeOK, PlaceInv, HostsInv, overlap' \in BOOLEAN, NEW p \in Pid,
         MainSteps(p) \/ HandlerSteps(p) \/ Surroundings(p) \/ StopReturns(p) \/ Destroyed(p)
  PROVE  TypeOK'
<1> USE DEF TypeOK, Place, Command, Signal
<1>0. ASSUME Ends(p), EndHosts(p, FALSE), UNCHANGED runs, KeepPidFile, KeepHistory PROVE TypeOK'
  <2>1. HostsTypeOK'
    BY <1>0, HostsTyped DEF EndHosts
  <2> QED
    BY <1>0, <2>1
<1>00. ASSUME Dies(p, at), UNCHANGED <<runs, intruded, hit>> PROVE TypeOK'
  <2>1. HostsTypeOK'
    BY <1>00, HostsTyped DEF EndHosts
  <2> QED
    BY <1>00, <2>1
<1>1. CASE LoadConfiguration(p)
  <2>1. CASE Goes(p, "bind") /\ LoadForServer(p)
             /\ UNCHANGED <<command, held, pending, flag, handler, port, served>>
    BY <1>1, <2>1, HostsTyped DEF LoadConfiguration
  <2> QED
    BY <1>0, <1>1, <2>1 DEF LoadConfiguration
<1>2. CASE StartThrows(p)
  BY <1>2, HostsTyped DEF StartThrows, KeepHosts
<1>3. CASE Bind(p)
  <2>1. CASE port' = p /\ served' = served \cup {p} /\ Goes(p, "open_pid") /\ KeepHosts
             /\ UNCHANGED <<command, held, pending, flag, handler>>
    BY <1>3, <2>1, HostsTyped DEF Bind, KeepHosts
  <2> QED
    BY <1>0, <1>3, <2>1 DEF Bind
<1>4. CASE OpenPidFile(p)
  BY <1>4, HostsTyped DEF OpenPidFile, KeepHosts
<1>5. CASE WritePidFile(p)
  BY <1>5, HostsTyped DEF WritePidFile, KeepHosts
<1>6. CASE LeaveMainLoop(p)
  BY <1>6, HostsTyped DEF LeaveMainLoop, KeepHosts
<1>7. CASE DropPidFile(p)
  <2>1. CASE KeepHosts
    BY <1>7, <2>1, <1>00, HostsTyped DEF DropPidFile, KeepHosts
  <2> QED
    BY <1>7, <2>1, <1>00 DEF DropPidFile
<1>8. CASE Exit(p)
  <2>1. CASE DestroyServer(p) /\ UNCHANGED <<pending, handler, left>> /\ KeepPidFile
    BY <1>8, <2>1, HostsTyped DEF DestroyServer, KeepHosts
  <2> QED
    BY <1>0, <1>8, <2>1 DEF Exit
<1>9. CASE ReadPidFile(p)
  BY <1>9, HostsTyped DEF ReadPidFile, KeepHosts
<1>10. CASE Check(p)
  BY <1>10, HostsTyped DEF Check, KeepHosts
<1>11. CASE Kill(p)
  <2> DEFINE q == held[p]
             onward == [at EXCEPT ![p] = AfterKill(command[p])]
  <2>1. q \in Pid /\ onward \in [Pid -> Place] /\ SignalOf(command[p]) \in Signal
    BY <1>11 DEF Kill, AfterKill, SignalOf
  <2>2. hit' \in BOOLEAN /\ UNCHANGED <<runs, intruded>>
    BY <1>11 DEF Kill
  <2>3. CASE ~Running(q) /\ Goes(p, "exit") /\ KeepPidFile /\ KeepHosts
             /\ UNCHANGED <<command, held, pending, flag, handler, port, served, left>>
    BY <2>2, <2>3, HostsTyped DEF KeepHosts
  <2>4. CASE Handles(q) /\ at' = onward /\ KeepPidFile /\ KeepHosts
             /\ pending' = [pending EXCEPT ![q] = @ \cup {SignalOf(command[p])}]
             /\ UNCHANGED <<command, held, flag, handler, port, served, left>>
    BY <2>1, <2>2, <2>4, HostsTyped DEF KeepHosts
  <2>5. CASE Running(q) /\ ~Handles(q) /\ Dies(q, onward)
    <3>1. HostsTypeOK'
      BY <2>1, <2>5, HostsTyped DEF EndHosts
    <3> QED
      BY <2>1, <2>2, <2>5, <3>1
  <2> QED
    BY <1>11, <2>3, <2>4, <2>5 DEF Kill
<1>12. CASE PollEnds(p)
  BY <1>12, HostsTyped DEF PollEnds, KeepHosts
<1>13. CASE GiveUpPolling(p)
  <2>1. HostsTypeOK'
    BY <1>13, HostsTyped DEF GiveUpPolling, EndHosts
  <2> QED
    BY <1>13, <2>1 DEF GiveUpPolling
<1>14. CASE Unlink(p)
  BY <1>14, HostsTyped DEF Unlink, KeepHosts
<1>15. CASE Manage(p)
  BY <1>15, HostsTyped DEF Manage, KeepProcesses, KeepHosts
<1>16. CASE OpenHostsFile(p)
  BY <1>16, HostsTyped DEF OpenHostsFile, KeepProcesses
<1>17. CASE OpenHostsFails(p)
  <2>1. HostsTypeOK'
    BY <1>17, HostsTyped DEF OpenHostsFails, KeepHosts
  <2> QED
    BY <1>17, <2>1 DEF OpenHostsFails, KeepProcesses
<1>18. CASE WriteHostsFile(p)
  <2>1. HostsTypeOK'
    BY <1>18, WritingTyped
  <2> QED
    BY <1>18, <2>1 DEF WriteHostsFile, KeepProcesses
<1>19. CASE Deliver(p)
  <2>1. PICK s \in pending[p] : Deliver(p)!(s)
    BY <1>19 DEF Deliver
  <2>2. CASE flag[p] = "no"
    BY <2>1, <2>2, HostsTyped DEF KeepHosts
  <2>3. CASE flag[p] # "no"
    <3>1. ForcedExit(p, s)
      BY <2>1, <2>3
    <3>2. CASE DestroyServer(p) /\ pidFile' = pidFile /\ opened' = opened \ {p}
               /\ pending' = [pending EXCEPT ![p] = @ \ {s}]
               /\ handler' = [handler EXCEPT ![p] = "no"]
               /\ left' = (left \/ pidFile = p \/ p \in opened)
      BY <3>2, HostsTyped DEF DestroyServer, KeepHosts
    <3> QED
      BY <1>00, <3>1, <3>2 DEF ForcedExit
  <2> QED
    BY <2>2, <2>3
<1>20. CASE HandlerStops(p)
  BY <1>20, HostsTyped DEF HandlerStops, KeepHosts
<1>21. CASE StopReturns(p)
  BY <1>21, HostsTyped DEF StopReturns, KeepHosts
<1>22. CASE HandlerRemoves(p)
  <2>1. CASE KeepHosts
    BY <1>22, <2>1, <1>00, HostsTyped DEF HandlerRemoves, KeepHosts
  <2> QED
    BY <1>22, <2>1, <1>00 DEF HandlerRemoves
<1>27. CASE Destroyed(p)
  BY <1>0, <1>27 DEF Destroyed
<1>23. ASSUME NEW c \in Command, Begin(p, c) PROVE TypeOK'
  BY <1>23, MaxRunsIsNat, HostsTyped DEF Begin, FirstPlace, KeepHosts
<1>24. CASE OtherComes(p) \/ OtherLeaves(p)
  BY <1>24, HostsTyped DEF OtherComes, OtherLeaves, KeepHosts
<1>25. CASE SignalByHand(p)
  BY <1>25, MaxRunsIsNat, HostsTyped DEF SignalByHand, KeepHosts
<1>26. CASE Crash(p)
  <2>1. HostsTypeOK'
    BY <1>26, HostsTyped DEF Crash, EndHosts
  <2> QED
    BY <1>26, <2>1 DEF Crash
<1> QED
  BY <1>1, <1>2, <1>3, <1>4, <1>5, <1>6, <1>7, <1>8, <1>9, <1>10, <1>11, <1>12, <1>13, <1>14,
     <1>15, <1>16, <1>17, <1>18, <1>19, <1>20, <1>21, <1>22, <1>23, <1>24, <1>25, <1>26,
     <1>27
     DEF MainSteps, ServerSteps, AskingSteps, VirtualSteps, HandlerSteps, Surroundings
-------------------------------------------------------------------------------
(* The hosts, beside the steps of the virtual commands.                     *)

LEMMA InitHosts == Init => TypeOK /\ HostsInv
<1> SUFFICES ASSUME Init PROVE TypeOK /\ HostsInv
  OBVIOUS
<1>1. EmptyMap \in Map
  BY DEF EmptyMap, Map
<1>2. HostsTypeOK
  <2>1. hostFile \in Map \cup {Missing, Broken} /\ Loaded \in Map
    BY <1>1, HostMarks DEF Init, HostsInit, Loaded
  <2> QED
    BY <1>1, <2>1 DEF Init, HostsInit, HostsTypeOK
<1>3. TypeOK
  <2>1. runs \in 0 .. MaxRuns
    BY MaxRunsIsNat DEF Init
  <2>2. {overlap, intruded, left, hit} \subseteq BOOLEAN
    BY DEF Init
  <2> QED
    BY <1>2, <2>1, <2>2 DEF Init, TypeOK, Place, Command, Signal
<1>4. hostFile # Broken /\ Loaded = Lasting
  BY HostMarks DEF Init, HostsInit, Lasting
<1> QED
  BY <1>3, <1>4 DEF Init, HostsInit, HostsInv, WishInv, SaverInv, AskedInv, MemoryInv, Texting

LEMMA LoadingKeepsHosts ==
  ASSUME TypeOK, HostsInv, NEW p \in Pid, at[p] = "load", Goes(p, "bind"), LoadForServer(p)
  PROVE  HostsInv'
BY DEF LoadForServer, TypeOK, HostsTypeOK, Texting, HostsInv, WishInv, SaverInv, AskedInv,
       MemoryInv, Loaded, Lasting

LEMMA StepKeepsHosts ==
  ASSUME TypeOK, PlaceInv, HostsInv, NEW p \in Pid,
         MainSteps(p) \/ HandlerSteps(p) \/ Surroundings(p) \/ StopReturns(p) \/ Destroyed(p)
  PROVE  HostsInv'
<1>0. current \subseteq Pid /\ HostsTypeOK
  BY DEF TypeOK, HostsTypeOK
<1>1. ASSUME KeepHosts,
             \/ at' = at
             \/ \E place \in Place \ Saving :
                  at' = [at EXCEPT ![p] = place] /\ at[p] \notin Saving \cup Over
             \/ at' = [at EXCEPT ![p] = "destroy"] /\ at[p] \notin Saving
      PROVE  HostsInv'
  <2>1. \A q \in Pid : Elsewhere(q)
    BY <1>1 DEF Elsewhere, TypeOK
  <2> QED
    BY <1>0, <1>1, <2>1, HostsStay DEF KeepHosts
<1>2. ASSUME NEW q \in Pid, EndHosts(q, Texting(q)), at'[q] = "free",
             \A r \in Pid \ {q} : at'[r] = at[r] \/ (at[r] \notin Saving \cup Over
                                                    /\ at'[r] \notin Saving)
      PROVE  HostsInv'
  BY <1>0, <1>2, HostsForgotten DEF Elsewhere
<1>3. ASSUME Ends(p), EndHosts(p, FALSE), ~Texting(p) PROVE HostsInv'
  <2>1. EndHosts(p, Texting(p))
    BY <1>3 DEF EndHosts
  <2> QED
    BY <1>2, <1>3, <2>1 DEF TypeOK
<1>9. ASSUME Dies(p, at) PROVE HostsInv'
  BY <1>2, <1>9 DEF Texting, TypeOK
<1>10. ASSUME DestroyServer(p), p \in served PROVE HostsInv'
  BY <1>1, <1>10 DEF DestroyServer
<1>4. CASE ServerSteps(p)
  <2>1. CASE LoadConfiguration(p)
    BY <1>3, <2>1, LoadingKeepsHosts DEF LoadConfiguration, Texting
  <2>2. CASE Bind(p)
    BY <1>1, <1>3, <2>2 DEF Bind, Place, Texting
  <2>3. CASE Exit(p)
    BY <1>3, <1>10, <2>3 DEF Exit, Texting
  <2>4. CASE DropPidFile(p)
    <3>1. CASE KeepHosts /\ Goes(p, "exit")
      BY <1>1, <2>4, <3>1 DEF DropPidFile, Place
    <3> QED
      BY <1>9, <2>4, <3>1 DEF DropPidFile
  <2>5. CASE OpenPidFile(p)
    BY <1>1, <2>5 DEF OpenPidFile, Place
  <2> QED
    BY <1>1, <1>4, <2>1, <2>2, <2>3, <2>4, <2>5
       DEF ServerSteps, StartThrows, WritePidFile, LeaveMainLoop, Place
<1>5. CASE AskingSteps(p)
  <2>1. CASE Kill(p)
    <3> DEFINE q == held[p]
               onward == [at EXCEPT ![p] = AfterKill(command[p])]
    <3>1. q \in Pid /\ at[p] = "kill" /\ AfterKill(command[p]) \in Place \ Saving
      BY <2>1 DEF Kill, AfterKill, Place
    <3>2. CASE Running(q) /\ ~Handles(q) /\ Dies(q, onward)
      <4>1. EndHosts(q, Texting(q)) /\ at'[q] = "free"
        BY <3>1, <3>2 DEF Texting
      <4>2. \A r \in Pid \ {q} : at'[r] = at[r] \/ (at[r] = "kill" /\ at'[r] \notin Saving)
        BY <3>1, <3>2 DEF TypeOK
      <4> QED
        BY <1>2, <3>1, <4>1, <4>2
    <3> QED
      BY <1>1, <2>1, <3>1, <3>2 DEF Kill, Place
  <2>2. CASE GiveUpPolling(p)
    <3>1. held[p] \in Pid /\ at[p] = "poll"
      BY <2>2 DEF GiveUpPolling
    <3>2. EndHosts(held[p], Texting(held[p])) /\ at'[held[p]] = "free"
      BY <2>2, <3>1 DEF GiveUpPolling, Texting
    <3>3. \A r \in Pid \ {held[p]} : at'[r] = at[r] \/ (at[r] = "poll" /\ at'[r] \notin Saving)
      BY <2>2, <3>1 DEF GiveUpPolling, TypeOK
    <3> QED
      BY <1>2, <3>1, <3>2, <3>3
  <2>3. CASE ReadPidFile(p) \/ Check(p) \/ PollEnds(p) \/ Unlink(p)
    BY <1>1, <2>3 DEF ReadPidFile, Check, PollEnds, Unlink, Place, TypeOK, Command
  <2> QED
    BY <1>5, <2>1, <2>2, <2>3 DEF AskingSteps
<1>6. CASE VirtualSteps(p)
  <2>1. CASE Manage(p)
    BY <1>1, <2>1, ManageKeepsHosts DEF Manage, Place
  <2> QED
    BY <1>6, <2>1, OpeningKeepsHosts, FailingKeepsHosts, WritingKeepsHosts DEF VirtualSteps
<1>7. CASE HandlerSteps(p) \/ StopReturns(p) \/ Destroyed(p)
  <2>1. CASE Deliver(p)
    <3>1. CASE KeepHosts /\ at' = at
      BY <1>1, <3>1
    <3>2. ASSUME NEW s \in Signal, ForcedExit(p, s) PROVE HostsInv'
      BY <1>9, <1>10, <3>2 DEF ForcedExit
    <3> QED
      BY <2>1, <3>1, <3>2 DEF Deliver, TypeOK
  <2>2. CASE HandlerRemoves(p)
    BY <1>1, <1>9, <2>2 DEF HandlerRemoves
  <2>3. CASE Destroyed(p)
    BY <1>3, <2>3 DEF Destroyed, Texting
  <2> QED
    BY <1>1, <1>7, <2>1, <2>2, <2>3 DEF HandlerSteps, HandlerStops, StopReturns
<1>8. CASE Surroundings(p)
  <2>1. CASE Crash(p)
    BY <1>2, <2>1 DEF Crash, Texting
  <2>2. ASSUME NEW c \in Command, Begin(p, c) PROVE HostsInv'
    BY <1>1, <2>2 DEF Begin, FirstPlace, Place
  <2> QED
    BY <1>1, <1>8, <2>1, <2>2 DEF Surroundings, OtherComes, OtherLeaves, SignalByHand, Place
<1> QED
  BY <1>4, <1>5, <1>6, <1>7, <1>8 DEF MainSteps
-------------------------------------------------------------------------------
(* Together.                                                                *)

IInv == TypeOK /\ ProcInv /\ HostsInv

LEMMA StepKeepsInvariant ==
  ASSUME IInv, [Next]_vars
  PROVE  IInv'
<1>1. CASE UNCHANGED vars
  <2>1. TypeOK' /\ Parts'
    BY <1>1 DEF IInv, vars, procVars, hostVars, TypeOK, HostsTypeOK
  <2>2. MeetInv'
    BY <1>1 DEF IInv, MeetInv, Meeting, Commanding, vars, procVars
  <2>3. HostsInv'
    BY <1>1, HostsStay DEF IInv, Elsewhere, vars, procVars, TypeOK, HostsTypeOK
  <2> QED
    BY <2>1, <2>2, <2>3 DEF IInv
<1>2. CASE \E p \in Pid : /\ MainSteps(p) \/ HandlerSteps(p) \/ Surroundings(p) \/ StopReturns(p) \/ Destroyed(p)
                         /\ overlap' = (overlap \/ Meeting')
  <2>1. PICK p \in Pid : /\ MainSteps(p) \/ HandlerSteps(p) \/ Surroundings(p) \/ StopReturns(p) \/ Destroyed(p)
                        /\ overlap' = (overlap \/ Meeting')
    BY <1>2
  <2>2. overlap' \in BOOLEAN /\ (overlap => overlap') /\ MeetInv'
    BY <2>1 DEF MeetInv
  <2>3. TypeOK'
    BY <2>1, <2>2, StepTyped DEF IInv
  <2>4. HostsInv'
    BY <2>1, StepKeepsHosts DEF IInv
  <2>5. Parts'
    BY <2>1, <2>2, ServerKeepsParts, AskingKeepsParts, VirtualKeepsParts, HandlerKeepsParts,
       SurroundingsKeepParts DEF IInv, MainSteps
  <2> QED
    BY <2>2, <2>3, <2>4, <2>5 DEF IInv
<1> QED
  BY <1>1, <1>2 DEF Next, Terminated

\* Every reachable state, whatever the number of processes, has its types,
\* its processes where the code can put them, and its hosts as asked.
THEOREM InductiveInvariant == Spec => []IInv
<1>1. Init => IInv
  BY InitProcesses, InitHosts DEF IInv
<1> QED
  BY <1>1, StepKeepsInvariant, PTL DEF Spec

\* Type correctness.
THEOREM TypeCorrect == Spec => []TypeOK
BY InductiveInvariant, PTL DEF IInv

\* While a server serves, unsignalled, the PID file names it, unless commands
\* have met or a start beside a running server has removed the file:
\* removePidFile() in startServer() and signalHandler() asks for no owner.  A server
\* that dropped its privileges before writePidFile() may be named by nothing.
THEOREM ServingIsNamed == Spec => []ServerIsNamed
<1>1. IInv => ServerIsNamed
  BY DEF IInv, ServerIsNamed
<1> QED
  BY <1>1, InductiveInvariant, PTL

\* When no process of the program is left, there is no PID file, unless one
\* died, was ended by a second signal, or threw since it may not remove the file:
\* writePidFile() and removePidFile() go together on every other path.
THEOREM NoFileLeftBehind == Spec => []NothingLeftBehind
<1>1. IInv => NothingLeftBehind
  <2> SUFFICES ASSUME IInv, ~left, \A p \in Pid : ~Ours(p) \/ command[p] = "virtual"
               PROVE  pidFile = Nobody
    BY DEF NothingLeftBehind
  <2>1. opened = {}
    BY DEF IInv, TypeOK
  <2>2. pidFile \notin Pid /\ pidFile # Blank
    BY <2>1 DEF IInv
  <2> QED
    BY <2>2 DEF IInv, TypeOK
<1> QED
  BY <1>1, InductiveInvariant, PTL

\* kill() in stopServer() and reloadConfiguration() reaches a server, unless a
\* process died and left its file, or a start was writing it meanwhile.
THEOREM SignalsReachServers == Spec => []OnlyServersAreSignalled
<1>1. IInv => OnlyServersAreSignalled
  BY DEF IInv, OnlyServersAreSignalled
<1> QED
  BY <1>1, InductiveInvariant, PTL

\* restartServer() finds the port free when it goes on to startServer(), but for a
\* server that could not write the PID file by which it would have been found.
THEOREM RestartsFindPort == Spec => []RestartFindsPortFree
<1>1. IInv => RestartFindsPortFree
  BY DEF IInv, RestartFindsPortFree
<1> QED
  BY <1>1, InductiveInvariant, PTL

\* Between saves, the virtual hosts file has the hosts and settings that the commands
\* which reported success asked for; an addition that failed was taken back,
\* addVirtualHost().  Their texts for error replies are there until the first save,
\* of a command that succeeds or fails, and never after it: saveToFile().
THEOREM HostsAreAsked == Spec => []HostsAreAsAsked
<1>1. IInv => HostsAreAsAsked
  BY DEF IInv, HostsInv, AskedInv, Lasting, HostsAreAsAsked, Texting
<1> QED
  BY <1>1, InductiveInvariant, PTL
===============================================================================
