---------------------------- MODULE VirtualHosts ----------------------------
(***************************************************************************)
(* FTPVirtualHostManager (virtual_host/virtual_host_manager.cpp): a map    *)
(* from host names to hosts, kept in a JSON file that every process loads  *)
(* when it constructs a manager and that the `virtual` commands of the     *)
(* command line (main/production.cpp) save.  A save is two steps, as in    *)
(* the code: the opening, which empties the file, and the text.  Nothing   *)
(* locks the file.                                                         *)
(*                                                                         *)
(* ProcessControl says when a process takes these steps.                   *)
(***************************************************************************)
EXTENDS Naturals

CONSTANTS
  Pid,        \* process identifiers
  Hostname,   \* names of virtual hosts
  Setting,    \* what a host is configured to: root, certificate, limits, ...
  NoHost,     \* no entry under a name
  NoWish,     \* no virtual command
  Missing,    \* there is no file
  Broken,     \* the file does not parse
  FirstFile   \* the files to begin with

VARIABLES
  hosts,      \* hosts[p] : virtual_hosts_ in the memory of process p
  wish,       \* wish[p] : what the virtual command that p runs asks for
  hostFile,   \* the file
  current,    \* history: the processes that have read what is in the file
  asked,      \* history: the hosts by the commands that reported success, with
              \* all their texts, until a save is stale or torn
  resaved,    \* history: a save has been completed
  stale,      \* history: a save has replaced what its process had not read
  torn        \* history: a save has been left without its text

hostVars == <<hosts, wish, hostFile, current, asked, resaved, stale, torn>>

\* A host; `custom`: whether it has texts of its own for error replies.
Host == [setting : Setting, enabled : BOOLEAN, custom : BOOLEAN]
Map == [Hostname -> Host \cup {NoHost}]
EmptyMap == [h \in Hostname |-> NoHost]

\* What saveVirtualHosts() writes of a map: it forgets the texts.
Saved(m) ==
  [h \in Hostname |-> IF m[h] = NoHost THEN NoHost
                      ELSE [m[h] EXCEPT !.custom = FALSE]]

\* What loadVirtualHosts() leaves in a new manager: a file that does not
\* parse, like one that is not there, leaves the map empty, and the
\* constructor does not look at the result.
Loaded == IF hostFile \in {Missing, Broken} THEN EmptyMap ELSE hostFile

\* The subcommands that save, with their options; enable and disable are
\* "modify" with one option.  An option that is not given is what the host has.
Subcommand == {"add", "remove", "modify"}
Wish == {w \in [does : Subcommand, name : Hostname, to : Setting, on : BOOLEAN] :
           w.does = "remove" => w.on}

ASSUME HostMarks ==
  /\ NoHost \notin Host
  /\ NoWish \notin Wish
  /\ {Missing, Broken} \cap Map = {}
  /\ Missing # Broken
  /\ FirstFile \subseteq Map \cup {Missing}

HostsTypeOK ==
  /\ hosts \in [Pid -> Map]
  /\ wish \in [Pid -> Wish \cup {NoWish}]
  /\ hostFile \in Map \cup {Missing, Broken}
  /\ current \subseteq Pid
  /\ asked \in Map
  /\ resaved \in BOOLEAN
  /\ stale \in BOOLEAN
  /\ torn \in BOOLEAN

HostsInit ==
  /\ hosts = [p \in Pid |-> EmptyMap]
  /\ wish = [p \in Pid |-> NoWish]
  /\ hostFile \in FirstFile
  /\ current = {}
  /\ asked = Loaded
  /\ resaved = FALSE
  /\ stale = FALSE
  /\ torn = FALSE

\* A process that is gone has no memory.
Forgets(p) ==
  /\ hosts' = [hosts EXCEPT ![p] = EmptyMap]
  /\ wish' = [wish EXCEPT ![p] = NoWish]
  /\ current' = current \ {p}

-----------------------------------------------------------------------------
(***************************************************************************)
(* The commands on a map                                                   *)
(***************************************************************************)

\* Whether the command goes on to save: an addition needs a free name, the
\* others a host.
Accepts(m, w) == (w.does = "add") <=> (m[w.name] = NoHost)

NewHost(w) == [setting |-> w.to, enabled |-> w.on, custom |-> FALSE]

Changed(m, w) ==
  [m EXCEPT ![w.name] =
     CASE w.does = "add"     -> NewHost(w)
       [] w.does = "remove"  -> NoHost
       [] w.does = "modify"  -> [@ EXCEPT !.setting = w.to, !.enabled = w.on]]

\* The manager that FTPServer constructs: it is loaded once and never again.
LoadForServer(p) ==
  /\ hosts' = [hosts EXCEPT ![p] = Loaded]
  /\ UNCHANGED <<wish, hostFile, current, asked, resaved, stale, torn>>

\* The manager of a virtual command, and the change in memory.
LoadForCommand(p, w) ==
  /\ Accepts(Loaded, w)
  /\ hosts' = [hosts EXCEPT ![p] = Changed(Loaded, w)]
  /\ wish' = [wish EXCEPT ![p] = w]
  /\ current' = IF hostFile = Broken THEN current ELSE current \cup {p}
  /\ UNCHANGED <<hostFile, asked, resaved, stale, torn>>

\* saveVirtualHosts() opens the file, and by that empties it.
OpenHosts(p) ==
  /\ hostFile' = Broken
  /\ stale' = (stale \/ p \notin current)
  /\ current' = current \cap {p}
  /\ UNCHANGED <<hosts, wish, asked, resaved, torn>>

\* A host that stays in memory, so that the second save has it.
TakeNothingBack(p) ==
  /\ hosts' = hosts
  /\ UNCHANGED <<wish, hostFile, current, asked, resaved, stale, torn>>

\* addVirtualHost() could not save and calls removeVirtualHost(), which will
\* save again.
TakeBack(p) ==
  /\ hosts' = [hosts EXCEPT ![p][wish[p].name] = NoHost]
  /\ UNCHANGED <<wish, hostFile, current, asked, resaved, stale, torn>>

\* The text of a save arrives; `done` is what the command then reports.
WriteHosts(p, done) ==
  /\ hostFile' = Saved(hosts[p])
  /\ asked' = IF done /\ ~stale /\ ~torn THEN Changed(asked, wish[p]) ELSE asked
  /\ resaved' = TRUE
  /\ Forgets(p)
  /\ UNCHANGED <<stale, torn>>

\* It does not: the disk is full, and nothing looks at the stream.
LoseHosts(p) ==
  /\ torn' = TRUE
  /\ Forgets(p)
  /\ UNCHANGED <<hostFile, asked, resaved, stale>>

\* A process ends, between the two steps of a save if `saving`.
EndHosts(p, saving) ==
  /\ torn' = (torn \/ saving)
  /\ Forgets(p)
  /\ UNCHANGED <<hostFile, asked, resaved, stale>>
=============================================================================
