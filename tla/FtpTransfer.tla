------------------------------ MODULE FtpTransfer ------------------------------
(***************************************************************************)
(* The bytes of RETR, STOR and APPE (core/connection.cpp): several         *)
(* sessions read and write the same files over data connections that may   *)
(* break or stall, on a disk that may fail, under a storage quota.         *)
(*                                                                         *)
(* A download is sendfile(), then send() from a mapping of the file, then  *)
(* read() and send(), each going on where it thinks the one before it      *)
(* stopped.  An upload goes through the buffer of an ofstream.             *)
(***************************************************************************)
EXTENDS Integers, Sequences, FiniteSets, Functions

CONSTANTS
    Session, File,
    Missing,                    \* no such file
    FirstContent,               \* what the files may hold at first
    UseSendfile, UseMmap,       \* config transfer.use_sendfile, .use_mmap
    Chunk,                      \* bytes per call (config transfer.buffer_size; 8192)
    Page,                       \* bytes per page of a mapping
    Quota,                      \* storage_quota_bytes (0: none)
    MaxUp, MaxRest, MaxJobs     \* bounds: bytes per upload, REST, commands

ASSUME FlagsAreBoolean == UseSendfile \in BOOLEAN /\ UseMmap \in BOOLEAN
ASSUME SizesArePositive == Chunk \in Nat \ {0} /\ Page \in Nat \ {0}
ASSUME BoundsAreNat == {Quota, MaxUp, MaxRest, MaxJobs} \subseteq Nat
ASSUME SetsAreFinite == IsFiniteSet(Session) /\ IsFiniteSet(File) /\ File # {}

\* A byte: the command that stored it (0: none) and the place that its sender
\* meant it for; the k-th byte of an APPE has -k.
Byte == [job : 0..MaxJobs, place : Int]
Hole == [job |-> 0, place |-> -1]
Old(n) == [i \in 1..n |-> [job |-> 0, place |-> i - 1]]

ASSUME MissingIsNoContent == Missing \notin Seq(Byte)
ASSUME FirstContentIsOld ==
    \A c \in FirstContent :
        /\ c \in [File -> Seq(Byte) \cup {Missing}]
        /\ \A f \in File : c[f] # Missing => c[f] = Old(Len(c[f]))

VARIABLES
    content,    \* the files
    rest,       \* resume_position_
    at,         \* where the handler is: "idle", "wait" for the data connection,
                \* "open", in a loop ("sendfile", "mmap", "read", "recv"),
                \* or in the endless loop of a compressed upload ("spin")
    cmd,        \* the command, its file, and whether the mode is Z
    jobs,       \* commands begun
    no,         \* the number of the command
    how,        \* how STOR and APPE open: "trunc", "update" in place, "append"
    meant,      \* number of bytes that the client of an upload sends
    size,       \* file_size
    offset,     \* offset: where the next method starts
    pos,        \* place of the next byte in the mapping, the file or the stream
    buf,        \* what the ofstream has not written yet
    broken,     \* sessions whose data connection is lost
    faulty,     \* sessions that met a disk error, which an ofstream remembers
    reply,      \* the answer to the last command
    from,       \* history: resume_position_ when the file was opened
    before,     \* history: the file then
    got,        \* history: the places of the bytes that the client received, -1
                \* for one that is in no file
    stored,     \* history: number of bytes that recv() got from the client
    disturbed,  \* history: sessions whose file another one has changed since
    trampled,   \* history: ... other than by appending to it
    stalled,    \* history: sessions with a send() from the mapping that timed out
    cut,        \* history: ... a last send() that was short or timed out, or a
                \* failed recv()
    strayed,    \* history: commands that resumed a file that was not there, or
                \* could not be opened for update
    peak        \* history: largest number of STORs admitted at once

disk == <<content, strayed>>
session == <<jobs, cmd, no, how, size, meant>>
download == <<offset, got, stalled>>
upload == <<buf, stored>>
opened == <<from, before>>
others == <<disturbed, trampled>>
vars == <<disk, session, download, upload, opened, others,
          rest, at, pos, broken, faulty, reply, cut, peak>>

LenOf(f) == IF content[f] = Missing THEN 0 ELSE Len(content[f])

\* getDirectorySize() of the home.
Total == SumFunction([f \in File |-> LenOf(f)])

Smaller(m, n) == IF m <= n THEN m ELSE n
Larger(m, n) == IF m <= n THEN n ELSE m

NoCmd == [kind |-> "none", file |-> CHOOSE f \in File : TRUE, z |-> FALSE]

Init ==
    /\ content \in FirstContent
    /\ rest = [s \in Session |-> 0]
    /\ at = [s \in Session |-> "idle"]
    /\ cmd = [s \in Session |-> NoCmd]
    /\ jobs = 0
    /\ no = [s \in Session |-> 0]
    /\ how = [s \in Session |-> "trunc"]
    /\ size = [s \in Session |-> 0]
    /\ meant = [s \in Session |-> 0]
    /\ offset = [s \in Session |-> 0]
    /\ pos = [s \in Session |-> 0]
    /\ buf = [s \in Session |-> <<>>]
    /\ broken = {} /\ faulty = {}
    /\ reply = [s \in Session |-> 0]
    /\ from = [s \in Session |-> 0]
    /\ before = [s \in Session |-> Missing]
    /\ got = [s \in Session |-> <<>>]
    /\ stored = [s \in Session |-> 0]
    /\ disturbed = {} /\ trampled = {} /\ stalled = {} /\ cut = {} /\ strayed = {}
    /\ peak = 0

------------------------------------------------------------------------------
(* Beginning a transfer.                                                     *)

\* STORs between their quota check and their end.
Admitted == {s \in Session : at[s] # "idle" /\ cmd[s].kind = "STOR"}

\* handleREST()
Rest(s, n) ==
    /\ at[s] = "idle" /\ jobs < MaxJobs
    /\ rest' = [rest EXCEPT ![s] = n]
    /\ UNCHANGED <<disk, session, download, upload, opened, others, at, pos,
                   broken, faulty, reply, cut, peak>>

\* A STOR that does not look at the quota.
AllowedUnmetered(s, kind, f, z) ==
    /\ kind = "RETR" => content[f] # Missing
    /\ kind = "APPE" => ~z

\* What the handlers check before their "150".
Allowed(s, kind, f, z) ==
    /\ kind = "RETR" => content[f] # Missing
    /\ kind = "STOR" => Quota = 0 \/ Total < Quota
    /\ kind = "APPE" => ~z

\* The client of an upload means to send n bytes.
Start(s, kind, f, z, n) ==
    /\ at[s] = "idle"
    /\ jobs < MaxJobs
    /\ jobs' = jobs + 1
    /\ Allowed(s, kind, f, z)
    /\ z => rest[s] = 0
    /\ kind = "RETR" => n = 0
    /\ at' = [at EXCEPT ![s] = "wait"]
    /\ cmd' = [cmd EXCEPT ![s] = [kind |-> kind, file |-> f, z |-> z]]
    /\ no' = [no EXCEPT ![s] = jobs + 1]
    /\ meant' = [meant EXCEPT ![s] = n]
    /\ reply' = [reply EXCEPT ![s] = 150]
    /\ got' = [got EXCEPT ![s] = <<>>]
    /\ stored' = [stored EXCEPT ![s] = 0]
    /\ broken' = broken \ {s}
    /\ faulty' = faulty \ {s}
    /\ stalled' = stalled \ {s}
    /\ cut' = cut \ {s}
    /\ disturbed' = disturbed \ {s}
    /\ trampled' = trampled \ {s}
    /\ peak' = IF kind = "STOR" THEN Larger(peak, Cardinality(Admitted \cup {s})) ELSE peak
    /\ UNCHANGED <<disk, opened, how, size, offset, buf, rest, pos>>

\* MODE Z does not go with REST, which is used up by trying.
RefuseRest(s, kind, f) ==
    /\ at[s] = "idle"
    /\ kind # "APPE" /\ Allowed(s, kind, f, TRUE)
    /\ rest[s] > 0 /\ jobs < MaxJobs
    /\ rest' = [rest EXCEPT ![s] = 0]
    /\ reply' = [reply EXCEPT ![s] = 550]
    /\ UNCHANGED <<disk, session, download, upload, opened, others, at, pos,
                   broken, faulty, cut, peak>>

\* 425: nobody connects; 550: the file cannot be opened.
GiveUp(s) ==
    /\ at[s] \in {"wait", "open"}
    /\ at' = [at EXCEPT ![s] = "idle"]
    /\ reply' = [reply EXCEPT ![s] = IF at[s] = "wait" THEN 425 ELSE 550]
    /\ UNCHANGED <<disk, session, download, upload, opened, others, rest, pos,
                   broken, faulty, cut, peak>>

\* acceptDataConnection(), and how the upload will open its file.
Connect(s) ==
    /\ at[s] = "wait"
    /\ at' = [at EXCEPT ![s] = "open"]
    /\ how' = [how EXCEPT ![s] =
                  IF content[cmd[s].file] = Missing THEN "trunc"
                  ELSE IF cmd[s].kind = "APPE" THEN "append"
                  ELSE IF cmd[s].kind = "STOR" /\ rest[s] > 0 THEN "update" ELSE "trunc"]
    /\ UNCHANGED <<disk, jobs, cmd, no, size, meant, download, upload, opened,
                   others, rest, pos, broken, faulty, reply, cut, peak>>

\* The transfer ends with this reply; so does the use of REST.
End(s, r) ==
    /\ at' = [at EXCEPT ![s] = "idle"]
    /\ rest' = [rest EXCEPT ![s] = 0]
    /\ reply' = [reply EXCEPT ![s] = r]

\* Handlers that have this file open, or had it for their last command.
Users(s, f) == {r \in Session \ {s} : cmd[r].file = f /\ at[r] \notin {"wait", "open"}}

\* s changes its file, by no more than appending if soft.
Disturb(s, soft) ==
    /\ disturbed' = disturbed \cup Users(s, cmd[s].file)
    /\ trampled' = IF soft THEN trampled ELSE trampled \cup Users(s, cmd[s].file)

------------------------------------------------------------------------------
(* RETR.                                                                     *)

\* mmap() is used for what sendfile() left over.
AfterSendfile(s, o) == IF UseMmap /\ o < size[s] THEN "mmap" ELSE "read"

\* open() and fstat(); MODE Z only reads.
OpenDownload(s) ==
    /\ at[s] = "open" /\ cmd[s].kind = "RETR"
    /\ LET n == LenOf(cmd[s].file) IN
        /\ size' = [size EXCEPT ![s] = n]
        /\ IF rest[s] > 0 /\ rest[s] >= n THEN End(s, 226)
           ELSE /\ at' = [at EXCEPT ![s] =
                            IF cmd[s].z \/ n = 0 THEN "read"
                            ELSE IF UseSendfile THEN "sendfile"
                            ELSE IF UseMmap THEN "mmap" ELSE "read"]
                /\ UNCHANGED <<rest, reply>>
    /\ offset' = [offset EXCEPT ![s] = rest[s]]
    /\ pos' = [pos EXCEPT ![s] = rest[s]]
    /\ from' = [from EXCEPT ![s] = rest[s]]
    /\ before' = [before EXCEPT ![s] = content[cmd[s].file]]
    /\ UNCHANGED <<disk, jobs, cmd, no, how, meant, got, stalled, upload,
                   others, broken, faulty, cut, peak>>

\* A length taken for the index of the last byte.
LeftButOne(s) == size[s] - 1 - pos[s]

Left(s) == size[s] - pos[s]
InFile(s) == LenOf(cmd[s].file)

\* n bytes reach the client.
Deliver(s, n) ==
    /\ s \notin broken
    /\ got' = [got EXCEPT ![s] = @ \o
          [i \in 1..n |-> IF pos[s] + i <= InFile(s) THEN pos[s] + i - 1 ELSE -1]]
    /\ pos' = [pos EXCEPT ![s] = @ + n]

\* The handler goes on at w.
Goto(s, w) == at' = [at EXCEPT ![s] = w] /\ UNCHANGED <<rest, reply>>

\* sendfile() sends up to a chunk, or less of it.  The kernel advances offset.
Sendfile(s, n) ==
    /\ at[s] = "sendfile"
    /\ n <= Smaller(Smaller(Chunk, Left(s)), InFile(s) - pos[s])
    /\ Deliver(s, n)
    /\ offset' = [offset EXCEPT ![s] = @ + n]
    /\ IF n = Left(s) THEN End(s, 226)
       ELSE Goto(s, IF n = Chunk THEN "sendfile" ELSE AfterSendfile(s, offset[s] + n))
    /\ UNCHANGED <<disk, session, stalled, upload, opened, others, broken,
                   faulty, cut, peak>>

\* ... or nothing.
SendfileStops(s) ==
    /\ at[s] = "sendfile"
    /\ s \in broken \/ InFile(s) <= pos[s]
    /\ Goto(s, AfterSendfile(s, offset[s]))
    /\ UNCHANGED <<disk, session, download, upload, opened, others, pos,
                   broken, faulty, cut, peak>>

\* A page of a mapping can be read as long as the file reaches into it.
Mapped(s, place) == place \div Page <= (InFile(s) - 1) \div Page

\* send() from the mapping; offset stays.
SendMapped(s, n) ==
    /\ at[s] = "mmap"
    /\ n <= Smaller(Chunk, Left(s))
    /\ Mapped(s, pos[s] + n - 1)
    /\ Deliver(s, n)
    /\ IF n = Left(s) THEN End(s, 226) ELSE Goto(s, "mmap")
    /\ UNCHANGED <<disk, session, offset, stalled, upload, opened, others,
                   broken, faulty, cut, peak>>

\* A send from the mapping that sends less than a chunk ends it.
MmapStopsEarly(s) ==
    /\ at[s] = "mmap"
    /\ Goto(s, "read")
    /\ pos' = [pos EXCEPT ![s] = offset[s]]
    /\ UNCHANGED <<disk, session, download, upload, opened, others, broken,
                   faulty, cut, peak>>

\* A send fails since the connection is lost or the file has become shorter, or the
\* mmap() itself fails: what follows starts at offset.
MmapStops(s) ==
    /\ at[s] = "mmap"
    /\ s \in broken \/ ~Mapped(s, pos[s]) \/ pos[s] = offset[s]
    /\ Goto(s, "read")
    /\ pos' = [pos EXCEPT ![s] = offset[s]]
    /\ UNCHANGED <<disk, session, download, upload, opened, others, broken,
                   faulty, cut, peak>>

\* read() of a chunk and send() of it, which ends the transfer when it is short.
ReadAndSend(s, n) ==
    /\ at[s] = "read"
    /\ LET chunk == Smaller(Smaller(Chunk, Left(s)), InFile(s) - pos[s]) IN
        /\ n <= chunk
        /\ cut' = IF n < chunk THEN cut \cup {s} ELSE cut
        /\ IF n < chunk \/ n = Left(s) THEN End(s, 226) ELSE Goto(s, "read")
    /\ Deliver(s, n)
    /\ UNCHANGED <<disk, session, offset, stalled, upload, opened, others,
                   broken, faulty, peak>>

\* A loop that goes on when send() has failed.
ReadStopsAtEnd(s) ==
    /\ at[s] = "read"
    /\ InFile(s) <= pos[s] \/ Left(s) = 0
    /\ End(s, 226)
    /\ UNCHANGED <<disk, session, download, upload, opened, others, pos,
                   broken, faulty, cut, peak>>

\* Nothing more to read or to send to.
ReadStops(s) ==
    /\ at[s] = "read"
    /\ s \in broken \/ InFile(s) <= pos[s] \/ Left(s) = 0
    /\ End(s, 226)
    /\ UNCHANGED <<disk, session, download, upload, opened, others, pos,
                   broken, faulty, cut, peak>>

\* A call of any method fails: the next one starts at offset.
Abandon(s) ==
    /\ at[s] \in {"sendfile", "mmap", "read"}
    /\ IF at[s] = "read" THEN End(s, 226)
       ELSE Goto(s, IF at[s] = "mmap" THEN "read" ELSE AfterSendfile(s, offset[s]))
    /\ pos' = [pos EXCEPT ![s] = offset[s]]

\* The disk fails under a download.
DiskError(s) ==
    /\ Abandon(s)
    /\ faulty' = faulty \cup {s}
    /\ UNCHANGED <<disk, session, download, upload, opened, others, broken,
                   cut, peak>>

\* The client takes nothing for as long as SO_SNDTIMEO, which active mode sets
\* (connectActiveDataSocket()); the connection lives, and a later send() may work.
SendTimesOut(s) ==
    /\ Abandon(s)
    /\ s \notin broken
    /\ stalled' = IF at[s] = "mmap" THEN stalled \cup {s} ELSE stalled
    /\ cut' = IF at[s] = "read" THEN cut \cup {s} ELSE cut
    /\ UNCHANGED <<disk, session, offset, got, upload, opened, others, broken,
                   faulty, peak>>

\* The data connection of a download is lost.
Disconnect(s) ==
    /\ at[s] \in {"sendfile", "mmap", "read"}
    /\ s \notin broken
    /\ broken' = broken \cup {s}
    /\ UNCHANGED <<disk, session, download, upload, opened, others, rest, at,
                   pos, faulty, reply, cut, peak>>

------------------------------------------------------------------------------
(* STOR and APPE.                                                            *)

\* Text c after bytes b are written at a place, with a hole if c ends before it.
Overwrite(c, place, b) ==
    IF b = <<>> THEN c
    ELSE [i \in 1..Larger(Len(c), place + Len(b)) |->
            IF i \in place + 1 .. place + Len(b) THEN b[i - place]
            ELSE IF i <= Len(c) THEN c[i] ELSE Hole]

\* The k-th byte of the upload.
Sent(s, k) == [job |-> no[s], place |-> IF cmd[s].kind = "APPE" THEN -k ELSE from[s] + k - 1]

\* A stream that is opened for update and not moved to the position.
StartAtZero(s, w) == IF w = "append" THEN LenOf(cmd[s].file) ELSE 0

\* Where the stream of an upload that was opened as w stands at first.
StartOf(s, w) ==
    IF w = "append" THEN LenOf(cmd[s].file) ELSE IF w = "update" THEN rest[s] ELSE 0

\* A stream that was moved to the end once (ios::ate).
PlaceSinceOpen(s) == pos[s]

\* Where it writes: ios::app moves it to the end before each write.
PlaceOf(s) == IF how[s] = "append" THEN LenOf(cmd[s].file) ELSE pos[s]

\* What an open comes to: one for update that fails is tried again with truncation.
OpensAs(s) == IF how[s] = "update" THEN {"update", "trunc"} ELSE {how[s]}

OpenUpload(s, w) ==
    /\ at[s] = "open" /\ cmd[s].kind # "RETR"
    /\ w \in OpensAs(s)
    /\ how' = [how EXCEPT ![s] = w]
    /\ LET f == cmd[s].file IN
        /\ content' = [content EXCEPT ![f] = IF w = "trunc" THEN <<>> ELSE @]
        /\ IF w = "trunc" THEN Disturb(s, FALSE) ELSE UNCHANGED others
        /\ before' = [before EXCEPT ![s] = content[f]]
    /\ at' = [at EXCEPT ![s] = "recv"]
    /\ pos' = [pos EXCEPT ![s] = StartOf(s, w)]
    /\ buf' = [buf EXCEPT ![s] = <<>>]
    /\ from' = [from EXCEPT ![s] = rest[s]]
    /\ strayed' = IF cmd[s].kind = "STOR" /\ rest[s] > 0 /\ w = "trunc"
                  THEN strayed \cup {no[s]} ELSE strayed
    /\ UNCHANGED <<jobs, cmd, no, size, meant, download, stored, rest, broken,
                   faulty, reply, cut, peak>>

\* The stream writes b, unless it has failed before.
Flush(s, b) ==
    \/ /\ s \in faulty \/ b = <<>>
       /\ UNCHANGED <<disk, others, pos>>
    \/ /\ s \notin faulty /\ b # <<>>
       /\ content' = [content EXCEPT ![cmd[s].file] = Overwrite(@, PlaceOf(s), b)]
       /\ pos' = [pos EXCEPT ![s] = @ + Len(b)]
       /\ Disturb(s, how[s] = "append")
       /\ UNCHANGED strayed

\* recv() and write(): the stream keeps the bytes, or writes what it has.
Receive(s, n, keep) ==
    /\ at[s] = "recv"
    /\ n <= Smaller(Chunk, meant[s] - stored[s])
    /\ LET b == buf[s] \o [k \in 1..n |-> Sent(s, stored[s] + k)] IN
        IF keep THEN buf' = [buf EXCEPT ![s] = b] /\ UNCHANGED <<disk, others, pos>>
        ELSE buf' = [buf EXCEPT ![s] = <<>>] /\ Flush(s, b)
    /\ stored' = [stored EXCEPT ![s] = @ + n]
    /\ UNCHANGED <<session, download, opened, rest, at, broken, faulty, reply,
                   cut, peak>>

\* close() without a last write.
CloseUnwritten(s) ==
    /\ UNCHANGED <<disk, others, pos>>
    /\ buf' = [buf EXCEPT ![s] = <<>>]

\* close() of the stream.
CloseFile(s) ==
    /\ Flush(s, buf[s])
    /\ buf' = [buf EXCEPT ![s] = <<>>]

\* The client has sent what it means to and closes the data connection.
Finish(s) ==
    /\ at[s] = "recv"
    /\ stored[s] = meant[s]
    /\ CloseFile(s)
    /\ End(s, 226)
    /\ UNCHANGED <<session, download, stored, opened, broken, faulty, cut,
                   peak>>

\* It does so before its compressed stream is complete: inflate() has no input
\* left, and the loop of ZlibStream::process() waits for the end of the stream.
EndEarly(s) ==
    /\ at[s] = "recv" /\ cmd[s].z
    /\ Goto(s, "spin")
    /\ UNCHANGED <<disk, session, download, upload, opened, others, pos,
                   broken, faulty, cut, peak>>

\* A round of that loop.
Spin(s) == at[s] = "spin" /\ UNCHANGED vars

\* recv() fails or times out, or inflate() fails; only MODE Z takes notice.
ReceiveFails(s) ==
    /\ at[s] = "recv"
    /\ CloseFile(s)
    /\ End(s, IF cmd[s].z THEN 426 ELSE 226)
    /\ cut' = cut \cup {s}
    /\ UNCHANGED <<session, download, stored, opened, broken, faulty, peak>>

\* The disk is full: the stream drops what it has and whatever follows.
DiskFull(s) ==
    /\ at[s] = "recv" /\ buf[s] # <<>>
    /\ buf' = [buf EXCEPT ![s] = <<>>]
    /\ faulty' = faulty \cup {s}
    /\ UNCHANGED <<disk, session, download, stored, opened, others, rest, at,
                   pos, broken, reply, cut, peak>>

------------------------------------------------------------------------------
Terminated ==
    /\ jobs = MaxJobs
    /\ \A s \in Session : at[s] = "idle"
    /\ UNCHANGED vars

\* What the handler does, and in the end the client.
Work(s) ==
    \/ GiveUp(s) \/ Connect(s) \/ OpenDownload(s)
    \/ \E w \in {"trunc", "update", "append"} : OpenUpload(s, w)
    \/ \E n \in 1..Chunk : Sendfile(s, n) \/ SendMapped(s, n) \/ ReadAndSend(s, n)
    \/ SendfileStops(s) \/ MmapStops(s) \/ ReadStops(s)
    \/ \E n \in 1..Chunk, keep \in BOOLEAN : Receive(s, n, keep)
    \/ Finish(s) \/ EndEarly(s) \/ Spin(s)

Fault(s) ==
    DiskError(s) \/ DiskFull(s) \/ Disconnect(s) \/ SendTimesOut(s) \/ ReceiveFails(s)

Command(s) ==
    \/ \E n \in 0..MaxRest : Rest(s, n)
    \/ \E f \in File, kind \in {"RETR", "STOR", "APPE"} :
         \/ RefuseRest(s, kind, f)
         \/ \E z \in BOOLEAN, n \in 0..MaxUp : Start(s, kind, f, z, n)

Next == (\E s \in Session : Command(s) \/ Work(s) \/ Fault(s)) \/ Terminated

Spec == Init /\ [][Next]_vars

\* Every handler runs, and a client that uploads ends its upload.
FairSpec == Spec /\ \A s \in Session : WF_vars(Work(s))

------------------------------------------------------------------------------
(* Properties.                                                               *)

Replies == {0, 150, 226, 425, 426, 550}
Stages == {"idle", "wait", "open", "sendfile", "mmap", "read", "recv", "spin"}
Kinds == {"RETR", "STOR", "APPE"}

\* The variables have their types; only an upload has bytes in a stream.
TypeOK ==
    /\ content \in [File -> Seq(Byte) \cup {Missing}]
    /\ rest \in [Session -> Nat]
    /\ at \in [Session -> Stages]
    /\ cmd \in [Session -> [kind : Kinds \cup {"none"}, file : File, z : BOOLEAN]]
    /\ jobs \in 0..MaxJobs
    /\ no \in [Session -> 0..MaxJobs]
    /\ how \in [Session -> {"trunc", "update", "append"}]
    /\ size \in [Session -> Nat] /\ offset \in [Session -> Nat] /\ pos \in [Session -> Nat]
    /\ buf \in [Session -> Seq(Byte)]
    /\ broken \subseteq Session /\ faulty \subseteq Session /\ cut \subseteq Session
    /\ disturbed \subseteq Session /\ trampled \subseteq Session
    /\ reply \in [Session -> Replies]
    /\ from \in [Session -> Nat]
    /\ before \in [Session -> Seq(Byte) \cup {Missing}]
    /\ got \in [Session -> Seq(Int)]
    /\ meant \in [Session -> 0..MaxUp] /\ stored \in [Session -> 0..MaxUp]
    /\ \A s \in Session : stored[s] <= meant[s]
    /\ stalled \subseteq Session
    /\ strayed \subseteq 1..MaxJobs
    /\ peak \in Nat
    /\ \A s \in Session : buf[s] # <<>> => at[s] \in {"recv", "spin"}

\* A client receives the bytes of its file from the REST position on, in order,
\* none twice and none left out, whatever mix of sendfile, mmap and read sends
\* them and wherever each of these stops.  With mmap this takes a file that
\* nobody changes, a disk that works, and a client that does not keep a send()
\* from the mapping waiting until it times out: what it had received is sent to
\* it once more (handleRETR).
DownloadsAreInOrder ==
    \A s \in Session : at[s] \notin {"wait", "open"} /\ cmd[s].kind = "RETR" =>
        \/ UseMmap /\ s \in disturbed \cup faulty \cup stalled
        \/ \A i \in 1..Len(got[s]) : got[s][i] = from[s] + i - 1

\* A download that is answered with 226 is complete, unless the file changed, the
\* disk or the connection failed, or the last send() was short or timed out.
DownloadsAreWhole ==
    \A s \in Session : at[s] = "idle" /\ cmd[s].kind = "RETR" /\ reply[s] = 226 =>
        \/ s \in disturbed \cup faulty \cup broken \cup cut
        \/ from[s] + Len(got[s]) >= size[s]

\* However uploads overlap, restart and empty each other's files, each byte of a
\* file lies where the upload it came with was asked to put it, unless that was
\* resumed when there was no file, or one that could not be opened for update: it
\* then starts a new file (handleSTOR, handleREST).
BytesAreInPlace ==
    \A f \in File : content[f] # Missing =>
        \A i \in 1..Len(content[f]) :
            LET b == content[f][i] IN b.place < 0 \/ b.place = i - 1 \/ b.job \in strayed

\* What a file holds after an upload that nobody disturbed: all that was received.
Expected(s) ==
    LET old == IF before[s] = Missing THEN <<>> ELSE before[s]
        data == [k \in 1..stored[s] |-> Sent(s, k)]
    IN  IF cmd[s].kind = "APPE" THEN old \o data
        ELSE IF from[s] = 0 THEN data ELSE Overwrite(old, from[s], data)

\* An APPE that empties a file, since there was none when it looked.
Overtaken(s) == cmd[s].kind = "APPE" /\ how[s] = "trunc" /\ before[s] # Missing

\* An upload answered with 226 leaves in the file all that its client sent, through
\* the buffer of the stream, if the disk works and nobody else writes to the file.
\* Three ways round this are the code's: a recv() that fails or times out counts as
\* the end (the file then holds what came until then), a resumed STOR whose file is
\* not there or does not open starts a new one, and so does an APPE whose file
\* comes between its look and its open (handleSTOR, handleAPPE).
UploadsAreStored ==
    \A s \in Session :
        /\ at[s] = "idle" /\ cmd[s].kind \in {"STOR", "APPE"} /\ reply[s] = 226
        /\ s \notin disturbed \cup faulty /\ no[s] \notin strayed /\ ~Overtaken(s)
        => /\ content[cmd[s].file] = Expected(s)
           /\ s \in cut \/ stored[s] = meant[s]

\* A file has the first n bytes of an APPE, each of them once and in their order (the
\* k-th byte has the place -k), and no other byte of it.
Holds(text, s, n) ==
    LET own == {i \in 1..Len(text) : text[i].job = no[s]} IN
    /\ {text[i] : i \in own} = {Sent(s, k) : k \in 1..n}
    /\ \A i, j \in own : i < j => text[i].place > text[j].place

\* Sessions that append to a file at once lose no byte of each other and keep
\* their order, if the file was there before (the open mode in handleAPPE).
AppendsSurvive ==
    \A s \in Session :
        /\ at[s] = "idle" /\ cmd[s].kind = "APPE" /\ reply[s] = 226
        /\ how[s] = "append" /\ s \notin trampled \cup faulty
        => Holds(content[cmd[s].file], s, stored[s])

\* The bytes in the home, without those that APPE put there and without holes.
Kept == SumFunction([f \in File |-> IF content[f] = Missing THEN 0
           ELSE Cardinality({i \in 1..Len(content[f]) : content[f][i].place >= 0})])

\* The quota is tested before the wait for the data connection and never again:
\* what STOR puts into the home exceeds it by no more than the STORs that were
\* admitted at the same time can bring (handleSTOR; handleAPPE ignores the quota).
QuotaOvershoot == Quota > 0 /\ peak > 0 => Kept < Quota + peak * MaxUp

\* Every command is answered, even if the file becomes shorter while it is sent,
\* unless its client closed an upload in MODE Z before the end of the compressed
\* stream: ZlibStream::process() with finish = true never gives that up.
TransfersEnd == \A s \in Session : at[s] # "idle" ~> at[s] \in {"idle", "spin"}
===============================================================================
