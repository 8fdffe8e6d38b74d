--------------------------- MODULE FtpTransferProofs ---------------------------
(***************************************************************************)
(* Proofs about FtpTransfer: what a client receives, where the bytes of    *)
(* overlapping uploads lie, what a finished upload leaves in its file,     *)
(* that sessions append without loss, and how far the quota is overshot.   *)
(***************************************************************************)
EXTENDS FtpTransfer, FiniteSetTheorems, SequenceTheorems, WellFoundedInduction, TLAPS

Loops == {"sendfile", "mmap", "read"}

\* Where a command can be, and that it has a number from its start on.
StageInv ==
    \A s \in Session :
        /\ at[s] # "idle" => no[s] \in 1..MaxJobs /\ cmd[s].kind \in Kinds
        /\ at[s] \in Loops => cmd[s].kind = "RETR"
        /\ at[s] \in {"recv", "spin"} => cmd[s].kind # "RETR"
        /\ \/ at[s] \in {"recv", "spin"}
           \/ at[s] = "open" /\ how[s] # "trunc"
           => content[cmd[s].file] # Missing
        /\ at[s] \in {"wait", "open"} => got[s] = <<>> /\ stored[s] = 0 /\ s \notin faulty

TypeInv == TypeOK /\ StageInv

LEMMA LenIsNat == ASSUME TypeOK, NEW f \in File PROVE LenOf(f) \in Nat
BY DEF TypeOK, LenOf

LEMMA Bounds == /\ MaxUp \in Nat /\ MaxRest \in Nat /\ MaxJobs \in Nat
                /\ Chunk \in Nat \ {0} /\ Page \in Nat \ {0}
BY BoundsAreNat, SizesArePositive

LEMMA SmallerIsLower ==
    ASSUME NEW m \in Int, NEW n \in Int
    PROVE  Smaller(m, n) \in Int /\ Smaller(m, n) <= m /\ Smaller(m, n) <= n
BY DEF Smaller

\* A text after bytes were written into it.
LEMMA Overwritten ==
    ASSUME NEW c \in Seq(Byte), NEW place \in Nat, NEW b \in Seq(Byte), b # <<>>
    PROVE  LET o == Overwrite(c, place, b) IN
           /\ o \in Seq(Byte)
           /\ \A i \in 1..Len(o) :
                \/ i \in place + 1 .. place + Len(b) /\ o[i] = b[i - place]
                \/ i \in 1..Len(c) /\ o[i] = c[i]
                \/ o[i] = Hole
<1> DEFINE n == Larger(Len(c), place + Len(b))
           e(i) == IF i \in place + 1 .. place + Len(b) THEN b[i - place]
                   ELSE IF i <= Len(c) THEN c[i] ELSE Hole
           o == [i \in 1..n |-> e(i)]
<1>1. n \in Nat
  BY DEF Larger
<1>2. Hole \in Byte
  BY BoundsAreNat DEF Hole, Byte
<1>3. ASSUME NEW i \in 1..n PROVE e(i) \in Byte
  <2>1. CASE i \in place + 1 .. place + Len(b)
    <3>1. i - place \in 1..Len(b)
      BY <2>1
    <3>2. QED BY <2>1, <3>1
  <2>2. CASE i \notin place + 1 .. place + Len(b)
    BY <1>1, <1>2, <2>2
  <2>3. QED BY <2>1, <2>2
<1>4. o \in Seq(Byte) /\ Len(o) = n
  <2> HIDE DEF n, e
  <2>1. QED BY <1>1, <1>3
<1>5. Overwrite(c, place, b) = o
  BY DEF Overwrite
<1>6. ASSUME NEW i \in 1..Len(o)
      PROVE  \/ i \in place + 1 .. place + Len(b) /\ o[i] = b[i - place]
             \/ i \in 1..Len(c) /\ o[i] = c[i]
             \/ o[i] = Hole
  <2>1. i \in 1..n /\ o[i] = e(i)
    BY <1>4
  <2>2. QED BY <1>1, <2>1
<1>7. QED BY <1>4, <1>5, <1>6

LEMMA SentIsByte ==
    ASSUME TypeOK, NEW s \in Session, NEW k \in Nat
    PROVE  Sent(s, k) \in Byte
BY DEF TypeOK, Sent, Byte

LEMMA InitType == Init => TypeInv
<1> SUFFICES ASSUME Init PROVE TypeInv
  OBVIOUS
<1>1. content \in [File -> Seq(Byte) \cup {Missing}]
  BY FirstContentIsOld DEF Init
<1>2. NoCmd \in [kind : Kinds \cup {"none"}, file : File, z : BOOLEAN]
  BY SetsAreFinite DEF NoCmd
<1>3. TypeOK
  BY <1>1, <1>2, BoundsAreNat DEF Init, TypeOK, Replies, Stages
<1>4. StageInv
  BY DEF Init, StageInv, Loops
<1>5. QED BY <1>3, <1>4 DEF TypeInv

LEMMA DeliverType ==
    ASSUME TypeInv, NEW s \in Session, NEW n \in Nat, Deliver(s, n)
    PROVE  /\ got' \in [Session -> Seq(Int)]
           /\ pos' \in [Session -> Nat]
           /\ pos' = [pos EXCEPT ![s] = pos[s] + n]
           /\ \A r \in Session \ {s} : got'[r] = got[r]
           /\ \E d \in Seq(Int) :
                /\ Len(d) = n
                /\ got' = [got EXCEPT ![s] = got[s] \o d]
                /\ \A i \in 1..n : pos[s] + i <= InFile(s) => d[i] = pos[s] + i - 1
<1> DEFINE d == [i \in 1..n |-> IF pos[s] + i <= InFile(s) THEN pos[s] + i - 1 ELSE -1]
<1>1. pos[s] \in Nat /\ got[s] \in Seq(Int) /\ InFile(s) \in Nat
  BY LenIsNat DEF TypeInv, TypeOK, InFile
<1>2. d \in Seq(Int) /\ Len(d) = n /\ \A i \in 1..n : d[i] = IF pos[s] + i <= InFile(s) THEN pos[s] + i - 1 ELSE -1
  BY <1>1
<1>3. got' = [got EXCEPT ![s] = got[s] \o d] /\ pos' = [pos EXCEPT ![s] = pos[s] + n]
  BY DEF Deliver
<1> HIDE DEF d
<1>4. got[s] \o d \in Seq(Int)
  BY <1>1, <1>2
<1>5. got' \in [Session -> Seq(Int)] /\ pos' \in [Session -> Nat]
  BY <1>1, <1>3, <1>4 DEF TypeInv, TypeOK
<1>6. \A i \in 1..n : pos[s] + i <= InFile(s) => d[i] = pos[s] + i - 1
  BY <1>2
<1>7. \A r \in Session \ {s} : got'[r] = got[r]
  BY <1>3 DEF TypeInv, TypeOK
<1>8. QED BY <1>2, <1>3, <1>5, <1>6, <1>7

LEMMA FlushType ==
    ASSUME TypeInv, NEW s \in Session, NEW b \in Seq(Byte), at[s] = "recv", Flush(s, b)
    PROVE  /\ content' \in [File -> Seq(Byte) \cup {Missing}]
           /\ \A f \in File : content[f] # Missing => content'[f] # Missing
           /\ strayed' = strayed
           /\ pos' \in [Session -> Nat]
           /\ disturbed' \subseteq Session /\ trampled' \subseteq Session
<1> USE DEF TypeInv, TypeOK
<1>1. CASE UNCHANGED <<disk, others, pos>>
  BY <1>1 DEF disk, others
<1>2. CASE /\ b # <<>>
           /\ content' = [content EXCEPT ![cmd[s].file] = Overwrite(@, PlaceOf(s), b)]
           /\ pos' = [pos EXCEPT ![s] = @ + Len(b)]
           /\ Disturb(s, how[s] = "append")
           /\ UNCHANGED strayed
  <2>1. cmd[s].file \in File /\ PlaceOf(s) \in Nat /\ Len(b) \in Nat
    <3>1. cmd[s].file \in File
      OBVIOUS
    <3>2. LenOf(cmd[s].file) \in Nat
      BY <3>1, LenIsNat
    <3>3. PlaceOf(s) \in Nat
      BY <3>2 DEF PlaceOf
    <3>4. QED BY <3>1, <3>3
  <2>2. content[cmd[s].file] \in Seq(Byte)
    BY <2>1 DEF StageInv
  <2>3. Overwrite(content[cmd[s].file], PlaceOf(s), b) \in Seq(Byte)
    BY <1>2, <2>1, <2>2, Overwritten
  <2>4. /\ content' \in [File -> Seq(Byte) \cup {Missing}]
        /\ \A f \in File : content[f] # Missing => content'[f] # Missing
    BY <1>2, <2>1, <2>3, MissingIsNoContent
  <2>5. disturbed' \subseteq Session /\ trampled' \subseteq Session
    BY <1>2 DEF Disturb, Users
  <2>6. pos' \in [Session -> Nat]
    BY <1>2, <2>1
  <2>7. QED BY <1>2, <2>4, <2>5, <2>6
<1>3. QED BY <1>1, <1>2 DEF Flush

\* A step of a download.
LEMMA DownloadType ==
    ASSUME TypeInv, NEW s \in Session, at[s] \in Loops,
           End(s, 226) \/ \E w \in Loops : Goto(s, w),
           UNCHANGED <<disk, session, upload, opened, others, peak>>,
           got' \in [Session -> Seq(Int)], \A r \in Session \ {s} : got'[r] = got[r],
           pos' \in [Session -> Nat], offset' \in [Session -> Nat],
           broken' \subseteq Session, faulty' \subseteq faulty \cup {s}, cut' \subseteq Session,
           stalled' \subseteq Session
    PROVE  TypeInv'
<1> USE DEF disk, session, upload, opened, others
<1>1. PICK w \in Loops \cup {"idle"} : at' = [at EXCEPT ![s] = w]
  BY DEF End, Goto
<1>2. at' \in [Session -> Stages]
  BY <1>1 DEF TypeInv, TypeOK, Loops, Stages
<1>3. rest' \in [Session -> Nat] /\ reply' \in [Session -> Replies]
  <2>1. CASE End(s, 226)
    <3>1. 226 \in Replies
      BY DEF Replies
    <3>2. QED BY <2>1, <3>1 DEF End, TypeInv, TypeOK
  <2>2. CASE \E v \in Loops : Goto(s, v)
    BY <2>2 DEF Goto, TypeInv, TypeOK
  <2>3. QED BY <2>1, <2>2
<1>4. \A r \in Session : buf'[r] # <<>> => at'[r] \in {"recv", "spin"}
  BY <1>1 DEF TypeInv, TypeOK, Loops
<1>5. TypeOK'
  <2>1. /\ content' \in [File -> Seq(Byte) \cup {Missing}] /\ strayed' \subseteq 1..MaxJobs
        /\ cmd' \in [Session -> [kind : Kinds \cup {"none"}, file : File, z : BOOLEAN]]
        /\ jobs' \in 0..MaxJobs /\ no' \in [Session -> 0..MaxJobs]
        /\ how' \in [Session -> {"trunc", "update", "append"}] /\ size' \in [Session -> Nat]
    BY DEF TypeInv, TypeOK
  <2>2. /\ buf' \in [Session -> Seq(Byte)]
        /\ from' \in [Session -> Nat] /\ before' \in [Session -> Seq(Byte) \cup {Missing}]
        /\ meant' \in [Session -> 0..MaxUp] /\ stored' \in [Session -> 0..MaxUp]
        /\ \A r \in Session : stored'[r] <= meant'[r]
    BY DEF TypeInv, TypeOK
  <2>3. /\ disturbed' \subseteq Session /\ trampled' \subseteq Session /\ peak' \in Nat
        /\ faulty' \subseteq Session
    BY DEF TypeInv, TypeOK
  <2> HIDE DEF disk, session, upload, opened, others
  <2> QED
    BY <1>2, <1>3, <1>4, <2>1, <2>2, <2>3 DEF TypeOK
<1>6. StageInv'
  <2> SUFFICES ASSUME NEW r \in Session PROVE StageInv!(r)'
    BY DEF StageInv
  <2>1. CASE r = s
    BY SMTT(30), <1>1, <2>1 DEF StageInv, TypeInv, TypeOK, Loops, Kinds
  <2>2. CASE r # s
    <3>1. at'[r] = at[r] /\ got'[r] = got[r] /\ (r \in faulty' => r \in faulty)
      BY <1>1, <2>2 DEF TypeInv, TypeOK
    <3>2. QED BY <3>1 DEF StageInv, TypeInv
  <2>3. QED BY <2>1, <2>2
<1>7. QED BY <1>5, <1>6 DEF TypeInv

\* A step of an upload.
LEMMA UploadType ==
    ASSUME TypeInv, NEW s \in Session, at[s] = "recv",
           NEW w \in {"idle", "recv", "spin"}, at' = [at EXCEPT ![s] = w],
           rest' \in [Session -> Nat], reply' \in [Session -> Replies],
           content' \in [File -> Seq(Byte) \cup {Missing}],
           \A f \in File : content[f] # Missing => content'[f] # Missing,
           UNCHANGED <<strayed, session, download, opened, broken, peak>>,
           pos' \in [Session -> Nat], disturbed' \subseteq Session, trampled' \subseteq Session,
           NEW b \in Seq(Byte), buf' = [buf EXCEPT ![s] = b], w = "idle" => b = <<>>,
           stored' \in [Session -> 0..MaxUp], \A r \in Session \ {s} : stored'[r] = stored[r],
           stored'[s] <= meant[s],
           faulty' \subseteq faulty \cup {s}, cut' \subseteq Session
    PROVE  TypeInv'
<1> USE DEF session, download, opened
<1>1. at' \in [Session -> Stages]
  BY DEF TypeInv, TypeOK, Stages
<1>2. buf' \in [Session -> Seq(Byte)]
  BY DEF TypeInv, TypeOK
<1>3. \A r \in Session : buf'[r] # <<>> => at'[r] \in {"recv", "spin"}
  BY DEF TypeInv, TypeOK
<1>7. \A r \in Session : stored'[r] <= meant'[r]
  BY DEF TypeInv, TypeOK
<1>4. TypeOK'
  BY <1>1, <1>2, <1>3, <1>7, SMTT(60) DEF TypeInv, TypeOK
<1>5. StageInv'
  <2> SUFFICES ASSUME NEW r \in Session PROVE StageInv!(r)'
    BY DEF StageInv
  <2>1. CASE r = s
    BY SMTT(30), <2>1 DEF StageInv, TypeInv, TypeOK, Loops, Kinds
  <2>2. CASE r # s
    <3>1. /\ at'[r] = at[r] /\ stored'[r] = stored[r] /\ (r \in faulty' => r \in faulty)
          /\ cmd[r].file \in File
      BY <2>2 DEF TypeInv, TypeOK
    <3>2. QED BY <3>1 DEF StageInv, TypeInv
  <2>3. QED BY <2>1, <2>2
<1>6. QED BY <1>4, <1>5 DEF TypeInv

LEMMA PeakIsNat == ASSUME NEW s \in Session PROVE Cardinality(Admitted \cup {s}) \in Nat
<1>1. Admitted \cup {s} \subseteq Session
  BY DEF Admitted
<1>2. IsFiniteSet(Admitted \cup {s})
  BY <1>1, SetsAreFinite, FS_Subset
<1>3. QED BY <1>2, FS_CardinalityType

LEMMA StepType == TypeInv /\ [Next]_vars => TypeInv'
<1> SUFFICES ASSUME TypeInv, [Next]_vars PROVE TypeInv'
  OBVIOUS
<1> USE Bounds DEF disk, session, download, upload, opened, others
<1>1. ASSUME NEW s \in Session, NEW n \in 0..MaxRest, Rest(s, n) PROVE TypeInv'
  <2>1. rest' \in [Session -> Nat]
    BY <1>1 DEF Rest, TypeInv, TypeOK
  <2>2. TypeOK'
    BY <1>1, <2>1, SMTT(60) DEF Rest, TypeInv, TypeOK
  <2>3. StageInv'
    BY <1>1 DEF Rest, TypeInv, StageInv
  <2>4. QED BY <2>2, <2>3 DEF TypeInv
<1>2. ASSUME NEW s \in Session, NEW f \in File, NEW kind \in Kinds, RefuseRest(s, kind, f)
      PROVE  TypeInv'
  <2>1. rest' \in [Session -> Nat] /\ reply' \in [Session -> Replies]
    BY SMTT(30), <1>2 DEF RefuseRest, TypeInv, TypeOK, Replies
  <2>2. TypeOK'
    BY <1>2, <2>1, SMTT(60) DEF RefuseRest, TypeInv, TypeOK
  <2>3. StageInv'
    BY <1>2 DEF RefuseRest, TypeInv, StageInv
  <2>4. QED BY <2>2, <2>3 DEF TypeInv
<1>3. ASSUME NEW s \in Session, NEW f \in File, NEW kind \in Kinds, NEW z \in BOOLEAN,
                                NEW n \in 0..MaxUp,
             Start(s, kind, f, z, n)
      PROVE  TypeInv'
  <2>1. peak' \in Nat
    BY <1>3, PeakIsNat DEF Start, TypeInv, TypeOK, Larger
  <2>2. /\ jobs' \in 0..MaxJobs /\ no' \in [Session -> 0..MaxJobs]
        /\ at' = [at EXCEPT ![s] = "wait"]
        /\ cmd' \in [Session -> [kind : Kinds \cup {"none"}, file : File, z : BOOLEAN]]
    BY <1>3 DEF Start, TypeInv, TypeOK
  <2>3. /\ reply' \in [Session -> Replies] /\ got' \in [Session -> Seq(Int)]
        /\ stored' \in [Session -> 0..MaxUp]
    <3>1. reply' = [reply EXCEPT ![s] = 150] /\ 150 \in Replies
      BY <1>3 DEF Start, Replies
    <3>2. got' = [got EXCEPT ![s] = <<>>] /\ <<>> \in Seq(Int)
      BY <1>3 DEF Start
    <3>3. stored' = [stored EXCEPT ![s] = 0] /\ 0 \in 0..MaxUp
      BY <1>3, Bounds DEF Start
    <3>4. QED BY <3>1, <3>2, <3>3 DEF TypeInv, TypeOK
  <2>9. meant' \in [Session -> 0..MaxUp] /\ \A r \in Session : stored'[r] <= meant'[r]
    BY <1>3 DEF Start, TypeInv, TypeOK
  <2>4. at' \in [Session -> Stages]
    BY <2>2 DEF TypeInv, TypeOK, Stages
  <2>5. \A r \in Session : buf'[r] # <<>> => at'[r] \in {"recv", "spin"}
    BY <1>3, <2>2 DEF Start, TypeInv, TypeOK
  <2>6. TypeOK'
    <3>1. /\ content' \in [File -> Seq(Byte) \cup {Missing}] /\ strayed' \subseteq 1..MaxJobs
          /\ rest' \in [Session -> Nat] /\ how' \in [Session -> {"trunc", "update", "append"}]
          /\ size' \in [Session -> Nat] /\ offset' \in [Session -> Nat]
          /\ pos' \in [Session -> Nat] /\ buf' \in [Session -> Seq(Byte)]
      BY <1>3 DEF Start, TypeInv, TypeOK
    <3>2. /\ from' \in [Session -> Nat] /\ before' \in [Session -> Seq(Byte) \cup {Missing}]
          /\ broken' \subseteq Session /\ faulty' \subseteq Session /\ cut' \subseteq Session
          /\ disturbed' \subseteq Session /\ trampled' \subseteq Session
          /\ stalled' \subseteq Session
      BY <1>3 DEF Start, TypeInv, TypeOK
    <3> QED
      BY <2>1, <2>2, <2>3, <2>4, <2>5, <2>9, <3>1, <3>2 DEF TypeOK
  <2>7. StageInv'
    BY <1>3, SMTT(60) DEF Start, TypeInv, TypeOK, StageInv, Loops
  <2>8. QED BY <2>6, <2>7 DEF TypeInv
<1>4. ASSUME NEW s \in Session, GiveUp(s) PROVE TypeInv'
  <2>1. at' \in [Session -> Stages] /\ reply' \in [Session -> Replies]
    <3>1. "idle" \in Stages /\ 425 \in Replies /\ 550 \in Replies
      BY DEF Stages, Replies
    <3>2. QED BY <1>4, <3>1 DEF GiveUp, TypeInv, TypeOK
  <2>2. \A r \in Session : buf'[r] # <<>> => at'[r] \in {"recv", "spin"}
    BY <1>4 DEF GiveUp, TypeInv, TypeOK
  <2>3. TypeOK'
    BY <1>4, <2>1, <2>2, SMTT(60) DEF GiveUp, TypeInv, TypeOK
  <2>4. StageInv'
    BY <1>4 DEF GiveUp, TypeInv, TypeOK, StageInv, Loops
  <2>5. QED BY <2>3, <2>4 DEF TypeInv
<1>5. ASSUME NEW s \in Session, Connect(s) PROVE TypeInv'
  <2>1. at' \in [Session -> Stages] /\ how' \in [Session -> {"trunc", "update", "append"}]
    <3>1. "open" \in Stages
      BY DEF Stages
    <3>2. QED BY <1>5, <3>1 DEF Connect, TypeInv, TypeOK
  <2>2. \A r \in Session : buf'[r] # <<>> => at'[r] \in {"recv", "spin"}
    BY <1>5 DEF Connect, TypeInv, TypeOK
  <2>3. TypeOK'
    BY <1>5, <2>1, <2>2, SMTT(60) DEF Connect, TypeInv, TypeOK
  <2>4. StageInv'
    BY <1>5 DEF Connect, TypeInv, TypeOK, StageInv, Loops
  <2>5. QED BY <2>3, <2>4 DEF TypeInv
<1>6. ASSUME NEW s \in Session, OpenDownload(s) PROVE TypeInv'
  <2> DEFINE n == LenOf(cmd[s].file)
  <2>1. cmd[s].file \in File /\ n \in Nat
    BY LenIsNat DEF TypeInv, TypeOK
  <2> HIDE DEF n
  <2>2. PICK w \in Loops \cup {"idle"} : at' = [at EXCEPT ![s] = w]
    BY <1>6 DEF OpenDownload, End, Loops
  <2>3. rest' \in [Session -> Nat] /\ reply' \in [Session -> Replies]
    <3>1. 226 \in Replies
      BY DEF Replies
    <3>2. End(s, 226) \/ UNCHANGED <<rest, reply>>
      BY <1>6 DEF OpenDownload
    <3>3. CASE End(s, 226)
      BY <3>1, <3>3 DEF End, TypeInv, TypeOK
    <3>4. CASE UNCHANGED <<rest, reply>>
      BY <3>4 DEF TypeInv, TypeOK
    <3>5. QED BY <3>2, <3>3, <3>4
  <2>4. size' \in [Session -> Nat]
    BY <1>6, <2>1 DEF OpenDownload, TypeInv, TypeOK, n
  <2>5. /\ offset' \in [Session -> Nat] /\ pos' \in [Session -> Nat] /\ from' \in [Session -> Nat]
        /\ before' \in [Session -> Seq(Byte) \cup {Missing}]
    BY <1>6, <2>1 DEF OpenDownload, TypeInv, TypeOK
  <2>6. at' \in [Session -> Stages]
    BY <2>2 DEF TypeInv, TypeOK, Loops, Stages
  <2>7. \A r \in Session : buf'[r] # <<>> => at'[r] \in {"recv", "spin"}
    BY <1>6, <2>2 DEF OpenDownload, TypeInv, TypeOK
  <2>8. TypeOK'
    <3>1. UNCHANGED <<disk, jobs, cmd, no, how, meant, got, stalled, upload, others, broken,
                      faulty, cut, peak>>
      BY <1>6 DEF OpenDownload
    <3>2. QED BY <2>3, <2>4, <2>5, <2>6, <2>7, <3>1, SMTT(60) DEF TypeInv, TypeOK
  <2>9. StageInv'
    BY <1>6, <2>2 DEF OpenDownload, TypeInv, TypeOK, StageInv, Loops
  <2>10. QED BY <2>8, <2>9 DEF TypeInv
<1>7. ASSUME NEW s \in Session, NEW n \in 1..Chunk, Sendfile(s, n) PROVE TypeInv'
  <2>1. AfterSendfile(s, offset[s] + n) \in Loops
    BY DEF AfterSendfile, Loops
  <2>2. End(s, 226) \/ \E w \in Loops : Goto(s, w)
    BY <1>7, <2>1 DEF Sendfile, Loops
  <2>3. offset' \in [Session -> Nat]
    BY <1>7 DEF Sendfile, TypeInv, TypeOK
  <2>4. n \in Nat /\ Deliver(s, n) /\ at[s] \in Loops
    BY <1>7 DEF Sendfile, Loops
  <2>5. /\ got' \in [Session -> Seq(Int)] /\ \A r \in Session \ {s} : got'[r] = got[r]
        /\ pos' \in [Session -> Nat]
    BY <2>4, DeliverType
  <2>6. QED BY <1>7, <2>2, <2>3, <2>4, <2>5, DownloadType DEF Sendfile, TypeInv, TypeOK
<1>8. ASSUME NEW s \in Session, SendfileStops(s) PROVE TypeInv'
  <2>1. AfterSendfile(s, offset[s]) \in Loops /\ at[s] \in Loops
    BY <1>8 DEF SendfileStops, AfterSendfile, Loops
  <2>2. QED BY <1>8, <2>1, DownloadType DEF SendfileStops, TypeInv, TypeOK
<1>9. ASSUME NEW s \in Session, NEW n \in 1..Chunk, SendMapped(s, n) PROVE TypeInv'
  <2>1. End(s, 226) \/ \E w \in Loops : Goto(s, w)
    BY <1>9 DEF SendMapped, Loops
  <2>2. n \in Nat /\ Deliver(s, n) /\ at[s] \in Loops
    BY <1>9 DEF SendMapped, Loops
  <2>3. /\ got' \in [Session -> Seq(Int)] /\ \A r \in Session \ {s} : got'[r] = got[r]
        /\ pos' \in [Session -> Nat]
    BY <2>2, DeliverType
  <2>4. QED BY <1>9, <2>1, <2>2, <2>3, DownloadType DEF SendMapped, TypeInv, TypeOK
<1>10. ASSUME NEW s \in Session, MmapStops(s) PROVE TypeInv'
  <2>1. pos' \in [Session -> Nat]
    BY <1>10 DEF MmapStops, TypeInv, TypeOK
  <2>2. QED BY <1>10, <2>1, DownloadType DEF MmapStops, TypeInv, TypeOK, Loops
<1>11. ASSUME NEW s \in Session, NEW n \in 1..Chunk, ReadAndSend(s, n) PROVE TypeInv'
  <2>1. End(s, 226) \/ \E w \in Loops : Goto(s, w)
    BY <1>11 DEF ReadAndSend, Loops
  <2>2. n \in Nat /\ Deliver(s, n) /\ at[s] \in Loops
    BY <1>11 DEF ReadAndSend, Loops
  <2>3. cut' \subseteq Session
    BY <1>11 DEF ReadAndSend, TypeInv, TypeOK
  <2>4. /\ got' \in [Session -> Seq(Int)] /\ \A r \in Session \ {s} : got'[r] = got[r]
        /\ pos' \in [Session -> Nat]
    BY <2>2, DeliverType
  <2>5. QED BY <1>11, <2>1, <2>2, <2>3, <2>4, DownloadType DEF ReadAndSend, TypeInv, TypeOK
<1>12. ASSUME NEW s \in Session, ReadStops(s) PROVE TypeInv'
  BY <1>12, DownloadType DEF ReadStops, TypeInv, TypeOK, Loops
<1>13. ASSUME NEW s \in Session, DiskError(s) \/ SendTimesOut(s) PROVE TypeInv'
  <2>1. End(s, 226) \/ \E w \in Loops : Goto(s, w)
    BY <1>13 DEF DiskError, SendTimesOut, Abandon, AfterSendfile, Loops
  <2>2. pos' \in [Session -> Nat] /\ at[s] \in Loops
    BY <1>13 DEF DiskError, SendTimesOut, Abandon, TypeInv, TypeOK, Loops
  <2>3. faulty' \subseteq faulty \cup {s} /\ cut' \subseteq Session /\ stalled' \subseteq Session
    BY <1>13 DEF DiskError, SendTimesOut, TypeInv, TypeOK
  <2>4. QED
    BY <1>13, <2>1, <2>2, <2>3, DownloadType DEF DiskError, SendTimesOut, TypeInv, TypeOK
<1>14. ASSUME NEW s \in Session, Disconnect(s) PROVE TypeInv'
  <2>1. at[s] \in Loops /\ Goto(s, at[s])
    BY <1>14 DEF Disconnect, Goto, Loops, TypeInv, TypeOK
  <2>2. broken' \subseteq Session
    BY <1>14 DEF Disconnect, TypeInv, TypeOK
  <2>3. QED BY <1>14, <2>1, <2>2, DownloadType DEF Disconnect, TypeInv, TypeOK
<1>15. ASSUME NEW s \in Session, NEW w, OpenUpload(s, w) PROVE TypeInv'
  <2>1. cmd[s].file \in File
    BY DEF TypeInv, TypeOK
  <2>2. /\ content' \in [File -> Seq(Byte) \cup {Missing}]
        /\ \A f \in File : content[f] # Missing => content'[f] # Missing
        /\ content'[cmd[s].file] # Missing
    <3>1. <<>> \in Seq(Byte) /\ <<>> # Missing
      <4>1. <<>> \in Seq(Byte)
        OBVIOUS
      <4>2. QED BY <4>1, MissingIsNoContent
    <3>2. w # "trunc" => content[cmd[s].file] # Missing
      BY <1>15 DEF OpenUpload, OpensAs, TypeInv, StageInv
    <3>3. QED BY <1>15, <2>1, <3>1, <3>2 DEF OpenUpload, TypeInv, TypeOK
  <2>3. at' = [at EXCEPT ![s] = "recv"] /\ at' \in [Session -> Stages]
    BY <1>15 DEF OpenUpload, TypeInv, TypeOK, Stages
  <2>4. pos' \in [Session -> Nat]
    <3>1. LenOf(cmd[s].file) \in Nat
      BY <2>1, LenIsNat DEF TypeInv
    <3>2. StartOf(s, w) \in Nat
      BY <3>1 DEF StartOf, TypeInv, TypeOK
    <3>3. QED BY <1>15, <3>2 DEF OpenUpload, TypeInv, TypeOK
  <2>5. from' \in [Session -> Nat] /\ before' \in [Session -> Seq(Byte) \cup {Missing}]
    BY <1>15, <2>1 DEF OpenUpload, TypeInv, TypeOK
  <2>6. disturbed' \subseteq Session /\ trampled' \subseteq Session
    BY <1>15 DEF OpenUpload, Disturb, Users, TypeInv, TypeOK
  <2>7. strayed' \subseteq 1..MaxJobs
    BY <1>15 DEF OpenUpload, TypeInv, TypeOK, StageInv
  <2>8. /\ buf' \in [Session -> Seq(Byte)]
        /\ \A r \in Session : buf'[r] # <<>> => at'[r] \in {"recv", "spin"}
    BY <1>15, <2>3 DEF OpenUpload, TypeInv, TypeOK
  <2>9. TypeOK'
    <3>1. how' \in [Session -> {"trunc", "update", "append"}]
      BY <1>15 DEF OpenUpload, OpensAs, TypeInv, TypeOK
    <3>2. QED
      <4>1. /\ cmd' \in [Session -> [kind : Kinds \cup {"none"}, file : File, z : BOOLEAN]]
            /\ rest' \in [Session -> Nat] /\ reply' \in [Session -> Replies]
            /\ jobs' \in 0..MaxJobs /\ no' \in [Session -> 0..MaxJobs]
            /\ size' \in [Session -> Nat] /\ offset' \in [Session -> Nat]
        BY <1>15 DEF OpenUpload, TypeInv, TypeOK
      <4>2. /\ got' \in [Session -> Seq(Int)]
            /\ meant' \in [Session -> 0..MaxUp] /\ stored' \in [Session -> 0..MaxUp]
            /\ \A r \in Session : stored'[r] <= meant'[r]
        BY <1>15 DEF OpenUpload, TypeInv, TypeOK
      <4>3. /\ broken' \subseteq Session /\ faulty' \subseteq Session
            /\ cut' \subseteq Session /\ stalled' \subseteq Session /\ peak' \in Nat
        BY <1>15 DEF OpenUpload, TypeInv, TypeOK
      <4>4. QED
        BY <2>2, <2>3, <2>4, <2>5, <2>6, <2>7, <2>8, <3>1, <4>1, <4>2, <4>3 DEF TypeOK
  <2>10. StageInv'
    BY SMTT(30), <1>15, <2>2, <2>3 DEF OpenUpload, TypeInv, TypeOK, StageInv, Loops
  <2>11. QED BY <2>9, <2>10 DEF TypeInv
<1>16. ASSUME NEW s \in Session, NEW n \in 1..Chunk, NEW keep \in BOOLEAN, Receive(s, n, keep)
       PROVE  TypeInv'
  <2> DEFINE b == buf[s] \o [k \in 1..n |-> Sent(s, stored[s] + k)]
  <2>1. b \in Seq(Byte)
    <3>1. \A k \in 1..n : Sent(s, stored[s] + k) \in Byte
      <4>1. TypeOK /\ stored[s] \in Nat
        BY SMTT(30) DEF TypeInv, TypeOK
      <4>2. QED BY <4>1, SentIsByte
    <3>2. [k \in 1..n |-> Sent(s, stored[s] + k)] \in Seq(Byte)
      BY <3>1
    <3>3. QED BY <3>2 DEF TypeInv, TypeOK
  <2>2. /\ stored' \in [Session -> 0..MaxUp]
        /\ \A r \in Session \ {s} : stored'[r] = stored[r]
        /\ stored'[s] <= meant[s]
    BY SMTT(30), <1>16 DEF Receive, Smaller, TypeInv, TypeOK
  <2>3. at[s] = "recv" /\ at' = [at EXCEPT ![s] = "recv"]
    BY <1>16 DEF Receive, TypeInv, TypeOK
  <2> HIDE DEF b
  <2>4. CASE keep
    <3>1. buf' = [buf EXCEPT ![s] = b] /\ UNCHANGED <<disk, others, pos>>
      BY <1>16, <2>4 DEF Receive, b
    <3>2. QED BY <1>16, <2>1, <2>2, <2>3, <3>1, UploadType DEF Receive, TypeInv, TypeOK
  <2>5. CASE ~keep
    <3>1. buf' = [buf EXCEPT ![s] = <<>>] /\ Flush(s, b)
      BY <1>16, <2>5 DEF Receive, b
    <3>2. /\ content' \in [File -> Seq(Byte) \cup {Missing}]
          /\ \A f \in File : content[f] # Missing => content'[f] # Missing
          /\ strayed' = strayed /\ pos' \in [Session -> Nat]
          /\ disturbed' \subseteq Session /\ trampled' \subseteq Session
      BY <2>1, <2>3, <3>1, FlushType
    <3>3. rest' \in [Session -> Nat] /\ reply' \in [Session -> Replies]
      BY <1>16 DEF Receive, TypeInv, TypeOK
    <3>4. <<>> \in Seq(Byte)
      OBVIOUS
    <3>5. QED BY <1>16, <2>2, <2>3, <3>1, <3>2, <3>3, <3>4, UploadType
              DEF Receive, TypeInv, TypeOK
  <2>6. QED BY <2>4, <2>5
<1>17. ASSUME NEW s \in Session, Finish(s) PROVE TypeInv'
  <2>1. buf[s] \in Seq(Byte) /\ Flush(s, buf[s]) /\ buf' = [buf EXCEPT ![s] = <<>>]
    BY <1>17 DEF Finish, CloseFile, TypeInv, TypeOK
  <2>2. rest' \in [Session -> Nat] /\ reply' \in [Session -> Replies]
    BY <1>17 DEF Finish, End, TypeInv, TypeOK, Replies
  <2>3. at[s] = "recv" /\ at' = [at EXCEPT ![s] = "idle"]
    BY <1>17 DEF Finish, End
  <2>4. /\ content' \in [File -> Seq(Byte) \cup {Missing}]
        /\ \A f \in File : content[f] # Missing => content'[f] # Missing
        /\ strayed' = strayed /\ pos' \in [Session -> Nat]
        /\ disturbed' \subseteq Session /\ trampled' \subseteq Session
    BY <2>1, <2>3, FlushType
  <2>5. <<>> \in Seq(Byte) /\ stored' \in [Session -> 0..MaxUp] /\ stored'[s] <= meant[s]
    BY <1>17 DEF Finish, TypeInv, TypeOK
  <2>6. QED BY <1>17, <2>1, <2>2, <2>3, <2>4, <2>5, UploadType DEF Finish, TypeInv, TypeOK
<1>18. ASSUME NEW s \in Session, EndEarly(s) PROVE TypeInv'
  <2>1. buf[s] \in Seq(Byte) /\ buf' = [buf EXCEPT ![s] = buf[s]]
    BY <1>18 DEF EndEarly, TypeInv, TypeOK
  <2>2. QED BY <1>18, <2>1, UploadType DEF EndEarly, Goto, TypeInv, TypeOK
<1>19. ASSUME NEW s \in Session, ReceiveFails(s) PROVE TypeInv'
  <2>1. buf[s] \in Seq(Byte) /\ Flush(s, buf[s]) /\ buf' = [buf EXCEPT ![s] = <<>>]
    BY <1>19 DEF ReceiveFails, CloseFile, TypeInv, TypeOK
  <2>2. rest' \in [Session -> Nat] /\ reply' \in [Session -> Replies]
    BY <1>19 DEF ReceiveFails, End, TypeInv, TypeOK, Replies
  <2>3. at[s] = "recv" /\ at' = [at EXCEPT ![s] = "idle"]
    BY <1>19 DEF ReceiveFails, End
  <2>4. cut' \subseteq Session
    BY <1>19 DEF ReceiveFails, TypeInv, TypeOK
  <2>5. /\ content' \in [File -> Seq(Byte) \cup {Missing}]
        /\ \A f \in File : content[f] # Missing => content'[f] # Missing
        /\ strayed' = strayed /\ pos' \in [Session -> Nat]
        /\ disturbed' \subseteq Session /\ trampled' \subseteq Session
    BY <2>1, <2>3, FlushType
  <2>6. <<>> \in Seq(Byte) /\ stored' \in [Session -> 0..MaxUp] /\ stored'[s] <= meant[s]
    BY <1>19 DEF ReceiveFails, TypeInv, TypeOK
  <2>7. QED BY <1>19, <2>1, <2>2, <2>3, <2>4, <2>5, <2>6, UploadType
            DEF ReceiveFails, TypeInv, TypeOK
<1>20. ASSUME NEW s \in Session, DiskFull(s) PROVE TypeInv'
  <2>1. at' = [at EXCEPT ![s] = "recv"]
    BY <1>20 DEF DiskFull, TypeInv, TypeOK
  <2>2. <<>> \in Seq(Byte) /\ buf' = [buf EXCEPT ![s] = <<>>]
    BY <1>20 DEF DiskFull
  <2>3. /\ rest' \in [Session -> Nat] /\ reply' \in [Session -> Replies]
        /\ content' \in [File -> Seq(Byte) \cup {Missing}] /\ pos' \in [Session -> Nat]
        /\ disturbed' \subseteq Session /\ trampled' \subseteq Session /\ cut' \subseteq Session
        /\ stored' \in [Session -> 0..MaxUp] /\ faulty' \subseteq faulty \cup {s}
        /\ stored'[s] <= meant[s]
    BY <1>20 DEF DiskFull, TypeInv, TypeOK
  <2>4. at[s] = "recv" /\ UNCHANGED <<disk, session, download, stored, opened, broken, peak>>
    BY <1>20 DEF DiskFull
  <2>5. QED BY <2>1, <2>2, <2>3, <2>4, UploadType
<1>21. ASSUME UNCHANGED vars PROVE TypeInv'
  BY <1>21 DEF vars, TypeInv, TypeOK, StageInv
<1>22. QED
  BY <1>1, <1>2, <1>3, <1>4, <1>5, <1>6, <1>7, <1>8, <1>9, <1>10, <1>11, <1>12, <1>13,
     <1>14, <1>15, <1>16, <1>17, <1>18, <1>19, <1>20, <1>21
     DEF Next, Command, Work, Fault, Terminated, Spin, Kinds

\* The variables have their types; what an upload has not written yet is with an
\* open stream.
THEOREM TypeCorrect == Spec => []TypeOK
<1>1. Spec => []TypeInv
  BY InitType, StepType, PTL DEF Spec
<1>2. TypeInv => TypeOK
  BY DEF TypeInv
<1>3. QED BY <1>1, <1>2, PTL

-----------------------------------------------------------------------------
(* Downloads.                                                                *)

InOrder(s) == \A i \in 1..Len(got[s]) : got[s][i] = from[s] + i - 1
Current(s) == from[s] + Len(got[s]) = pos[s]
Reached(s) == pos[s] <= from[s] + Len(got[s])

\* A download stands where the client does, unless something happened to it:
\* after a failed send from the mapping the place goes back, to be sent again if
\* the connection lives.
Sound(s) ==
    cmd[s].kind = "RETR" /\ at[s] \in Loops \cup {"idle"} =>
        /\ at[s] = "sendfile" => pos[s] = offset[s] /\ pos[s] < size[s]
        /\ at[s] = "mmap" => UseMmap /\ pos[s] < size[s]
        /\ at[s] # "idle" /\ s \notin disturbed => LenOf(cmd[s].file) = size[s]
        /\ at[s] = "mmap" => offset[s] <= pos[s]
        /\ \/ UseMmap /\ s \in disturbed \cup faulty \cup stalled
           \/ InOrder(s) /\ (Current(s) \/ at[s] = "idle" \/ (at[s] = "read" /\ s \in broken))
        /\ \/ s \in disturbed \cup faulty \cup broken \cup cut
           \/ at[s] # "idle" /\ Reached(s)
           \/ at[s] = "idle" /\ (reply[s] = 226 => from[s] + Len(got[s]) >= size[s])

DownloadInv == \A s \in Session : Sound(s)

LEMMA Pages ==
    ASSUME NEW p \in Nat, NEW n \in Nat, p < n
    PROVE  p \div Page <= (n - 1) \div Page
BY Bounds

LEMMA Joined ==
    ASSUME NEW g \in Seq(Int), NEW d \in Seq(Int), NEW a \in Nat,
           \A i \in 1..Len(g) : g[i] = a + i - 1,
           \A i \in 1..Len(d) : d[i] = a + Len(g) + i - 1
    PROVE  \A i \in 1..Len(g \o d) : (g \o d)[i] = a + i - 1
OBVIOUS

\* Bytes that are in the file go on where the client is.
LEMMA Delivered ==
    ASSUME TypeInv, NEW s \in Session, NEW n \in Nat, Deliver(s, n), from' = from,
           pos[s] + n <= InFile(s), InOrder(s), Current(s)
    PROVE  InOrder(s)' /\ Current(s)'
<1>1. PICK d \in Seq(Int) :
        /\ Len(d) = n
        /\ got' = [got EXCEPT ![s] = got[s] \o d]
        /\ \A i \in 1..n : pos[s] + i <= InFile(s) => d[i] = pos[s] + i - 1
  BY DeliverType
<1>2. /\ got[s] \in Seq(Int) /\ from[s] \in Nat /\ pos[s] \in Nat /\ InFile(s) \in Nat
      /\ pos'[s] = pos[s] + n /\ got'[s] = got[s] \o d
  <2>1. got[s] \in Seq(Int) /\ from[s] \in Nat /\ pos[s] \in Nat /\ cmd[s].file \in File
    BY DEF TypeInv, TypeOK
  <2>2. InFile(s) \in Nat
    BY <2>1, LenIsNat DEF TypeInv, InFile
  <2>3. pos'[s] = pos[s] + n
    BY DEF Deliver, TypeInv, TypeOK
  <2>4. got'[s] = got[s] \o d
    BY <1>1 DEF TypeInv, TypeOK
  <2>5. QED BY <2>1, <2>2, <2>3, <2>4
<1>3. \A i \in 1..Len(d) : d[i] = from[s] + Len(got[s]) + i - 1
  <2>1. SUFFICES ASSUME NEW i \in 1..n PROVE d[i] = from[s] + Len(got[s]) + i - 1
    BY <1>1
  <2>2. pos[s] + i <= InFile(s)
    BY <1>2
  <2>3. d[i] = pos[s] + i - 1
    BY <1>1, <2>2
  <2>4. pos[s] = from[s] + Len(got[s])
    BY DEF Current
  <2>5. QED BY <2>3, <2>4
<1>4. InOrder(s)'
  <2>1. \A i \in 1..Len(got[s]) : got[s][i] = from[s] + i - 1
    BY DEF InOrder
  <2>2. \A i \in 1..Len(got[s] \o d) : (got[s] \o d)[i] = from[s] + i - 1
    BY <1>2, <1>3, <2>1, Joined
  <2>3. QED BY <1>2, <2>2 DEF InOrder
<1>5. Len(got'[s]) = Len(got[s]) + n
  <2>1. Len(got[s] \o d) = Len(got[s]) + Len(d)
    BY <1>2
  <2>2. QED BY <1>1, <1>2, <2>1
<1>6. Current(s)'
  BY <1>2, <1>5 DEF Current
<1>7. QED BY <1>4, <1>6

\* Whatever the bytes are, the client is no less far than the place of the next.
LEMMA DeliveredReaches ==
    ASSUME TypeInv, NEW s \in Session, NEW n \in Nat, Deliver(s, n), from' = from, Reached(s)
    PROVE  Reached(s)'
<1>1. PICK d \in Seq(Int) : Len(d) = n /\ got' = [got EXCEPT ![s] = got[s] \o d]
  BY DeliverType
<1>2. got'[s] = got[s] \o d /\ got[s] \in Seq(Int) /\ from[s] \in Nat /\ pos[s] \in Nat
  BY <1>1 DEF TypeInv, TypeOK
<1>3. Len(got'[s]) = Len(got[s]) + n
  <2>1. d \in Seq(Int) /\ got[s] \in Seq(Int)
    BY <1>1, <1>2
  <2>2. Len(got[s] \o d) = Len(got[s]) + Len(d)
    BY <2>1
  <2>3. QED BY <1>1, <1>2, <2>2
<1>4. pos'[s] = pos[s] + n
  BY DEF Deliver, TypeInv, TypeOK
<1>5. QED BY <1>2, <1>3, <1>4 DEF Reached

\* What the step of one session leaves of another one, r: all but what its file
\* holds, and then r is disturbed.
Apart(r) ==
    /\ at'[r] = at[r] /\ cmd'[r] = cmd[r] /\ no'[r] = no[r] /\ how'[r] = how[r]
    /\ pos'[r] = pos[r] /\ offset'[r] = offset[r] /\ size'[r] = size[r] /\ from'[r] = from[r]
    /\ got'[r] = got[r] /\ stored'[r] = stored[r] /\ buf'[r] = buf[r] /\ reply'[r] = reply[r]
    /\ before'[r] = before[r] /\ rest'[r] = rest[r]
    /\ (r \in faulty' <=> r \in faulty) /\ (r \in broken' <=> r \in broken)
    /\ (r \in cut' <=> r \in cut) /\ (r \in stalled' <=> r \in stalled)
    /\ meant'[r] = meant[r] /\ (r \in disturbed => r \in disturbed')
    /\ (r \in trampled => r \in trampled') /\ strayed \subseteq strayed'
    /\ \/ content'[cmd[r].file] = content[cmd[r].file]
       \/ at[r] \in {"wait", "open"} \/ r \in disturbed'

LEMMA ApartBegin ==
    ASSUME TypeInv, NEW s \in Session, NEW r \in Session \ {s},
           Command(s) \/ GiveUp(s) \/ Connect(s)
    PROVE  Apart(r)
<1> USE DEF Apart, TypeInv, TypeOK, disk, session, download, upload, opened, others
<1>1. ASSUME NEW n \in 0..MaxRest, Rest(s, n) PROVE Apart(r)
  BY <1>1 DEF Rest
<1>2. ASSUME NEW f \in File, NEW kind \in Kinds, RefuseRest(s, kind, f) PROVE Apart(r)
  BY <1>2 DEF RefuseRest
<1>3. ASSUME NEW f \in File, NEW kind \in Kinds, NEW z \in BOOLEAN, NEW n \in 0..MaxUp,
             Start(s, kind, f, z, n)
      PROVE  Apart(r)
  BY <1>3 DEF Start
<1>4. CASE GiveUp(s)
  BY <1>4 DEF GiveUp
<1>5. CASE Connect(s)
  BY <1>5 DEF Connect
<1> HIDE DEF Apart, TypeInv, TypeOK, disk, session, download, upload, opened, others
<1>6. QED BY <1>1, <1>2, <1>3, <1>4, <1>5 DEF Command, Kinds

LEMMA ApartDownload ==
    ASSUME TypeInv, NEW s \in Session, NEW r \in Session \ {s},
           \/ OpenDownload(s) \/ SendfileStops(s) \/ MmapStops(s) \/ ReadStops(s)
           \/ DiskError(s) \/ Disconnect(s) \/ SendTimesOut(s)
           \/ \E n \in 1..Chunk : Sendfile(s, n) \/ SendMapped(s, n) \/ ReadAndSend(s, n)
    PROVE  Apart(r)
<1> USE DEF Apart, TypeInv, TypeOK, End, Goto, disk, session, download, upload, opened, others
<1>1. CASE OpenDownload(s)
  BY <1>1 DEF OpenDownload
<1>2. CASE SendfileStops(s)
  BY <1>2 DEF SendfileStops
<1>3. CASE MmapStops(s)
  BY <1>3 DEF MmapStops
<1>4. CASE ReadStops(s)
  BY <1>4 DEF ReadStops
<1>5. CASE DiskError(s) \/ SendTimesOut(s)
  <2>1. Abandon(s) /\ UNCHANGED <<disk, session, offset, got, upload, opened, others, broken, peak>>
    BY <1>5 DEF DiskError, SendTimesOut
  <2>2. /\ (r \in faulty' <=> r \in faulty) /\ (r \in stalled' <=> r \in stalled)
        /\ (r \in cut' <=> r \in cut)
    BY <1>5 DEF DiskError, SendTimesOut
  <2>3. pos'[r] = pos[r]
    BY <2>1 DEF Abandon
  <2>5. End(s, 226) \/ \E v \in Loops : Goto(s, v)
    BY <2>1 DEF Abandon, AfterSendfile, Loops
  <2>6. at'[r] = at[r] /\ rest'[r] = rest[r] /\ reply'[r] = reply[r]
    BY <2>5
  <2>4. QED BY <2>1, <2>2, <2>3, <2>6
<1>6. CASE Disconnect(s)
  BY <1>6 DEF Disconnect
<1>7. ASSUME NEW n \in 1..Chunk, Sendfile(s, n) PROVE Apart(r)
  <2>1. End(s, 226) \/ \E v : Goto(s, v)
    BY <1>7 DEF Sendfile
  <2>2. /\ Deliver(s, n) /\ offset' = [offset EXCEPT ![s] = @ + n]
        /\ UNCHANGED <<disk, session, stalled, upload, opened, others, broken,
                       faulty, cut, peak>>
    BY <1>7 DEF Sendfile
  <2>3. at'[r] = at[r] /\ reply'[r] = reply[r] /\ rest'[r] = rest[r]
    BY <2>1
  <2>4. got'[r] = got[r] /\ pos'[r] = pos[r] /\ offset'[r] = offset[r]
    BY <2>2 DEF Deliver
  <2>5. QED BY <2>2, <2>3, <2>4
<1>8. ASSUME NEW n \in 1..Chunk, SendMapped(s, n) PROVE Apart(r)
  <2>1. End(s, 226) \/ Goto(s, "mmap")
    BY <1>8 DEF SendMapped
  <2>2. /\ Deliver(s, n)
        /\ UNCHANGED <<disk, session, offset, stalled, upload, opened, others, broken,
                       faulty, cut, peak>>
    BY <1>8 DEF SendMapped
  <2>3. at'[r] = at[r] /\ reply'[r] = reply[r] /\ rest'[r] = rest[r]
    BY <2>1
  <2>4. got'[r] = got[r] /\ pos'[r] = pos[r]
    BY <2>2 DEF Deliver
  <2>5. QED BY <2>2, <2>3, <2>4
<1>9. ASSUME NEW n \in 1..Chunk, ReadAndSend(s, n) PROVE Apart(r)
  <2>1. (End(s, 226) \/ Goto(s, "read")) /\ (cut' = cut \/ cut' = cut \cup {s})
    BY <1>9 DEF ReadAndSend
  <2>2. /\ Deliver(s, n)
        /\ UNCHANGED <<disk, session, offset, stalled, upload, opened, others, broken,
                       faulty, peak>>
    BY <1>9 DEF ReadAndSend
  <2>3. /\ at'[r] = at[r] /\ reply'[r] = reply[r] /\ (r \in cut' <=> r \in cut)
        /\ rest'[r] = rest[r]
    BY <2>1
  <2>4. got'[r] = got[r] /\ pos'[r] = pos[r]
    BY <2>2 DEF Deliver
  <2>5. QED BY <2>2, <2>3, <2>4
<1>10. QED BY <1>1, <1>2, <1>3, <1>4, <1>5, <1>6, <1>7, <1>8, <1>9

\* A change of a file disturbs whoever uses it.
LEMMA ApartFile ==
    ASSUME TypeInv, NEW s \in Session, NEW r \in Session \ {s}, NEW c, NEW soft,
           content' = [content EXCEPT ![cmd[s].file] = c], Disturb(s, soft)
    PROVE  /\ r \in disturbed => r \in disturbed'
           /\ r \in trampled => r \in trampled'
           /\ \/ content'[cmd[r].file] = content[cmd[r].file]
              \/ at[r] \in {"wait", "open"} \/ r \in disturbed'
BY DEF TypeInv, TypeOK, Disturb, Users

LEMMA ApartFlush ==
    ASSUME TypeInv, NEW s \in Session, NEW r \in Session \ {s}, NEW b, Flush(s, b)
    PROVE  /\ r \in disturbed => r \in disturbed'
           /\ r \in trampled => r \in trampled'
           /\ \/ content'[cmd[r].file] = content[cmd[r].file]
              \/ at[r] \in {"wait", "open"} \/ r \in disturbed'
           /\ pos'[r] = pos[r] /\ strayed' = strayed
<1>1. CASE UNCHANGED <<disk, others, pos>>
  BY <1>1 DEF disk, others
<1>2. CASE /\ content' = [content EXCEPT ![cmd[s].file] = Overwrite(@, PlaceOf(s), b)]
           /\ pos' = [pos EXCEPT ![s] = @ + Len(b)]
           /\ Disturb(s, how[s] = "append")
           /\ UNCHANGED strayed
  <2>1. pos'[r] = pos[r]
    BY <1>2 DEF TypeInv, TypeOK
  <2>2. QED BY <1>2, <2>1, ApartFile
<1>3. QED BY <1>1, <1>2 DEF Flush

LEMMA ApartUpload ==
    ASSUME TypeInv, NEW s \in Session, NEW r \in Session \ {s},
           \/ \E w : OpenUpload(s, w)
           \/ Finish(s) \/ EndEarly(s) \/ ReceiveFails(s) \/ DiskFull(s)
           \/ \E n \in 1..Chunk, keep \in BOOLEAN : Receive(s, n, keep)
    PROVE  Apart(r)
<1> USE DEF Apart, TypeInv, TypeOK, End, Goto, disk, session, download, opened
<1>1. ASSUME NEW w, OpenUpload(s, w) PROVE Apart(r)
  <2>1. /\ r \in disturbed => r \in disturbed'
        /\ r \in trampled => r \in trampled'
        /\ \/ content'[cmd[r].file] = content[cmd[r].file]
           \/ at[r] \in {"wait", "open"} \/ r \in disturbed'
    <3>1. CASE w = "trunc"
      BY <1>1, <3>1, ApartFile DEF OpenUpload
    <3>2. CASE w # "trunc"
      BY <1>1, <3>2 DEF OpenUpload, others
    <3>3. QED BY <3>1, <3>2
  <2>2. QED BY <1>1, <2>1 DEF OpenUpload
<1>2. CASE Finish(s)
  <2>1. Flush(s, buf[s]) /\ buf' = [buf EXCEPT ![s] = <<>>] /\ End(s, 226)
    BY <1>2 DEF Finish, CloseFile
  <2>2. UNCHANGED <<session, download, stored, opened, broken, faulty, cut, peak>>
    BY <1>2 DEF Finish
  <2>3. /\ r \in disturbed => r \in disturbed'
        /\ r \in trampled => r \in trampled'
        /\ \/ content'[cmd[r].file] = content[cmd[r].file]
           \/ at[r] \in {"wait", "open"} \/ r \in disturbed'
        /\ pos'[r] = pos[r] /\ strayed' = strayed
    BY <2>1, ApartFlush
  <2>4. QED BY <2>1, <2>2, <2>3
<1>3. CASE EndEarly(s)
  BY <1>3 DEF EndEarly, upload, others
<1>4. CASE ReceiveFails(s)
  <2>1. /\ Flush(s, buf[s]) /\ buf' = [buf EXCEPT ![s] = <<>>]
        /\ End(s, IF cmd[s].z THEN 426 ELSE 226) /\ cut' = cut \cup {s}
    BY <1>4 DEF ReceiveFails, CloseFile
  <2>2. UNCHANGED <<session, download, stored, opened, broken, faulty, peak>>
    BY <1>4 DEF ReceiveFails
  <2>3. /\ r \in disturbed => r \in disturbed'
        /\ r \in trampled => r \in trampled'
        /\ \/ content'[cmd[r].file] = content[cmd[r].file]
           \/ at[r] \in {"wait", "open"} \/ r \in disturbed'
        /\ pos'[r] = pos[r] /\ strayed' = strayed
    BY <2>1, ApartFlush
  <2>4. QED BY <2>1, <2>2, <2>3
<1>5. CASE DiskFull(s)
  BY <1>5 DEF DiskFull, others
<1>6. ASSUME NEW n \in 1..Chunk, NEW keep \in BOOLEAN, Receive(s, n, keep) PROVE Apart(r)
  <2>1. /\ UNCHANGED <<session, download, opened, rest, at, broken, faulty, reply, cut, peak>>
        /\ stored'[r] = stored[r]
    BY <1>6 DEF Receive
  <2>2. CASE keep
    BY <1>6, <2>1, <2>2 DEF Receive, others
  <2>3. CASE ~keep
    <3>1. PICK b : buf' = [buf EXCEPT ![s] = <<>>] /\ Flush(s, b)
      BY <1>6, <2>3 DEF Receive
    <3>2. QED BY <2>1, <3>1, ApartFlush
  <2>4. QED BY <2>2, <2>3
<1>7. QED BY <1>1, <1>2, <1>3, <1>4, <1>5, <1>6

\* What a session does disturbs the downloads of the others, or leaves them alone.
LEMMA OthersStaySound ==
    ASSUME NEW s \in Session, Sound(s), Apart(s)
    PROVE  Sound(s)'
<1>1. at[s] \in Loops /\ s \notin disturbed' => LenOf(cmd[s].file)' = LenOf(cmd[s].file)
  BY DEF Apart, LenOf, Loops
<1>2. InOrder(s)' <=> InOrder(s)
  BY DEF Apart, InOrder
<1>3. Current(s)' <=> Current(s)
  BY DEF Apart, Current
<1>5. Reached(s)' <=> Reached(s)
  BY DEF Apart, Reached
<1>4. QED BY <1>1, <1>2, <1>3, <1>5 DEF Apart, Sound, Loops

\* A session's own steps, the new state being of its type already.
LEMMA OwnStepIsSound ==
    ASSUME TypeInv, TypeInv', NEW s \in Session, Sound(s), Command(s) \/ Work(s) \/ Fault(s)
    PROVE  Sound(s)'
<1> DEFINE f == cmd[s].file
<1>0. /\ f \in File /\ LenOf(f) \in Nat /\ from[s] \in Nat /\ pos[s] \in Nat /\ size[s] \in Nat
      /\ offset[s] \in Nat /\ rest[s] \in Nat /\ Len(got[s]) \in Nat
      /\ pos'[s] \in Nat /\ size'[s] \in Nat
  <2>1. f \in File /\ got[s] \in Seq(Int)
    BY DEF TypeInv, TypeOK
  <2>2. LenOf(f) \in Nat
    BY <2>1, LenIsNat DEF TypeInv
  <2>3. QED BY <2>1, <2>2 DEF TypeInv, TypeOK
<1> HIDE DEF f
<1> USE DEF disk, session, download, upload, opened, others
<1>1. ASSUME at' = at, cmd' = cmd, pos' = pos, offset' = offset, size' = size, got' = got,
             from' = from, broken' = broken, cut' = cut, stalled' = stalled, content' = content,
             disturbed' = disturbed, faulty' = faulty,
             reply'[s] = reply[s] \/ (at[s] = "idle" /\ reply'[s] # 226)
      PROVE  Sound(s)'
  BY <1>1 DEF Sound, InOrder, Current, Reached, LenOf, Loops
<1>2. ASSUME NEW n \in 0..MaxRest, Rest(s, n) PROVE Sound(s)'
  BY <1>1, <1>2 DEF Rest
<1>3. ASSUME NEW g \in File, NEW kind \in Kinds, RefuseRest(s, kind, g) PROVE Sound(s)'
  BY <1>1, <1>3 DEF RefuseRest, TypeInv, TypeOK
<1>4. ASSUME at'[s] \notin Loops \cup {"idle"} \/ cmd'[s].kind # "RETR" PROVE Sound(s)'
  BY <1>4 DEF Sound
<1>5. ASSUME NEW g \in File, NEW kind \in Kinds, NEW z \in BOOLEAN, NEW n \in 0..MaxUp,
             Start(s, kind, g, z, n)
      PROVE  Sound(s)'
  BY <1>4, <1>5 DEF Start, TypeInv, TypeOK, Loops
<1>6. ASSUME GiveUp(s) PROVE Sound(s)'
  <2>1. at'[s] = "idle" /\ reply'[s] # 226 /\ got'[s] = <<>>
    BY <1>6 DEF GiveUp, TypeInv, TypeOK, StageInv
  <2>2. InOrder(s)'
    BY <2>1 DEF InOrder
  <2>3. QED BY <2>1, <2>2 DEF Sound
<1>7. ASSUME Connect(s) PROVE Sound(s)'
  BY <1>4, <1>7 DEF Connect, TypeInv, TypeOK, Loops
<1>8. CASE OpenDownload(s)
  <2>1. /\ got'[s] = <<>> /\ from'[s] = rest[s] /\ pos'[s] = rest[s] /\ offset'[s] = rest[s]
        /\ size'[s] = LenOf(f) /\ content' = content /\ cmd' = cmd
    BY <1>8 DEF OpenDownload, TypeInv, TypeOK, StageInv, f
  <2>2. InOrder(s)' /\ Current(s)' /\ Reached(s)' /\ LenOf(cmd[s].file)' = size'[s]
    BY <1>0, <2>1 DEF InOrder, Current, Reached, LenOf, f
  <2>3. \/ at'[s] = "idle" /\ rest[s] >= LenOf(f)
        \/ /\ at'[s] \in Loops /\ (at'[s] = "mmap" => UseMmap)
           /\ at'[s] # "read" => rest[s] < LenOf(f)
    BY <1>0, <1>8 DEF OpenDownload, End, Loops, TypeInv, TypeOK, f
  <2>4. QED BY <1>0, <2>1, <2>2, <2>3 DEF Sound, Loops
<1>9. ASSUME NEW n \in 1..Chunk, Sendfile(s, n) PROVE Sound(s)'
  <2>1. /\ at[s] = "sendfile" /\ cmd[s].kind = "RETR" /\ pos[s] = offset[s] /\ pos[s] < size[s]
        /\ pos[s] + n <= InFile(s) /\ pos[s] + n <= size[s] /\ n \in Nat /\ s \notin broken
    <3>1. at[s] = "sendfile" /\ cmd[s].kind = "RETR" /\ s \notin broken
      BY <1>9 DEF Sendfile, Deliver, TypeInv, StageInv, Loops
    <3>2. pos[s] = offset[s] /\ pos[s] < size[s]
      BY <3>1 DEF Sound, Loops
    <3>3. InFile(s) \in Nat
      BY <1>0 DEF InFile, f
    <3>4. n \in Nat /\ n <= Smaller(Smaller(Chunk, size[s] - pos[s]), InFile(s) - pos[s])
      BY <1>9 DEF Sendfile, Left
    <3>5. n <= size[s] - pos[s] /\ n <= InFile(s) - pos[s]
      BY <1>0, <3>3, <3>4, Bounds DEF Smaller
    <3>6. QED BY <1>0, <3>1, <3>2, <3>3, <3>4, <3>5
  <2>2. InOrder(s) /\ Current(s) => InOrder(s)' /\ Current(s)'
    BY <1>9, <2>1, Delivered DEF Sendfile
  <2>3. /\ pos'[s] = pos[s] + n /\ offset'[s] = pos'[s] /\ size' = size /\ cmd' = cmd
        /\ content' = content /\ faulty' = faulty /\ broken' = broken /\ cut' = cut
        /\ disturbed' = disturbed /\ stalled' = stalled
    BY <1>0, <1>9, <2>1 DEF Sendfile, Deliver, TypeInv, TypeOK
  <2>4. \/ at'[s] = "idle" /\ pos'[s] = size[s]
        \/ at'[s] = "sendfile" /\ pos'[s] < size[s]
        \/ at'[s] = AfterSendfile(s, pos'[s])
    <3>1. CASE n = Left(s)
      BY <1>0, <1>9, <2>1, <2>3, <3>1 DEF Sendfile, End, Left, TypeInv, TypeOK
    <3>2. CASE n # Left(s)
      <4>1. \/ n = Chunk /\ Goto(s, "sendfile")
            \/ Goto(s, AfterSendfile(s, offset[s] + n))
        BY <1>9, <3>2 DEF Sendfile
      <4>2. pos'[s] = offset[s] + n /\ pos'[s] < size[s]
        BY <1>0, <2>1, <2>3, <3>2 DEF Left
      <4>3. \A v : Goto(s, v) => at'[s] = v
        BY DEF Goto, TypeInv, TypeOK
      <4> QED
        BY <4>1, <4>2, <4>3
    <3> QED
      BY <3>1, <3>2
  <2>5. LenOf(cmd[s].file)' = LenOf(cmd[s].file)
    BY <2>3 DEF LenOf
  <2>7. Reached(s) => Reached(s)'
    BY <1>9, <2>1, DeliveredReaches DEF Sendfile
  <2>8. Current(s)' /\ at'[s] = "idle" => from'[s] + Len(got'[s]) >= size'[s]
    BY <1>0, <2>3, <2>4 DEF Current, AfterSendfile
  <2>9. Reached(s)' /\ at'[s] = "idle" => from'[s] + Len(got'[s]) >= size'[s]
    BY <1>0, <2>3, <2>4 DEF Reached, AfterSendfile
  <2>6. QED
    BY <1>0, <2>1, <2>2, <2>3, <2>4, <2>5, <2>7, <2>8, <2>9 DEF Sound, AfterSendfile, Loops
<1>10. CASE SendfileStops(s)
  <2>1. /\ at[s] = "sendfile" /\ cmd[s].kind = "RETR" /\ pos[s] = offset[s]
        /\ at'[s] = AfterSendfile(s, offset[s])
    BY <1>10 DEF SendfileStops, Goto, Sound, TypeInv, TypeOK, StageInv, Loops
  <2>2. QED
    BY <1>0, <1>10, <2>1
       DEF SendfileStops, Sound, AfterSendfile, InOrder, Current, Reached, LenOf, Loops
<1>11. ASSUME NEW n \in 1..Chunk, SendMapped(s, n) PROVE Sound(s)'
  <2>1. /\ at[s] = "mmap" /\ cmd[s].kind = "RETR" /\ pos[s] < size[s] /\ UseMmap
        /\ n \in Nat /\ s \notin broken /\ pos[s] + n <= size[s]
    <3>1. at[s] = "mmap" /\ cmd[s].kind = "RETR" /\ s \notin broken
      BY <1>11 DEF SendMapped, Deliver, TypeInv, StageInv, Loops
    <3>2. pos[s] < size[s] /\ UseMmap
      BY <3>1 DEF Sound, Loops
    <3>3. n <= size[s] - pos[s]
      BY <1>0, <1>11, <3>2, Bounds DEF SendMapped, Left, Smaller
    <3>4. QED BY <1>0, <3>1, <3>2, <3>3
  <2>2. s \notin disturbed => pos[s] + n <= InFile(s)
    BY <2>1 DEF Sound, Loops, InFile
  <2>3. s \notin disturbed /\ InOrder(s) /\ Current(s) => InOrder(s)' /\ Current(s)'
    BY <1>11, <2>1, <2>2, Delivered DEF SendMapped
  <2>4. /\ pos'[s] = pos[s] + n /\ offset' = offset /\ size' = size /\ cmd' = cmd
        /\ content' = content /\ faulty' = faulty /\ broken' = broken /\ cut' = cut
        /\ disturbed' = disturbed /\ stalled' = stalled
    BY <1>0, <1>11, <2>1 DEF SendMapped, Deliver, TypeInv, TypeOK
  <2>5. (at'[s] = "idle" /\ pos'[s] = size[s]) \/ (at'[s] = "mmap" /\ pos'[s] < size[s])
    BY SMTT(30), <1>0, <1>11, <2>1, <2>4 DEF SendMapped, End, Goto, Left, TypeInv, TypeOK
  <2>6. LenOf(cmd[s].file)' = LenOf(cmd[s].file)
    BY <2>4 DEF LenOf
  <2>8. Reached(s) => Reached(s)'
    BY <1>11, <2>1, DeliveredReaches DEF SendMapped
  <2>9. Reached(s)' /\ at'[s] = "idle" => from'[s] + Len(got'[s]) >= size'[s]
    BY <1>0, <2>4, <2>5 DEF Reached
  <2>10. offset[s] <= pos[s] /\ offset'[s] <= pos'[s]
    BY <1>0, <2>1, <2>4 DEF Sound, Loops
  <2>7. QED
    BY <1>0, <2>1, <2>3, <2>4, <2>5, <2>6, <2>8, <2>9, <2>10 DEF Sound, Loops
<1>12. CASE MmapStops(s)
  <2>1. /\ at[s] = "mmap" /\ cmd[s].kind = "RETR" /\ pos[s] < size[s] /\ UseMmap
    BY <1>12 DEF MmapStops, TypeInv, StageInv, Sound, Loops
  <2>2. s \notin disturbed => Mapped(s, pos[s])
    BY <1>0, <2>1, Pages DEF Mapped, Sound, Loops, InFile
  <2>3. s \in broken \/ s \in disturbed \/ pos[s] = offset[s]
    BY <1>12, <2>2 DEF MmapStops
  <2>4. /\ pos'[s] = offset[s] /\ size' = size /\ cmd' = cmd /\ at'[s] = "read"
        /\ content' = content /\ faulty' = faulty /\ broken' = broken /\ cut' = cut
        /\ disturbed' = disturbed /\ from' = from /\ got' = got /\ stalled' = stalled
        /\ offset' = offset
    BY <1>12 DEF MmapStops, Goto, TypeInv, TypeOK
  <2>5. LenOf(cmd[s].file)' = LenOf(cmd[s].file) /\ (InOrder(s) => InOrder(s)')
    BY <2>4 DEF LenOf, InOrder
  <2>6. pos[s] = offset[s] /\ Current(s) => Current(s)'
    BY <2>4 DEF Current
  <2>8. Reached(s) => Reached(s)'
    BY <1>0, <2>1, <2>4 DEF Reached, Sound, Loops
  <2>7. QED
    BY <2>1, <2>3, <2>4, <2>5, <2>6, <2>8 DEF Sound, Loops
<1>13. ASSUME NEW n \in 1..Chunk, ReadAndSend(s, n) PROVE Sound(s)'
  <2> DEFINE chunk == Smaller(Smaller(Chunk, size[s] - pos[s]), InFile(s) - pos[s])
  <2>1. /\ at[s] = "read" /\ cmd[s].kind = "RETR" /\ n \in Nat /\ s \notin broken
        /\ n <= chunk /\ cut' = (IF n < chunk THEN cut \cup {s} ELSE cut)
        /\ IF n < chunk \/ n = size[s] - pos[s] THEN End(s, 226) ELSE Goto(s, "read")
    BY <1>13 DEF ReadAndSend, Deliver, Left, TypeInv, StageInv, Loops
  <2>2. pos[s] + n <= InFile(s) /\ pos[s] + n <= size[s] /\ InFile(s) \in Nat
    <3>1. InFile(s) \in Nat
      BY <1>0 DEF InFile, f
    <3> DEFINE left == size[s] - pos[s]
               tail == InFile(s) - pos[s]
               most == Smaller(Chunk, left)
    <3>2. left \in Int /\ tail \in Int /\ Chunk \in Int
      BY <1>0, <3>1, Bounds
    <3>3. n <= Smaller(most, tail)
      BY <2>1
    <3>4. n <= left /\ n <= tail
      <4> HIDE DEF left, tail
      <4>1. most \in Int /\ most <= left
        BY <3>2, SmallerIsLower
      <4> HIDE DEF most
      <4>2. Smaller(most, tail) \in Int /\ Smaller(most, tail) <= most /\ Smaller(most, tail) <= tail
        BY <3>2, <4>1, SmallerIsLower
      <4>3. n \in Int
        OBVIOUS
      <4>4. QED BY <2>1, <3>2, <3>3, <4>1, <4>2
    <3>5. QED BY <1>0, <2>1, <3>1, <3>4
  <2> HIDE DEF chunk
  <2>3. InOrder(s) /\ Current(s) => InOrder(s)' /\ Current(s)'
    BY <1>13, <2>1, <2>2, Delivered DEF ReadAndSend
  <2>4. /\ pos'[s] = pos[s] + n /\ size' = size /\ cmd' = cmd
        /\ content' = content /\ faulty' = faulty /\ broken' = broken
        /\ disturbed' = disturbed /\ stalled' = stalled
    BY <1>0, <1>13, <2>1 DEF ReadAndSend, Deliver, TypeInv, TypeOK
  <2>5. \/ at'[s] = "read" /\ cut' = cut
        \/ at'[s] = "idle" /\ (s \in cut' \/ (cut' = cut /\ pos'[s] = size[s]))
    <3>1. n = size[s] - pos[s] => pos'[s] = size[s]
      BY <1>0, <2>1, <2>4
    <3>2. QED BY <2>1, <3>1 DEF End, Goto, TypeInv, TypeOK
  <2>6. LenOf(cmd[s].file)' = LenOf(cmd[s].file)
    BY <2>4 DEF LenOf
  <2>8. Reached(s) => Reached(s)'
    BY <1>13, <2>1, DeliveredReaches DEF ReadAndSend
  <2>9. Reached(s)' /\ pos'[s] = size[s] => from'[s] + Len(got'[s]) >= size'[s]
    BY <1>0, <2>4 DEF Reached
  <2>7. QED
    BY <1>0, <2>1, <2>3, <2>4, <2>5, <2>6, <2>8, <2>9 DEF Sound, Loops
<1>14. CASE ReadStops(s)
  <2>1. at[s] = "read" /\ cmd[s].kind = "RETR" /\ at'[s] = "idle"
    BY <1>14 DEF ReadStops, End, TypeInv, TypeOK, StageInv, Loops
  <2>2. InOrder(s) => InOrder(s)'
    BY <1>14 DEF ReadStops, InOrder
  <2>3. s \in disturbed \/ s \in broken \/ size[s] <= pos[s]
    BY <1>0, <1>14, <2>1 DEF ReadStops, Sound, InFile, Left, Loops, f
  <2>4. QED
    BY <1>0, <1>14, <2>1, <2>2, <2>3 DEF ReadStops, Sound, Reached, Loops
<1>15. CASE DiskError(s) \/ SendTimesOut(s)
  <2>1. /\ at[s] \in Loops /\ cmd[s].kind = "RETR"
        /\ pos'[s] = offset[s] /\ offset' = offset /\ got' = got /\ from' = from
        /\ size' = size /\ cmd' = cmd /\ content' = content /\ disturbed' = disturbed
        /\ broken' = broken
        /\ at'[s] = IF at[s] = "read" THEN "idle"
                    ELSE IF at[s] = "mmap" THEN "read" ELSE AfterSendfile(s, offset[s])
    BY <1>15
       DEF DiskError, SendTimesOut, Abandon, End, Goto, TypeInv, TypeOK, StageInv, Loops
  <2>2. InOrder(s) => InOrder(s)'
    BY <2>1 DEF InOrder
  <2>3. at[s] = "sendfile" => (Current(s) => Current(s)') /\ (Reached(s) => Reached(s)')
    BY <1>0, <2>1 DEF Current, Reached, Sound
  <2>4. LenOf(cmd[s].file)' = LenOf(cmd[s].file)
    BY <2>1 DEF LenOf
  <2>5. at[s] = "mmap" /\ Reached(s) => Reached(s)'
    BY <1>0, <2>1 DEF Reached, Sound, Loops
  <2>6. CASE DiskError(s)
    <3>1. s \in faulty'
      BY <2>6 DEF DiskError
    <3>2. QED
      BY <1>0, <2>1, <2>2, <2>3, <2>4, <2>5, <3>1 DEF Sound, AfterSendfile, Loops
  <2>7. CASE SendTimesOut(s)
    <3>1. /\ at[s] = "mmap" => s \in stalled'
          /\ at[s] = "read" => s \in cut'
          /\ at[s] # "read" => cut' = cut
          /\ stalled \subseteq stalled' /\ faulty' = faulty
      BY <2>7 DEF SendTimesOut
    <3>2. CASE at[s] = "read"
      BY <2>1, <2>2, <3>1, <3>2 DEF Sound, Loops
    <3>3. CASE at[s] = "mmap"
      BY <2>1, <2>4, <2>5, <3>1, <3>3 DEF Sound, Loops
    <3>4. CASE at[s] = "sendfile"
      BY <1>0, <2>1, <2>2, <2>3, <2>4, <3>1, <3>4 DEF Sound, AfterSendfile, Loops
    <3>5. QED BY <2>1, <3>2, <3>3, <3>4 DEF Loops
  <2>8. QED BY <1>15, <2>6, <2>7
<1>16. CASE Disconnect(s)
  <2>1. s \in broken' /\ at[s] \in Loops
    BY <1>16 DEF Disconnect, Loops
  <2>2. QED
    BY <1>16, <2>1 DEF Disconnect, Sound, InOrder, Current, Reached, LenOf, Loops
<1>17. ASSUME at[s] = "recv", cmd'[s] = cmd[s] PROVE Sound(s)'
  <2>1. cmd'[s].kind # "RETR"
    BY <1>17 DEF TypeInv, StageInv
  <2>2. QED BY <1>4, <2>1
<1>18. ASSUME NEW w, OpenUpload(s, w) PROVE Sound(s)'
  <2>1. cmd'[s].kind # "RETR"
    BY <1>18 DEF OpenUpload
  <2>2. QED BY <1>4, <2>1
<1>19. ASSUME NEW n \in 1..Chunk, NEW keep \in BOOLEAN, Receive(s, n, keep) PROVE Sound(s)'
  BY <1>17, <1>19 DEF Receive
<1>20. CASE Finish(s) \/ EndEarly(s) \/ ReceiveFails(s) \/ DiskFull(s)
  BY <1>17, <1>20 DEF Finish, EndEarly, ReceiveFails, DiskFull
<1>21. CASE Spin(s)
  BY <1>1, <1>21 DEF Spin, vars
<1>22. QED
  BY <1>2, <1>3, <1>5, <1>6, <1>7, <1>8, <1>9, <1>10, <1>11, <1>12, <1>13, <1>14, <1>15,
     <1>16, <1>18, <1>19, <1>20, <1>21 DEF Command, Work, Fault, Kinds

LEMMA EverybodyApart ==
    ASSUME TypeInv, NEW s \in Session, NEW r \in Session \ {s}, Command(s) \/ Work(s) \/ Fault(s)
    PROVE  Apart(r)
<1>1. CASE Spin(s)
  BY <1>1 DEF Spin, vars, Apart, disk, session, download, upload, opened, others
<1>2. QED
  BY <1>1, ApartBegin, ApartDownload, ApartUpload DEF Work, Fault

LEMMA DownloadStep == TypeInv /\ TypeInv' /\ DownloadInv /\ [Next]_vars => DownloadInv'
<1> SUFFICES ASSUME TypeInv, TypeInv', DownloadInv, [Next]_vars, NEW r \in Session
             PROVE  Sound(r)'
  BY DEF DownloadInv
<1>1. Sound(r)
  BY DEF DownloadInv
<1>2. ASSUME NEW s \in Session, Command(s) \/ Work(s) \/ Fault(s) PROVE Sound(r)'
  <2>1. CASE r = s
    BY <1>1, <1>2, <2>1, OwnStepIsSound
  <2>2. CASE r # s
    <3>1. Apart(r)
      BY <1>2, <2>2, EverybodyApart
    <3>2. QED BY <1>1, <3>1, OthersStaySound
  <2>3. QED BY <2>1, <2>2
<1>3. CASE UNCHANGED vars
  BY <1>1, <1>3
     DEF vars, Sound, InOrder, Current, Reached, LenOf, Loops, disk, session, download, upload,
         opened, others
<1>4. QED BY <1>2, <1>3 DEF Next, Terminated

LEMMA DownloadsBegin == Init => DownloadInv
BY DEF Init, DownloadInv, Sound, Loops, NoCmd

LEMMA DownloadsAreSound == Spec => [](TypeInv /\ DownloadInv)
<1>1. Init => TypeInv /\ DownloadInv
  BY InitType, DownloadsBegin
<1>2. TypeInv /\ DownloadInv /\ [Next]_vars => (TypeInv /\ DownloadInv)'
  BY StepType, DownloadStep
<1>3. QED BY <1>1, <1>2, PTL DEF Spec

\* What a client receives is its file from the REST position on, in order, with
\* nothing left out or sent twice, whichever of sendfile, mmap and read sends it
\* and however these stop, calls that time out and connections that are lost
\* included; with mmap, if the file and the disk stay as they are and no send() from
\* the mapping timed out: handleRETR then starts again at an offset that the mapping
\* never moved.
THEOREM ReceivedInOrder == Spec => []DownloadsAreInOrder
<1>1. TypeInv /\ DownloadInv => DownloadsAreInOrder
  <2> SUFFICES ASSUME TypeInv, DownloadInv, NEW s \in Session,
                      at[s] \notin {"wait", "open"}, cmd[s].kind = "RETR"
               PROVE  (UseMmap /\ s \in disturbed \cup faulty \cup stalled) \/ InOrder(s)
    BY DEF DownloadsAreInOrder, InOrder
  <2>1. at[s] \in Loops \cup {"idle"}
    BY DEF TypeInv, TypeOK, StageInv, Stages, Loops
  <2>2. QED BY <2>1 DEF DownloadInv, Sound
<1>2. QED BY <1>1, DownloadsAreSound, PTL

\* A "226" after a download means a whole file, unless the file was changed, the
\* disk or the connection failed, or a last send() was short or timed out.
THEOREM CompleteMeansWhole == Spec => []DownloadsAreWhole
<1>1. DownloadInv => DownloadsAreWhole
  BY DEF DownloadInv, Sound, DownloadsAreWhole, Loops
<1>2. QED BY <1>1, DownloadsAreSound, PTL

-----------------------------------------------------------------------------
(* Uploads.                                                                  *)

InPlace(b, i) == b.place < 0 \/ b.place = i \/ b.job \in strayed

FilesInPlace ==
    \A f \in File : content[f] # Missing =>
        \A i \in 1..Len(content[f]) : InPlace(content[f][i], i - 1)

\* Bytes that the stream of s may write where it stands.
Fits(s, b) ==
    \A k \in 1..Len(b) :
        b[k].place < 0 \/ (cmd[s].kind = "STOR" /\ InPlace(b[k], pos[s] + k - 1))

\* What a stream holds belongs where it stands, until a write has failed; and the
\* bytes that the client sends belong behind that.
Upload(s) ==
    /\ at[s] \in {"open", "recv"} /\ how[s] = "append" => cmd[s].kind = "APPE"
    /\ at[s] = "recv" /\ s \notin faulty =>
         /\ Fits(s, buf[s])
         /\ cmd[s].kind = "STOR" =>
              no[s] \in strayed \/ from[s] + stored[s] = pos[s] + Len(buf[s])

PlaceInv == FilesInPlace /\ \A s \in Session : Upload(s)

LEMMA FilesStay ==
    ASSUME FilesInPlace, content' = content, strayed \subseteq strayed'
    PROVE  FilesInPlace'
BY DEF FilesInPlace, InPlace

LEMMA FlushInPlace ==
    ASSUME TypeInv, NEW s \in Session, at[s] = "recv", FilesInPlace, NEW b \in Seq(Byte),
           s \notin faulty => Fits(s, b), how[s] = "append" => cmd[s].kind = "APPE", Flush(s, b)
    PROVE  FilesInPlace'
<1>1. CASE UNCHANGED <<disk, others, pos>>
  BY <1>1, FilesStay DEF disk
<1>2. CASE /\ s \notin faulty /\ b # <<>>
           /\ content' = [content EXCEPT ![cmd[s].file] = Overwrite(@, PlaceOf(s), b)]
           /\ UNCHANGED strayed
  <2> DEFINE f == cmd[s].file
             o == Overwrite(content[f], PlaceOf(s), b)
  <2>1. f \in File /\ PlaceOf(s) \in Nat /\ pos[s] \in Nat /\ content[f] \in Seq(Byte)
    <3>1. f \in File /\ pos[s] \in Nat /\ content[f] \in Seq(Byte)
      BY DEF TypeInv, TypeOK, StageInv
    <3>2. LenOf(f) \in Nat
      BY <3>1, LenIsNat DEF TypeInv
    <3>3. QED BY <3>1, <3>2 DEF PlaceOf
  <2>2. /\ o \in Seq(Byte)
        /\ \A i \in 1..Len(o) :
             \/ i \in PlaceOf(s) + 1 .. PlaceOf(s) + Len(b) /\ o[i] = b[i - PlaceOf(s)]
             \/ i \in 1..Len(content[f]) /\ o[i] = content[f][i]
             \/ o[i] = Hole
    BY <1>2, <2>1, Overwritten
  <2>3. content'[f] = o /\ \A g \in File \ {f} : content'[g] = content[g]
    BY <1>2, <2>1 DEF TypeInv, TypeOK
  <2> HIDE DEF f, o
  <2>4. ASSUME NEW i \in 1..Len(o) PROVE InPlace(o[i], i - 1)
    <3>1. CASE i \in PlaceOf(s) + 1 .. PlaceOf(s) + Len(b) /\ o[i] = b[i - PlaceOf(s)]
      <4>1. i - PlaceOf(s) \in 1..Len(b) /\ i \in Nat
        BY <2>1, <3>1
      <4>2. CASE o[i].place < 0
        BY <4>2 DEF InPlace
      <4>3. CASE ~(o[i].place < 0)
        <5>1. cmd[s].kind = "STOR" /\ InPlace(o[i], pos[s] + (i - PlaceOf(s)) - 1)
          BY <1>2, <3>1, <4>1, <4>3 DEF Fits
        <5>2. PlaceOf(s) = pos[s]
          BY <5>1 DEF PlaceOf
        <5>3. pos[s] + (i - PlaceOf(s)) - 1 = i - 1
          BY <2>1, <4>1, <5>2
        <5>4. QED BY <5>1, <5>3
      <4>4. QED BY <4>2, <4>3
    <3>2. CASE i \in 1..Len(content[f]) /\ o[i] = content[f][i]
      BY <2>1, <3>2, MissingIsNoContent DEF FilesInPlace
    <3>3. CASE o[i] = Hole
      BY <3>3 DEF Hole, InPlace
    <3>4. QED BY <2>2, <3>1, <3>2, <3>3
  <2>5. SUFFICES ASSUME NEW g \in File, content'[g] # Missing, NEW i \in 1..Len(content'[g])
                 PROVE  InPlace(content'[g][i], i - 1)
    BY <1>2 DEF FilesInPlace, InPlace
  <2>6. CASE g = f
    BY <2>3, <2>4, <2>6
  <2>7. CASE g # f
    <3>1. content'[g] = content[g]
      BY <2>3, <2>7
    <3>2. QED BY <2>5, <3>1 DEF FilesInPlace
  <2>8. QED BY <2>6, <2>7
<1>3. QED BY <1>1, <1>2 DEF Flush

LEMMA Behind ==
    ASSUME NEW k \in Int, NEW l \in Int, NEW a \in Int, NEW c \in Int, NEW p \in Int,
           a + c = p + l
    PROVE  a + (c + (k - l)) - 1 = p + k - 1
OBVIOUS

\* What the client sends next belongs behind what the stream holds.
LEMMA NextBytesFit ==
    ASSUME TypeInv, NEW s \in Session, Upload(s), at[s] = "recv", s \notin faulty,
           NEW n \in 1..Chunk
    PROVE  LET b == buf[s] \o [k \in 1..n |-> Sent(s, stored[s] + k)]
           IN  b \in Seq(Byte) /\ Len(b) = Len(buf[s]) + n /\ Fits(s, b)
<1> DEFINE d == [k \in 1..n |-> Sent(s, stored[s] + k)]
           b == buf[s] \o d
<1>1. /\ buf[s] \in Seq(Byte) /\ stored[s] \in Nat /\ from[s] \in Nat /\ pos[s] \in Nat /\ n \in Nat
      /\ cmd[s].kind \in {"STOR", "APPE"}
  BY Bounds DEF TypeInv, TypeOK, StageInv, Kinds
<1>2. \A k \in 1..n : Sent(s, stored[s] + k) \in Byte
  BY <1>1, SentIsByte DEF TypeInv
<1>3. d \in Seq(Byte) /\ Len(d) = n /\ \A k \in 1..n : d[k] = Sent(s, stored[s] + k)
  BY <1>1, <1>2
<1> HIDE DEF d
<1>4. b \in Seq(Byte) /\ Len(b) = Len(buf[s]) + n
  BY <1>1, <1>3
<1>5. ASSUME NEW k \in Nat, k \in 1..Len(b)
      PROVE  b[k].place < 0 \/ (cmd[s].kind = "STOR" /\ InPlace(b[k], pos[s] + k - 1))
  <2>1. CASE k <= Len(buf[s])
    <3>1. b[k] = buf[s][k] /\ k \in 1..Len(buf[s])
      BY <1>1, <1>3, <1>4, <1>5, <2>1
    <3>2. QED BY <3>1 DEF Upload, Fits
  <2>2. CASE ~(k <= Len(buf[s]))
    <3> DEFINE j == k - Len(buf[s])
    <3>1. b[k] = d[j] /\ j \in 1..n
      BY <1>1, <1>3, <1>4, <1>5, <2>2
    <3>2. b[k] = Sent(s, stored[s] + j)
      BY <1>3, <3>1
    <3>3. CASE cmd[s].kind = "APPE"
      BY <1>1, <3>1, <3>2, <3>3 DEF Sent
    <3>4. CASE cmd[s].kind = "STOR"
      <4>1. b[k].job = no[s] /\ b[k].place = from[s] + (stored[s] + j) - 1
        BY <3>2, <3>4 DEF Sent
      <4>2. CASE no[s] \in strayed
        BY <3>4, <4>1, <4>2 DEF InPlace
      <4>3. CASE from[s] + stored[s] = pos[s] + Len(buf[s])
        <5>1. b[k].place = pos[s] + k - 1
          <6> DEFINE a == from[s]  c == stored[s]  p == pos[s]  l == Len(buf[s])
          <6>1. a \in Int /\ c \in Int /\ p \in Int /\ l \in Int /\ a + c = p + l
            BY <1>1, <4>3
          <6>2. b[k].place = a + (c + (k - l)) - 1
            BY <4>1
          <6> HIDE DEF a, b, c, l, p
          <6>3. a + (c + (k - l)) - 1 = p + k - 1
            BY <6>1, Behind
          <6>4. QED BY <6>2, <6>3 DEF p
        <5>2. QED BY <3>4, <5>1 DEF InPlace
      <4>4. QED BY <3>4, <4>2, <4>3 DEF Upload
    <3>5. QED BY <1>1, <3>3, <3>4
  <2>3. QED BY <2>1, <2>2
<1>6. Fits(s, b)
  <2>1. 1..Len(b) \subseteq Nat
    BY <1>4
  <2>2. QED BY <1>5, <2>1 DEF Fits
<1>7. QED BY <1>4, <1>6 DEF d

LEMMA Moved ==
    ASSUME NEW a \in Int, NEW c \in Int, NEW p \in Int, NEW l \in Int, NEW n \in Int,
           a + c = p + l
    PROVE  a + (c + n) = p + (l + n) /\ a + (c + n) = (p + (l + n)) + 0
OBVIOUS

LEMMA OpenInPlace ==
    ASSUME TypeInv, NEW s \in Session, FilesInPlace, Upload(s), NEW w, OpenUpload(s, w)
    PROVE  FilesInPlace' /\ Upload(s)' /\ strayed \subseteq strayed'
<1>1. strayed \subseteq strayed' /\ no'[s] = no[s] /\ cmd' = cmd
  BY DEF OpenUpload
<1>2. FilesInPlace'
  <2> DEFINE f == cmd[s].file
  <2>1. CASE w = "trunc"
    <3>1. content'[f] = <<>> /\ \A g \in File \ {f} : content'[g] = content[g]
      BY <2>1 DEF OpenUpload, TypeInv, TypeOK
    <3>2. QED BY <1>1, <3>1 DEF FilesInPlace, InPlace
  <2>2. CASE w # "trunc"
    <3>1. content' = content
      BY <2>2 DEF OpenUpload, TypeInv, TypeOK
    <3>2. QED BY <1>1, <3>1, FilesStay
  <2>3. QED BY <2>1, <2>2
<1>3. /\ buf'[s] = <<>> /\ stored'[s] = 0 /\ from'[s] = rest[s] /\ pos'[s] = StartOf(s, w)
      /\ how'[s] = w /\ w \in {how[s], "trunc"} /\ rest[s] \in Nat
      /\ how[s] \in {"trunc", "update", "append"}
  BY DEF OpenUpload, OpensAs, TypeInv, TypeOK, StageInv
<1>4. how[s] = "append" => cmd[s].kind = "APPE"
  BY DEF Upload, OpenUpload
<1>5. cmd[s].kind = "STOR" => no[s] \in strayed' \/ rest[s] = StartOf(s, w)
  BY <1>3, <1>4 DEF OpenUpload, StartOf, TypeInv, TypeOK
<1>6. Fits(s, buf[s])'
  BY <1>3 DEF Fits
<1>7. Upload(s)'
  BY <1>1, <1>3, <1>4, <1>5, <1>6 DEF Upload
<1>8. QED BY <1>1, <1>2, <1>7

LEMMA ReceiveInPlace ==
    ASSUME TypeInv, NEW s \in Session, FilesInPlace, Upload(s),
           NEW n \in 1..Chunk, NEW keep \in BOOLEAN, Receive(s, n, keep)
    PROVE  FilesInPlace' /\ Upload(s)' /\ strayed \subseteq strayed'
<1> DEFINE b == buf[s] \o [k \in 1..n |-> Sent(s, stored[s] + k)]
<1>1. /\ at[s] = "recv" /\ at' = at /\ cmd' = cmd /\ no' = no /\ how' = how /\ from' = from
      /\ faulty' = faulty /\ stored'[s] = stored[s] + n
  BY DEF Receive, session, opened, TypeInv, TypeOK
<1>2. how[s] = "append" => cmd[s].kind = "APPE"
  BY <1>1 DEF Upload
<1>3. s \notin faulty => b \in Seq(Byte) /\ Len(b) = Len(buf[s]) + n /\ Fits(s, b)
  BY <1>1, NextBytesFit
<1>4. /\ from[s] \in Nat /\ stored[s] \in Nat /\ pos[s] \in Nat /\ buf[s] \in Seq(Byte)
      /\ n \in Nat /\ Len(buf[s]) \in Nat
  <2>1. buf[s] \in Seq(Byte)
    BY DEF TypeInv, TypeOK
  <2>2. Len(buf[s]) \in Nat
    BY <2>1
  <2>3. QED BY <2>1, <2>2, Bounds DEF TypeInv, TypeOK
<1>5. CASE keep
  <2>1. buf'[s] = b /\ content' = content /\ strayed' = strayed /\ pos' = pos
    BY <1>5 DEF Receive, disk, TypeInv, TypeOK
  <2> HIDE DEF b
  <2>2. FilesInPlace'
    BY <2>1, FilesStay
  <2>3. s \notin faulty => Fits(s, buf[s])'
    BY <1>1, <1>3, <2>1 DEF Fits, InPlace
  <2>4. s \notin faulty /\ from[s] + stored[s] = pos[s] + Len(buf[s])
          => from'[s] + stored'[s] = pos'[s] + Len(buf'[s])
    <3> SUFFICES ASSUME s \notin faulty, from[s] + stored[s] = pos[s] + Len(buf[s])
                 PROVE  from'[s] + stored'[s] = pos'[s] + Len(buf'[s])
      OBVIOUS
    <3> DEFINE a == from[s]  c == stored[s]  p == pos[s]  l == Len(buf[s])
    <3>1. a \in Int /\ c \in Int /\ p \in Int /\ l \in Int /\ n \in Int /\ a + c = p + l
      BY <1>4
    <3>2. from'[s] = a /\ stored'[s] = c + n /\ pos'[s] = p /\ Len(buf'[s]) = l + n
      BY <1>1, <1>3, <2>1
    <3> HIDE DEF a, c, p, l
    <3>3. a + (c + n) = p + (l + n)
      BY <3>1, Moved
    <3>4. QED BY <3>2, <3>3
  <2>5. Upload(s)'
    BY <1>1, <1>2, <2>1, <2>3, <2>4 DEF Upload
  <2>6. QED BY <2>1, <2>2, <2>5
<1>6. CASE ~keep
  <2>1. buf'[s] = <<>> /\ Flush(s, b)
    BY <1>6 DEF Receive, TypeInv, TypeOK
  <2>2. b \in Seq(Byte)
    <3>1. \A k \in 1..n : Sent(s, stored[s] + k) \in Byte
      BY <1>4, SentIsByte DEF TypeInv
    <3>2. [k \in 1..n |-> Sent(s, stored[s] + k)] \in Seq(Byte)
      BY <1>4, <3>1
    <3>3. QED BY <1>4, <3>2
  <2> HIDE DEF b
  <2>3. FilesInPlace'
    BY <1>1, <1>2, <1>3, <2>1, <2>2, FlushInPlace
  <2>4. strayed' = strayed /\ (s \notin faulty => pos'[s] = pos[s] + Len(b))
    <3>1. CASE s \notin faulty /\ b # <<>>
      BY <2>1, <3>1 DEF Flush, disk, TypeInv, TypeOK
    <3>2. CASE s \in faulty \/ b = <<>>
      BY <1>4, <2>1, <3>2 DEF Flush, disk
    <3>3. QED BY <3>1, <3>2
  <2>5. Fits(s, buf[s])' /\ Len(buf'[s]) = 0
    BY <2>1 DEF Fits
  <2>6. s \notin faulty /\ from[s] + stored[s] = pos[s] + Len(buf[s])
          => from'[s] + stored'[s] = pos'[s] + Len(buf'[s])
    <3> SUFFICES ASSUME s \notin faulty, from[s] + stored[s] = pos[s] + Len(buf[s])
                 PROVE  from'[s] + stored'[s] = pos'[s] + Len(buf'[s])
      OBVIOUS
    <3> DEFINE a == from[s]  c == stored[s]  p == pos[s]  l == Len(buf[s])
    <3>1. a \in Int /\ c \in Int /\ p \in Int /\ l \in Int /\ n \in Int /\ a + c = p + l
      BY <1>4
    <3>2. from'[s] = a /\ stored'[s] = c + n /\ pos'[s] = p + (l + n) /\ Len(buf'[s]) = 0
      BY <1>1, <1>3, <2>4, <2>5
    <3> HIDE DEF a, c, p, l
    <3>3. a + (c + n) = (p + (l + n)) + 0
      BY <3>1, Moved
    <3>4. QED BY <3>2, <3>3
  <2>7. Upload(s)'
    BY <1>1, <1>2, <2>4, <2>5, <2>6 DEF Upload
  <2>8. QED BY <2>3, <2>4, <2>7
<1>7. QED BY <1>5, <1>6

LEMMA CloseInPlace ==
    ASSUME TypeInv, NEW s \in Session, FilesInPlace, Upload(s), Finish(s) \/ ReceiveFails(s)
    PROVE  FilesInPlace' /\ Upload(s)' /\ strayed \subseteq strayed'
<1>1. at[s] = "recv" /\ at'[s] = "idle" /\ Flush(s, buf[s])
  BY DEF Finish, ReceiveFails, CloseFile, End, TypeInv, TypeOK
<1>2. buf[s] \in Seq(Byte)
  BY DEF TypeInv, TypeOK
<1>3. FilesInPlace'
  BY <1>1, <1>2, FlushInPlace DEF Upload
<1>4. strayed' = strayed
  BY <1>1, <1>2, FlushType
<1>5. QED BY <1>1, <1>3, <1>4 DEF Upload

\* A command that is accepted has not touched the disk yet.
LEMMA CommandKeepsDisk == ASSUME NEW s \in Session, Command(s) PROVE UNCHANGED disk
BY DEF Command, Rest, RefuseRest, Start

\* The other steps write nothing.
LEMMA QuietInPlace ==
    ASSUME TypeInv, NEW s \in Session, FilesInPlace, Upload(s),
           \/ Command(s) \/ GiveUp(s) \/ Connect(s) \/ OpenDownload(s) \/ SendfileStops(s)
           \/ MmapStops(s) \/ ReadStops(s) \/ EndEarly(s) \/ Spin(s)
           \/ DiskError(s) \/ Disconnect(s) \/ SendTimesOut(s) \/ DiskFull(s)
           \/ \E n \in 1..Chunk : Sendfile(s, n) \/ SendMapped(s, n) \/ ReadAndSend(s, n)
    PROVE  FilesInPlace' /\ Upload(s)' /\ strayed \subseteq strayed'
<1> USE DEF disk, session, download, upload, opened, others
<1>1. content' = content /\ strayed' = strayed
  <2>1. CASE Command(s)
    BY <2>1, CommandKeepsDisk
  <2>2. CASE GiveUp(s) \/ Connect(s) \/ EndEarly(s) \/ Spin(s) \/ DiskFull(s) \/ Disconnect(s)
    BY <2>2 DEF GiveUp, Connect, EndEarly, Spin, vars, DiskFull, Disconnect
  <2>3. CASE \/ OpenDownload(s) \/ SendfileStops(s) \/ MmapStops(s) \/ ReadStops(s)
             \/ DiskError(s) \/ SendTimesOut(s)
    BY <2>3 DEF OpenDownload, SendfileStops, MmapStops, ReadStops, DiskError, SendTimesOut
  <2>4. CASE \E n \in 1..Chunk : Sendfile(s, n) \/ SendMapped(s, n) \/ ReadAndSend(s, n)
    BY <2>4 DEF Sendfile, SendMapped, ReadAndSend
  <2>5. QED BY <2>1, <2>2, <2>3, <2>4
<1>2. Upload(s)'
  <2>1. ASSUME at'[s] \notin {"open", "recv"} PROVE Upload(s)'
    BY <2>1 DEF Upload
  <2>2. ASSUME UNCHANGED <<at, cmd, how, no, pos, stored, from, buf, faulty>> PROVE Upload(s)'
    BY <1>1, <2>2 DEF Upload, Fits, InPlace
  <2>3. CASE Command(s)
    <3>1. ASSUME NEW n \in 0..MaxRest, Rest(s, n) PROVE at'[s] \notin {"open", "recv"}
      BY <3>1 DEF Rest
    <3>2. ASSUME NEW f \in File, NEW kind \in Kinds, RefuseRest(s, kind, f)
          PROVE  at'[s] \notin {"open", "recv"}
      BY <3>2 DEF RefuseRest
    <3>3. ASSUME NEW f \in File, NEW kind \in Kinds, NEW z \in BOOLEAN, NEW n \in 0..MaxUp,
                 Start(s, kind, f, z, n)
          PROVE  at'[s] \notin {"open", "recv"}
      BY <3>3 DEF Start, TypeInv, TypeOK
    <3>4. QED BY <2>1, <2>3, <3>1, <3>2, <3>3 DEF Command, Kinds
  <2>4. CASE Connect(s)
    <3>1. at'[s] = "open" /\ cmd' = cmd /\ (how'[s] = "append" => cmd[s].kind = "APPE")
      BY <2>4 DEF Connect, TypeInv, TypeOK
    <3>2. QED BY <3>1 DEF Upload
  <2>5. CASE DiskFull(s)
    <3>1. s \in faulty' /\ at' = at /\ cmd' = cmd /\ how' = how
      BY <2>5 DEF DiskFull
    <3>2. QED BY <3>1 DEF Upload
  <2>6. CASE GiveUp(s) \/ EndEarly(s)
    BY <2>1, <2>6 DEF GiveUp, EndEarly, Goto, TypeInv, TypeOK
  <2>7. CASE Spin(s)
    BY <2>2, <2>7 DEF Spin, vars
  <2>8. CASE \/ OpenDownload(s) \/ SendfileStops(s) \/ MmapStops(s) \/ ReadStops(s)
             \/ DiskError(s) \/ Disconnect(s) \/ SendTimesOut(s)
             \/ \E n \in 1..Chunk : Sendfile(s, n) \/ SendMapped(s, n) \/ ReadAndSend(s, n)
    <3> USE DEF End, Goto, AfterSendfile, TypeInv, TypeOK
    <3>1. CASE OpenDownload(s)
      BY <2>1, <3>1 DEF OpenDownload
    <3>2. CASE SendfileStops(s) \/ MmapStops(s) \/ ReadStops(s)
      BY <2>1, <3>2 DEF SendfileStops, MmapStops, ReadStops
    <3>3. CASE DiskError(s) \/ Disconnect(s) \/ SendTimesOut(s)
      BY <2>1, <3>3 DEF DiskError, SendTimesOut, Abandon, Disconnect
    <3>4. ASSUME NEW n \in 1..Chunk, Sendfile(s, n) \/ SendMapped(s, n) PROVE Upload(s)'
      BY <2>1, <3>4 DEF Sendfile, SendMapped
    <3>5. ASSUME NEW n \in 1..Chunk, ReadAndSend(s, n) PROVE Upload(s)'
      <4>1. End(s, 226) \/ Goto(s, "read")
        BY <3>5 DEF ReadAndSend
      <4>2. QED BY <2>1, <4>1
    <3>6. QED BY <2>8, <3>1, <3>2, <3>3, <3>4, <3>5
  <2>9. QED BY <2>3, <2>4, <2>5, <2>6, <2>7, <2>8
<1>3. QED BY <1>1, <1>2, FilesStay

LEMMA PlaceStep == TypeInv /\ PlaceInv /\ [Next]_vars => PlaceInv'
<1> SUFFICES ASSUME TypeInv, PlaceInv, [Next]_vars PROVE PlaceInv'
  OBVIOUS
<1>1. ASSUME NEW s \in Session, Command(s) \/ Work(s) \/ Fault(s) PROVE PlaceInv'
  <2>1. FilesInPlace' /\ Upload(s)' /\ strayed \subseteq strayed'
    BY <1>1, OpenInPlace, ReceiveInPlace, CloseInPlace, QuietInPlace DEF PlaceInv, Work, Fault
  <2>2. ASSUME NEW r \in Session \ {s} PROVE Upload(r)'
    <3>1. Apart(r) /\ Upload(r)
      BY <1>1, EverybodyApart DEF PlaceInv
    <3>2. QED BY <2>1, <3>1 DEF Apart, Upload, Fits, InPlace
  <2>3. QED BY <2>1, <2>2 DEF PlaceInv
<1>2. CASE UNCHANGED vars
  BY <1>2 DEF vars, PlaceInv, FilesInPlace, Upload, Fits, InPlace, disk, session, upload, opened
<1>3. QED BY <1>1, <1>2 DEF Next, Terminated

LEMMA PlacesBegin == Init => PlaceInv
<1> SUFFICES ASSUME Init PROVE PlaceInv
  OBVIOUS
<1>1. ASSUME NEW f \in File, content[f] # Missing, NEW i \in 1..Len(content[f])
      PROVE  InPlace(content[f][i], i - 1)
  <2>1. content[f] = Old(Len(content[f])) /\ content[f] \in Seq(Byte)
    BY <1>1, FirstContentIsOld DEF Init
  <2>2. content[f][i].place = i - 1
    BY <2>1 DEF Old
  <2>3. QED BY <2>2 DEF InPlace
<1>2. FilesInPlace
  BY <1>1 DEF FilesInPlace
<1>3. \A s \in Session : Upload(s)
  BY DEF Init, Upload
<1>4. QED BY <1>2, <1>3 DEF PlaceInv

\* Each byte of a file lies where its upload was asked to put it, however uploads
\* and appends of any number of sessions overlap, fail and empty each other's files,
\* but for the resumed STORs whose file was not there or did not open for update:
\* these are known when handleSTOR opens the file, and answered with 226 all the same.
THEOREM UploadsInPlace == Spec => []BytesAreInPlace
<1>1. Init => TypeInv /\ PlaceInv
  BY InitType, PlacesBegin
<1>2. TypeInv /\ PlaceInv /\ [Next]_vars => (TypeInv /\ PlaceInv)'
  BY StepType, PlaceStep
<1>3. PlaceInv => BytesAreInPlace
  BY DEF PlaceInv, FilesInPlace, InPlace, BytesAreInPlace
<1>4. QED BY <1>1, <1>2, <1>3, PTL DEF Spec

-----------------------------------------------------------------------------
(* What an upload leaves in its file.                                        *)

LEMMA SameText ==
    ASSUME NEW S, NEW a \in Seq(S), NEW b \in Seq(S), Len(a) = Len(b),
           \A i \in 1..Len(a) : a[i] = b[i]
    PROVE  a = b
OBVIOUS

\* A text after bytes were written into it, in full.
IsOverwrite(o, c, place, b) ==
    /\ Len(o) = Larger(Len(c), place + Len(b))
    /\ \A i \in 1..Len(o) : o[i] = IF i \in place + 1 .. place + Len(b) THEN b[i - place]
                                   ELSE IF i <= Len(c) THEN c[i] ELSE Hole

IsConcat(t, d, b) ==
    /\ Len(t) = Len(d) + Len(b)
    /\ \A i \in 1..Len(d) + Len(b) : t[i] = IF i <= Len(d) THEN d[i] ELSE b[i - Len(d)]

LEMMA ConcatDef ==
    ASSUME NEW S, NEW d \in Seq(S), NEW b \in Seq(S)
    PROVE  d \o b \in Seq(S) /\ IsConcat(d \o b, d, b)
BY ConcatProperties DEF IsConcat

LEMMA OverwriteDef ==
    ASSUME NEW c \in Seq(Byte), NEW place \in Nat, NEW b \in Seq(Byte), b # <<>>
    PROVE  /\ Overwrite(c, place, b) \in Seq(Byte)
           /\ IsOverwrite(Overwrite(c, place, b), c, place, b)
<1> DEFINE n == Larger(Len(c), place + Len(b))
           e(i) == IF i \in place + 1 .. place + Len(b) THEN b[i - place]
                   ELSE IF i <= Len(c) THEN c[i] ELSE Hole
           o == [i \in 1..n |-> e(i)]
<1>0. Len(c) \in Nat /\ Len(b) \in Nat
  OBVIOUS
<1>1. n \in Nat
  BY <1>0 DEF Larger
<1>2. Overwrite(c, place, b) = o
  BY DEF Overwrite
<1>3. o \in Seq(Byte)
  BY <1>2, Overwritten
<1>4. Len(o) = n /\ \A i \in 1..n : o[i] = e(i)
  <2> HIDE DEF n, e
  <2>1. DOMAIN o = 1..n
    OBVIOUS
  <2>2. Len(o) = n
    BY <1>1, <1>3, <2>1, LenProperties
  <2> QED
    BY <2>2
<1>5. IsOverwrite(o, c, place, b)
  <2> HIDE DEF o
  <2> QED
    BY <1>4 DEF IsOverwrite
<1> QED
  BY <1>2, <1>3, <1>5

LEMMA OverwriteAtEnd ==
    ASSUME NEW c \in Seq(Byte), NEW b \in Seq(Byte)
    PROVE  Overwrite(c, Len(c), b) = c \o b
<1>0. Len(c) \in Nat /\ Len(b) \in Nat
  OBVIOUS
<1>1. CASE b = <<>>
  BY <1>1, ConcatEmptySeq DEF Overwrite
<1>2. CASE b # <<>>
  <2>1. Larger(Len(c), Len(c) + Len(b)) = Len(c) + Len(b)
    BY <1>0 DEF Larger
  <2>2. PICK o \in Seq(Byte) : o = Overwrite(c, Len(c), b) /\ IsOverwrite(o, c, Len(c), b)
    BY <1>0, <1>2, OverwriteDef
  <2>3. PICK t \in Seq(Byte) : t = c \o b /\ IsConcat(t, c, b)
    BY ConcatDef
  <2>4. Len(o) = Len(t)
    BY <2>1, <2>2, <2>3 DEF IsOverwrite, IsConcat
  <2>5. ASSUME NEW i \in 1..Len(o) PROVE o[i] = t[i]
    BY <1>0, <2>1, <2>2, <2>3 DEF IsOverwrite, IsConcat
  <2>6. o = t
    BY <2>4, <2>5, SameText
  <2> QED
    BY <2>2, <2>3, <2>6
<1> QED
  BY <1>1, <1>2

\* Two writes in a row are one.
LEMMA OverwriteTwice ==
    ASSUME NEW c \in Seq(Byte), NEW k \in Nat, NEW d \in Seq(Byte), NEW b \in Seq(Byte)
    PROVE  Overwrite(Overwrite(c, k, d), k + Len(d), b) = Overwrite(c, k, d \o b)
<1>0. Len(c) \in Nat /\ Len(b) \in Nat /\ Len(d) \in Nat
  OBVIOUS
<1>1. CASE b = <<>>
  <2>1. d \o b = d
    BY <1>1, ConcatEmptySeq
  <2> QED
    BY <1>1, <2>1 DEF Overwrite
<1>2. CASE d = <<>>
  <2>1. d \o b = b /\ k + Len(d) = k /\ Overwrite(c, k, d) = c
    BY <1>0, <1>2, ConcatEmptySeq, EmptySeq DEF Overwrite
  <2> QED
    BY <2>1
<1>3. CASE b # <<>> /\ d # <<>>
  <2> DEFINE m == Larger(Len(c), k + Len(d))
             n == Larger(m, (k + Len(d)) + Len(b))
             q == Larger(Len(c), k + (Len(d) + Len(b)))
  <2>1. /\ m \in Nat /\ n \in Nat /\ q \in Nat /\ n = q /\ m <= n
        /\ k + Len(d) <= m /\ Len(c) <= m
    BY <1>0 DEF Larger
  <2>2. PICK o \in Seq(Byte) : o = Overwrite(c, k, d) /\ IsOverwrite(o, c, k, d)
    BY <1>3, OverwriteDef
  <2>3. PICK w \in Seq(Byte) :
           w = Overwrite(o, k + Len(d), b) /\ IsOverwrite(w, o, k + Len(d), b)
    <3>1. k + Len(d) \in Nat
      BY <1>0
    <3> QED
      BY <1>3, <3>1, OverwriteDef
  <2>4. PICK t \in Seq(Byte) : t = d \o b /\ IsConcat(t, d, b)
    BY ConcatDef
  <2>5. t # <<>> /\ Len(t) = Len(d) + Len(b)
    BY <1>0, <1>3, <2>4, EmptySeq DEF IsConcat
  <2>6. PICK v \in Seq(Byte) : v = Overwrite(c, k, t) /\ IsOverwrite(v, c, k, t)
    BY <2>5, OverwriteDef
  <2>11. /\ Len(o) = m /\ Len(w) = n /\ Len(v) = q
    BY <1>0, <2>1, <2>2, <2>3, <2>5, <2>6 DEF IsOverwrite
  <2>12. \A i \in 1..m : o[i] = IF i \in k + 1 .. k + Len(d) THEN d[i - k]
                               ELSE IF i <= Len(c) THEN c[i] ELSE Hole
    BY <2>2, <2>11 DEF IsOverwrite
  <2>13. \A i \in 1..n : w[i] = IF i \in (k + Len(d)) + 1 .. (k + Len(d)) + Len(b)
                               THEN b[i - (k + Len(d))]
                               ELSE IF i <= m THEN o[i] ELSE Hole
    BY <2>3, <2>11 DEF IsOverwrite
  <2>14. \A i \in 1..q : v[i] = IF i \in k + 1 .. k + (Len(d) + Len(b)) THEN t[i - k]
                               ELSE IF i <= Len(c) THEN c[i] ELSE Hole
    BY <2>5, <2>6, <2>11 DEF IsOverwrite
  <2>15. \A i \in 1..Len(d) + Len(b) : t[i] = IF i <= Len(d) THEN d[i] ELSE b[i - Len(d)]
    BY <2>4 DEF IsConcat
  <2> HIDE DEF m, n, q
  <2>7. ASSUME NEW i \in 1..n PROVE w[i] = v[i]
    <3>0. i \in Nat /\ i >= 1 /\ i <= n /\ i \in 1..q
      BY <2>1
    <3>1. CASE i \in (k + Len(d)) + 1 .. (k + Len(d)) + Len(b)
      <4>1. /\ i \in k + 1 .. k + (Len(d) + Len(b))
            /\ i - k \in 1..Len(d) + Len(b) /\ ~(i - k <= Len(d))
            /\ (i - k) - Len(d) = i - (k + Len(d))
        BY <1>0, <3>0, <3>1
      <4>2. v[i] = t[i - k] /\ t[i - k] = b[(i - k) - Len(d)]
        BY <2>15, <2>14, <3>0, <4>1
      <4> QED
        BY <2>13, <3>0, <3>1, <4>1, <4>2
    <3>2. CASE i \in k + 1 .. k + Len(d)
      <4>1. /\ i \in k + 1 .. k + (Len(d) + Len(b)) /\ i \in 1..m
            /\ i - k \in 1..Len(d) + Len(b) /\ i - k <= Len(d)
            /\ i \notin (k + Len(d)) + 1 .. (k + Len(d)) + Len(b)
        BY <1>0, <2>1, <3>0, <3>2
      <4>2. v[i] = d[i - k]
        BY <2>15, <2>14, <3>0, <4>1
      <4>3. w[i] = o[i] /\ o[i] = d[i - k]
        BY <2>12, <2>13, <3>0, <3>2, <4>1
      <4> QED
        BY <4>2, <4>3
    <3>3. CASE i \notin k + 1 .. k + (Len(d) + Len(b))
      <4>1. /\ i \notin k + 1 .. k + Len(d)
            /\ i \notin (k + Len(d)) + 1 .. (k + Len(d)) + Len(b)
        BY <1>0, <3>0, <3>3
      <4>2. v[i] = IF i <= Len(c) THEN c[i] ELSE Hole
        BY <2>14, <3>0, <3>3
      <4>3. w[i] = IF i <= m THEN o[i] ELSE Hole
        BY <2>13, <4>1
      <4>4. i <= m => i \in 1..m
        BY <2>1, <3>0
      <4>5. i <= m => o[i] = IF i <= Len(c) THEN c[i] ELSE Hole
        BY <2>12, <4>1, <4>4
      <4>6. i <= Len(c) => i <= m
        BY <1>0, <2>1, <3>0
      <4> QED
        BY <4>2, <4>3, <4>5, <4>6
    <3> QED
      BY <1>0, <3>0, <3>1, <3>2, <3>3
  <2>8. w = v
    BY <2>1, <2>11, <2>7, SameText
  <2> QED
    BY <2>2, <2>3, <2>4, <2>6, <2>8
<1> QED
  BY <1>1, <1>2, <1>3

-----------------------------------------------------------------------------
\* What the file of an upload holds when w bytes of it are written.
Data(s, w) == [k \in 1..w |-> Sent(s, k)]
OldOf(s) == IF before[s] = Missing THEN <<>> ELSE before[s]

Written(s, w) ==
    IF cmd[s].kind = "APPE" THEN OldOf(s) \o Data(s, w)
    ELSE IF from[s] = 0 THEN Data(s, w) ELSE Overwrite(OldOf(s), from[s], Data(s, w))

\* What excuses an upload.
Clean(s) == s \notin disturbed \cup faulty /\ no[s] \notin strayed /\ ~Overtaken(s)

\* Of the bytes that came, those that the stream has written; it holds the others.
Flushed(s) == stored[s] - Len(buf[s])
Pending(s, b, w) == \A k \in 1..Len(b) : b[k] = Sent(s, w + k)

Streamed(s) ==
    /\ Flushed(s) \in Nat
    /\ Pending(s, buf[s], Flushed(s))
    /\ content[cmd[s].file] = Written(s, Flushed(s))
    /\ how[s] = "trunc" => pos[s] = Flushed(s)
    /\ how[s] = "update" => pos[s] = from[s] + Flushed(s)

OpenedAs(s, r) ==
    /\ how[s] = "append" => cmd[s].kind = "APPE"
    /\ how[s] = "update" => cmd[s].kind = "STOR" /\ r > 0

\* The stream of an upload, from the choice of its mode to its close().
Store(s) ==
    /\ at[s] = "open" => OpenedAs(s, rest[s])
    /\ at[s] = "recv" => OpenedAs(s, from[s])
    /\ at[s] = "recv" /\ how[s] = "trunc" /\ cmd[s].kind = "STOR" =>
           from[s] = 0 \/ no[s] \in strayed
    /\ at[s] = "recv" /\ Clean(s) => Streamed(s)
    /\ at[s] = "idle" /\ cmd[s].kind \in {"STOR", "APPE"} /\ reply[s] = 226 /\ Clean(s)
         => content[cmd[s].file] = Written(s, stored[s])
    /\ at[s] = "idle" /\ cmd[s].kind \in {"STOR", "APPE"} /\ reply[s] = 226
         => s \in cut \/ stored[s] = meant[s]

StoreInv == \A s \in Session : Store(s)

LEMMA DataType ==
    ASSUME TypeOK, NEW s \in Session, NEW w \in Nat
    PROVE  /\ Data(s, w) \in Seq(Byte) /\ Len(Data(s, w)) = w
           /\ \A k \in 1..w : Data(s, w)[k] = Sent(s, k)
<1>1. \A k \in 1..w : Sent(s, k) \in Byte
  BY SentIsByte
<1> QED
  BY <1>1 DEF Data

LEMMA DataGrows ==
    ASSUME TypeOK, NEW s \in Session, NEW w \in Nat, NEW b \in Seq(Byte), Pending(s, b, w)
    PROVE  Data(s, w + Len(b)) = Data(s, w) \o b
<1>0. Len(b) \in Nat /\ w + Len(b) \in Nat
  OBVIOUS
<1>1. PICK d \in Seq(Byte) : d = Data(s, w) /\ Len(d) = w /\ \A k \in 1..w : d[k] = Sent(s, k)
  BY DataType
<1>2. PICK e \in Seq(Byte) : /\ e = Data(s, w + Len(b)) /\ Len(e) = w + Len(b)
                             /\ \A k \in 1..w + Len(b) : e[k] = Sent(s, k)
  BY <1>0, DataType
<1>3. PICK t \in Seq(Byte) : t = d \o b /\ IsConcat(t, d, b)
  BY ConcatDef
<1>4. Len(t) = w + Len(b) /\ \A k \in 1..w + Len(b) : t[k] = IF k <= w THEN d[k] ELSE b[k - w]
  BY <1>1, <1>3 DEF IsConcat
<1>5. ASSUME NEW k \in 1..Len(e) PROVE e[k] = t[k]
  <2>1. k \in 1..w + Len(b) /\ e[k] = Sent(s, k)
    BY <1>2
  <2>2. CASE k <= w
    <3>1. k \in 1..w
      BY <1>0, <2>1, <2>2
    <3> QED
      BY <1>1, <1>4, <2>1, <2>2, <3>1
  <2>3. CASE ~(k <= w)
    <3>1. k - w \in 1..Len(b) /\ w + (k - w) = k
      BY <1>0, <2>1, <2>3
    <3>2. b[k - w] = Sent(s, w + (k - w))
      BY <3>1 DEF Pending
    <3> QED
      BY <1>4, <2>1, <2>3, <3>1, <3>2
  <2> QED
    BY <2>2, <2>3
<1>6. e = t
  BY <1>2, <1>4, <1>5, SameText
<1> QED
  BY <1>1, <1>2, <1>3, <1>6

\* A write of what the stream holds next brings the file so much further.
LEMMA WrittenGrows ==
    ASSUME TypeInv, NEW s \in Session, at[s] = "recv", Store(s), Clean(s),
           NEW b \in Seq(Byte), Pending(s, b, Flushed(s))
    PROVE  Overwrite(content[cmd[s].file], PlaceOf(s), b) = Written(s, Flushed(s) + Len(b))
<1> DEFINE w == Flushed(s)  f == cmd[s].file
<1>1. /\ w \in Nat /\ content[f] = Written(s, w)
      /\ how[s] = "trunc" => pos[s] = w
      /\ how[s] = "update" => pos[s] = from[s] + w
  BY DEF Store, Streamed
<1>2. /\ TypeOK /\ content[f] \in Seq(Byte) /\ content[f] # Missing
      /\ cmd[s].kind \in {"STOR", "APPE"} /\ how[s] \in {"trunc", "update", "append"}
      /\ from[s] \in Nat /\ LenOf(f) = Len(content[f])
  <2>1. TypeOK /\ f \in File /\ from[s] \in Nat /\ how[s] \in {"trunc", "update", "append"}
    BY DEF TypeInv, TypeOK
  <2>2. content[f] # Missing /\ cmd[s].kind \in {"STOR", "APPE"}
    BY DEF TypeInv, StageInv, Kinds
  <2>3. content[f] \in Seq(Byte)
    BY <2>1, <2>2 DEF TypeOK
  <2> QED
    BY <2>1, <2>2, <2>3 DEF LenOf
<1>3. OldOf(s) \in Seq(Byte)
  BY <1>2 DEF TypeOK, OldOf
<1> HIDE DEF w, f
<1>4. /\ Data(s, w) \in Seq(Byte) /\ Len(Data(s, w)) = w
      /\ Data(s, w + Len(b)) = Data(s, w) \o b
  <2>1. Pending(s, b, w)
    BY DEF w
  <2> QED
    BY <1>1, <1>2, <2>1, DataType, DataGrows
<1>5. CASE cmd[s].kind = "APPE"
  <2>1. content[f] = OldOf(s) \o Data(s, w)
    BY <1>1, <1>5 DEF Written
  <2>2. PlaceOf(s) = Len(content[f])
    <3>1. CASE how[s] = "append"
      BY <1>2, <3>1 DEF PlaceOf, f
    <3>2. CASE how[s] = "trunc"
      <4>1. OldOf(s) = <<>>
        BY <1>5, <3>2 DEF Clean, Overtaken, OldOf
      <4>2. content[f] = Data(s, w)
        BY <1>4, <2>1, <4>1, ConcatEmptySeq
      <4> QED
        BY <1>1, <1>4, <3>2, <4>2 DEF PlaceOf
    <3>3. how[s] # "update"
      BY <1>5 DEF Store, OpenedAs
    <3> QED
      BY <1>2, <3>1, <3>2, <3>3
  <2>3. Overwrite(content[f], PlaceOf(s), b) = (OldOf(s) \o Data(s, w)) \o b
    BY <1>2, <2>1, <2>2, OverwriteAtEnd
  <2>4. (OldOf(s) \o Data(s, w)) \o b = OldOf(s) \o (Data(s, w) \o b)
    <3>1. Data(s, w) \in Seq(Byte)
      BY <1>4
    <3> QED
      BY <1>3, <3>1, ConcatAssociative
  <2> QED
    BY <1>4, <1>5, <2>3, <2>4 DEF Written, w, f
<1>6. CASE cmd[s].kind = "STOR" /\ how[s] = "trunc"
  <2>1. from[s] = 0
    BY <1>6 DEF Store, Clean
  <2>2. content[f] = Data(s, w) /\ PlaceOf(s) = Len(content[f])
    BY <1>1, <1>4, <1>6, <2>1 DEF Written, PlaceOf
  <2>3. Overwrite(content[f], PlaceOf(s), b) = Data(s, w) \o b
    BY <1>2, <2>2, OverwriteAtEnd
  <2> QED
    BY <1>4, <1>6, <2>1, <2>3 DEF Written, w, f
<1>7. CASE cmd[s].kind = "STOR" /\ how[s] = "update"
  <2>1. from[s] > 0 /\ from[s] # 0
    BY <1>2, <1>7 DEF Store, OpenedAs
  <2>2. content[f] = Overwrite(OldOf(s), from[s], Data(s, w))
    BY <1>1, <1>7, <2>1 DEF Written
  <2>3. PlaceOf(s) = from[s] + Len(Data(s, w))
    BY <1>1, <1>4, <1>7 DEF PlaceOf
  <2>4. Overwrite(Overwrite(OldOf(s), from[s], Data(s, w)), from[s] + Len(Data(s, w)), b)
          = Overwrite(OldOf(s), from[s], Data(s, w) \o b)
    <3>1. from[s] \in Nat /\ OldOf(s) \in Seq(Byte) /\ Data(s, w) \in Seq(Byte)
      BY <1>2, <1>3, <1>4
    <3> QED
      BY <3>1, OverwriteTwice
  <2>5. Overwrite(content[f], PlaceOf(s), b) = Overwrite(OldOf(s), from[s], Data(s, w + Len(b)))
    BY <1>4, <2>2, <2>3, <2>4
  <2>6. Written(s, w + Len(b)) = Overwrite(OldOf(s), from[s], Data(s, w + Len(b)))
    BY <1>7, <2>1 DEF Written
  <2> QED
    BY <2>5, <2>6 DEF w, f
<1>8. how[s] = "append" => cmd[s].kind = "APPE"
  BY DEF Store, OpenedAs
<1> QED
  BY <1>2, <1>5, <1>6, <1>7, <1>8

LEMMA PendingMore ==
    ASSUME NEW s, NEW w \in Nat, NEW a \in Seq(Byte), Pending(s, a, w),
           NEW d \in Seq(Byte), Pending(s, d, w + Len(a))
    PROVE  a \o d \in Seq(Byte) /\ Len(a \o d) = Len(a) + Len(d) /\ Pending(s, a \o d, w)
<1>1. PICK b \in Seq(Byte) : b = a \o d /\ IsConcat(b, a, d)
  BY ConcatDef
<1>2. Len(a) \in Nat /\ Len(d) \in Nat /\ Len(b) = Len(a) + Len(d)
  BY <1>1 DEF IsConcat
<1>3. ASSUME NEW k \in 1..Len(b) PROVE b[k] = Sent(s, w + k)
  <2>1. CASE k <= Len(a)
    <3>1. k \in 1..Len(a) /\ b[k] = a[k]
      BY <1>1, <1>2, <2>1 DEF IsConcat
    <3> QED
      BY <3>1 DEF Pending
  <2>2. CASE ~(k <= Len(a))
    <3>1. k - Len(a) \in 1..Len(d) /\ b[k] = d[k - Len(a)]
      BY <1>1, <1>2, <2>2 DEF IsConcat
    <3>2. (w + Len(a)) + (k - Len(a)) = w + k
      BY <1>2
    <3>3. d[k - Len(a)] = Sent(s, (w + Len(a)) + (k - Len(a)))
      BY <3>1 DEF Pending
    <3> QED
      BY <3>1, <3>2, <3>3
  <2> QED
    BY <2>1, <2>2
<1> QED
  BY <1>1, <1>2, <1>3 DEF Pending

LEMMA SameUpload ==
    ASSUME NEW s, cmd'[s] = cmd[s], no'[s] = no[s], from'[s] = from[s], before'[s] = before[s]
    PROVE  /\ \A w : Written(s, w)' = Written(s, w)
           /\ \A k : Sent(s, k)' = Sent(s, k)
<1>1. \A k : Sent(s, k)' = Sent(s, k)
  BY DEF Sent
<1>2. \A w : Data(s, w)' = Data(s, w)
  BY <1>1 DEF Data
<1> QED
  BY <1>1, <1>2 DEF Written, OldOf

\* A flush of what the stream holds.
LEMMA FlushStores ==
    ASSUME TypeInv, NEW s \in Session, at[s] = "recv", Store(s),
           NEW b \in Seq(Byte), Clean(s) => Pending(s, b, Flushed(s)), Flush(s, b)
    PROVE  /\ strayed' = strayed /\ disturbed \subseteq disturbed'
           /\ Clean(s) =>
                /\ content'[cmd[s].file] = Written(s, Flushed(s) + Len(b))
                /\ pos'[s] = pos[s] + Len(b)
<1>0. cmd[s].file \in File /\ pos[s] \in Nat /\ Len(b) \in Nat
  BY DEF TypeInv, TypeOK
<1>1. CASE (s \in faulty \/ b = <<>>) /\ UNCHANGED <<disk, others, pos>>
  <2>1. strayed' = strayed /\ disturbed \subseteq disturbed'
    BY <1>1 DEF disk, others
  <2>2. ASSUME Clean(s)
        PROVE  /\ content'[cmd[s].file] = Written(s, Flushed(s) + Len(b))
               /\ pos'[s] = pos[s] + Len(b)
    <3>1. b = <<>> /\ Len(b) = 0
      BY <1>1, <2>2 DEF Clean
    <3>2. Flushed(s) \in Nat /\ content[cmd[s].file] = Written(s, Flushed(s))
      BY <2>2 DEF Store, Streamed
    <3>3. Flushed(s) + Len(b) = Flushed(s)
      BY <3>1, <3>2
    <3> QED
      BY <1>0, <1>1, <3>1, <3>2, <3>3 DEF disk
  <2> QED
    BY <2>1, <2>2
<1>2. CASE /\ content' = [content EXCEPT ![cmd[s].file] = Overwrite(@, PlaceOf(s), b)]
           /\ pos' = [pos EXCEPT ![s] = @ + Len(b)]
           /\ Disturb(s, how[s] = "append")
           /\ UNCHANGED strayed
  <2>1. strayed' = strayed /\ disturbed \subseteq disturbed'
    BY <1>2 DEF Disturb
  <2>2. content'[cmd[s].file] = Overwrite(content[cmd[s].file], PlaceOf(s), b)
    BY <1>0, <1>2 DEF TypeInv, TypeOK
  <2>3. pos'[s] = pos[s] + Len(b)
    BY <1>2 DEF TypeInv, TypeOK
  <2> QED
    BY <2>1, <2>2, <2>3, WrittenGrows
<1> QED
  BY <1>1, <1>2 DEF Flush

LEMMA OpenStores ==
    ASSUME TypeInv, NEW s \in Session, Store(s), NEW w, OpenUpload(s, w)
    PROVE  Store(s)'
<1> DEFINE f == cmd[s].file
<1>0. /\ f \in File /\ rest[s] \in Nat /\ TypeOK /\ cmd[s].kind \in {"STOR", "APPE"}
      /\ how[s] \in {"trunc", "update", "append"} /\ at[s] = "open" /\ stored[s] = 0
      /\ OpenedAs(s, rest[s]) /\ w \in {how[s], "trunc"}
      /\ w # how[s] => how[s] = "update"
  BY DEF TypeInv, TypeOK, StageInv, Kinds, OpenUpload, OpensAs, Store
<1>1. /\ at'[s] = "recv" /\ cmd' = cmd /\ no' = no /\ how'[s] = w /\ stored'[s] = 0
      /\ buf'[s] = <<>> /\ from'[s] = rest[s] /\ before'[s] = content[f]
      /\ pos'[s] = StartOf(s, w)
      /\ content'[f] = IF w = "trunc" THEN <<>> ELSE content[f]
  BY <1>0 DEF OpenUpload, TypeOK
<1>2. OpenedAs(s, from[s])'
  BY <1>0, <1>1 DEF OpenedAs
<1>3. w = "trunc" /\ cmd[s].kind = "STOR" => from'[s] = 0 \/ no'[s] \in strayed'
  BY <1>0, <1>1 DEF OpenUpload
<1>4. ASSUME Clean(s)' PROVE Streamed(s)'
  <2>1. Flushed(s)' = 0 /\ Len(buf'[s]) = 0
    <3>1. Len(buf'[s]) = 0
      BY <1>1
    <3>2. Flushed(s)' = stored'[s] - Len(buf'[s])
      BY DEF Flushed
    <3> QED
      BY <1>1, <3>1, <3>2
  <2>2. Pending(s, buf[s], Flushed(s))'
    BY <2>1 DEF Pending
  <2>3. (Data(s, 0))' = <<>>
    BY DEF Data
  <2>4. w # "trunc" => content[f] # Missing /\ content[f] \in Seq(Byte)
    BY <1>0 DEF TypeInv, TypeOK, StageInv
  <2>5. content'[f] = (Written(s, 0))'
    <3>1. CASE w = "trunc" /\ cmd[s].kind = "APPE"
      <4>1. OldOf(s)' = <<>>
        BY <1>1, <1>4, <3>1 DEF Clean, Overtaken, OldOf
      <4>2. <<>> \o <<>> = <<>>
        OBVIOUS
      <4> QED
        BY <1>1, <2>3, <3>1, <4>1, <4>2 DEF Written
    <3>2. CASE w = "trunc" /\ cmd[s].kind = "STOR"
      <4>1. from'[s] = 0
        BY <1>3, <1>4, <3>2 DEF Clean
      <4> QED
        BY <1>1, <2>3, <3>2, <4>1 DEF Written
    <3>3. CASE w # "trunc"
      <4>1. OldOf(s)' = content[f] /\ content'[f] = content[f]
        BY <1>1, <2>4, <3>3 DEF OldOf
      <4>2. content[f] \o <<>> = content[f]
        BY <2>4, <3>3, ConcatEmptySeq
      <4>3. Overwrite(content[f], from'[s], <<>>) = content[f]
        BY DEF Overwrite
      <4>4. cmd'[s].kind = "STOR" => from'[s] # 0
        BY <1>0, <1>1, <3>3 DEF OpenedAs
      <4> QED
        BY <1>0, <1>1, <2>3, <4>1, <4>2, <4>3, <4>4 DEF Written
    <3> QED
      BY <1>0, <3>1, <3>2, <3>3
  <2>6. w = "trunc" => pos'[s] = 0
    BY <1>1 DEF StartOf
  <2>7. w = "update" => pos'[s] = from'[s] + 0
    BY <1>0, <1>1 DEF StartOf
  <2> QED
    BY <1>1, <2>1, <2>2, <2>5, <2>6, <2>7 DEF Streamed
<1> QED
  BY <1>1, <1>2, <1>3, <1>4 DEF Store

LEMMA ReceiveStores ==
    ASSUME TypeInv, NEW s \in Session, Store(s),
           NEW n \in 1..Chunk, NEW keep \in BOOLEAN, Receive(s, n, keep)
    PROVE  Store(s)'
<1> DEFINE d == [k \in 1..n |-> Sent(s, stored[s] + k)]
           b == buf[s] \o d
           f == cmd[s].file
<1>0. /\ at[s] = "recv" /\ n \in Nat /\ stored[s] \in Nat /\ buf[s] \in Seq(Byte) /\ TypeOK
      /\ f \in File /\ Len(buf[s]) \in Nat /\ pos[s] \in Nat /\ from[s] \in Nat
  <2>1. at[s] = "recv" /\ n \in Nat
    BY Bounds DEF Receive
  <2>2. stored[s] \in 0..MaxUp /\ buf[s] \in Seq(Byte) /\ TypeOK /\ f \in File
        /\ pos[s] \in Nat /\ from[s] \in Nat
    BY DEF TypeInv, TypeOK
  <2> QED
    BY <2>1, <2>2, Bounds
<1>1. /\ at'[s] = "recv" /\ cmd' = cmd /\ no' = no /\ how' = how /\ from' = from
      /\ before' = before /\ faulty' = faulty /\ stored'[s] = stored[s] + n
  BY <1>0 DEF Receive, session, opened, TypeOK
<1>2. \A w : Written(s, w)' = Written(s, w)
  BY <1>1, SameUpload
<1>3. \A k : Sent(s, k)' = Sent(s, k)
  BY <1>1, SameUpload
<1>4. d \in Seq(Byte) /\ Len(d) = n /\ \A k \in 1..n : d[k] = Sent(s, stored[s] + k)
  <2>1. \A k \in 1..n : Sent(s, stored[s] + k) \in Byte
    BY <1>0, SentIsByte
  <2> QED
    BY <1>0, <2>1
<1> HIDE DEF d
<1>5. b \in Seq(Byte) /\ Len(b) = Len(buf[s]) + n
  BY <1>0, <1>4, ConcatDef DEF IsConcat
<1>6. ASSUME Clean(s) PROVE Pending(s, b, Flushed(s)) /\ Flushed(s) \in Nat
  <2>1. Flushed(s) \in Nat /\ Pending(s, buf[s], Flushed(s))
    BY <1>0, <1>6 DEF Store, Streamed
  <2>2. Flushed(s) + Len(buf[s]) = stored[s]
    BY <1>0 DEF Flushed
  <2>3. Pending(s, d, Flushed(s) + Len(buf[s]))
    BY <1>4, <2>2 DEF Pending
  <2> QED
    BY <1>0, <1>4, <2>1, <2>3, PendingMore
<1> HIDE DEF b
<1>7. OpenedAs(s, from[s])'
  BY <1>0, <1>1 DEF Store, OpenedAs
<1>8. CASE keep
  <2>1. buf'[s] = b /\ content' = content /\ strayed' = strayed /\ pos' = pos
        /\ disturbed' = disturbed
    BY <1>8 DEF Receive, disk, others, TypeInv, TypeOK, b, d
  <2>2. Flushed(s)' = Flushed(s)
    <3>1. Flushed(s)' = (stored[s] + n) - Len(b)
      BY <1>1, <2>1 DEF Flushed
    <3> QED
      BY <1>0, <1>5, <3>1 DEF Flushed
  <2>3. Clean(s)' <=> Clean(s)
    BY <1>1, <2>1 DEF Clean, Overtaken
  <2>4. ASSUME Clean(s) PROVE Streamed(s)'
    <3>1. Pending(s, buf[s], Flushed(s))'
      BY <1>3, <1>6, <2>1, <2>2, <2>4 DEF Pending
    <3>2. content'[f] = Written(s, Flushed(s))'
      <4>1. content[f] = Written(s, Flushed(s))
        BY <1>0, <2>4 DEF Store, Streamed
      <4> QED
        BY <1>1, <1>2, <2>1, <2>2, <4>1 DEF Written, OldOf, Data, Sent
    <3>3. /\ how[s] = "trunc" => pos[s] = Flushed(s)
          /\ how[s] = "update" => pos[s] = from[s] + Flushed(s)
      BY <1>0, <2>4 DEF Store, Streamed
    <3> QED
      BY <1>1, <1>6, <2>1, <2>2, <2>4, <3>1, <3>2, <3>3 DEF Streamed
  <2> QED
    BY <1>0, <1>1, <1>7, <2>1, <2>3, <2>4 DEF Store
<1>9. CASE ~keep
  <2>1. buf'[s] = <<>> /\ Flush(s, b)
    BY <1>9 DEF Receive, TypeInv, TypeOK, b, d
  <2>2. /\ strayed' = strayed /\ disturbed \subseteq disturbed'
        /\ Clean(s) => /\ content'[f] = Written(s, Flushed(s) + Len(b))
                       /\ pos'[s] = pos[s] + Len(b)
    BY <1>0, <1>5, <1>6, <2>1, FlushStores
  <2>3. Clean(s)' => Clean(s)
    BY <1>1, <2>2 DEF Clean, Overtaken
  <2>4. Flushed(s)' = Flushed(s) + Len(b) /\ Len(buf'[s]) = 0
    BY <1>0, <1>1, <1>5, <2>1 DEF Flushed
  <2>5. ASSUME Clean(s) PROVE Streamed(s)'
    <3>1. Pending(s, buf[s], Flushed(s))'
      BY <2>4 DEF Pending
    <3>2. content'[f] = Written(s, Flushed(s))'
      BY <1>1, <2>2, <2>4, <2>5 DEF Written, OldOf, Data, Sent
    <3>3. /\ how[s] = "trunc" => pos[s] = Flushed(s)
          /\ how[s] = "update" => pos[s] = from[s] + Flushed(s)
      BY <1>0, <2>5 DEF Store, Streamed
    <3>4. Flushed(s) \in Nat /\ Len(b) \in Nat
      BY <1>0, <1>5, <1>6, <2>5
    <3>5. /\ how[s] = "trunc" => pos'[s] = Flushed(s)'
          /\ how[s] = "update" => pos'[s] = from[s] + Flushed(s)'
      BY <1>0, <2>2, <2>4, <2>5, <3>3, <3>4
    <3> QED
      BY <1>1, <2>4, <3>1, <3>2, <3>4, <3>5 DEF Streamed
  <2> QED
    BY <1>0, <1>1, <1>7, <2>2, <2>3, <2>5 DEF Store
<1> QED
  BY <1>8, <1>9

LEMMA CloseStores ==
    ASSUME TypeInv, NEW s \in Session, Store(s), Finish(s) \/ ReceiveFails(s)
    PROVE  Store(s)'
<1> DEFINE f == cmd[s].file
<1>0. /\ at[s] = "recv" /\ buf[s] \in Seq(Byte) /\ Flush(s, buf[s]) /\ stored[s] \in Nat
      /\ Len(buf[s]) \in Nat
  BY DEF Finish, ReceiveFails, CloseFile, TypeInv, TypeOK
<1>1. /\ at'[s] = "idle" /\ cmd' = cmd /\ no' = no /\ how' = how /\ from' = from
      /\ before' = before /\ faulty' = faulty /\ stored' = stored
  BY DEF Finish, ReceiveFails, End, session, opened, TypeInv, TypeOK
<1>2. Clean(s) => Pending(s, buf[s], Flushed(s)) /\ Flushed(s) \in Nat
  BY <1>0 DEF Store, Streamed
<1>3. /\ strayed' = strayed /\ disturbed \subseteq disturbed'
      /\ Clean(s) => content'[f] = Written(s, Flushed(s) + Len(buf[s]))
  BY <1>0, <1>2, FlushStores
<1>4. Flushed(s) + Len(buf[s]) = stored[s]
  BY <1>0 DEF Flushed
<1>5. Clean(s)' => Clean(s)
  BY <1>1, <1>3 DEF Clean, Overtaken
<1>6. Written(s, stored[s])' = Written(s, stored[s])
  BY <1>1 DEF Written, OldOf, Data, Sent
<1>7. s \in cut' \/ stored'[s] = meant'[s]
  BY <1>1 DEF Finish, ReceiveFails, session
<1> QED
  BY <1>1, <1>3, <1>4, <1>5, <1>6, <1>7 DEF Store

\* What follows is no upload, or none that was answered with 226.
Elsewhere(s) ==
    /\ at'[s] \notin {"open", "recv"}
    /\ at'[s] = "idle" => cmd'[s].kind = "RETR" \/ reply'[s] # 226

LEMMA OtherStepsElsewhere ==
    ASSUME TypeInv, NEW s \in Session,
           \/ \E f \in File, kind \in Kinds :
                RefuseRest(s, kind, f) \/ \E z \in BOOLEAN, n \in 0..MaxUp : Start(s, kind, f, z, n)
           \/ GiveUp(s) \/ OpenDownload(s) \/ SendfileStops(s) \/ MmapStops(s) \/ ReadStops(s)
           \/ EndEarly(s) \/ DiskError(s) \/ Disconnect(s) \/ SendTimesOut(s)
           \/ \E n \in 1..Chunk : Sendfile(s, n) \/ SendMapped(s, n) \/ ReadAndSend(s, n)
    PROVE  Elsewhere(s)
<1> USE DEF session
<1>1. ASSUME NEW f \in File, NEW kind \in Kinds, RefuseRest(s, kind, f) PROVE Elsewhere(s)
  <2>1. at'[s] = "idle" /\ reply'[s] = 550
    BY <1>1 DEF RefuseRest, TypeInv, TypeOK
  <2> QED
    BY <2>1 DEF Elsewhere
<1>2. ASSUME NEW f \in File, NEW kind \in Kinds, NEW z \in BOOLEAN, NEW n \in 0..MaxUp,
             Start(s, kind, f, z, n)
      PROVE  Elsewhere(s)
  BY <1>2 DEF Start, TypeInv, TypeOK, Elsewhere
<1>3. CASE GiveUp(s)
  <2>1. at'[s] = "idle" /\ reply'[s] \in {425, 550}
    BY <1>3 DEF GiveUp, TypeInv, TypeOK
  <2> QED
    BY <2>1 DEF Elsewhere
<1>4. CASE EndEarly(s)
  BY <1>4 DEF EndEarly, Goto, TypeInv, TypeOK, Elsewhere
<1>5. ASSUME cmd'[s].kind = "RETR", at'[s] \in Loops \cup {"idle"} PROVE Elsewhere(s)
  BY <1>5 DEF Loops, Elsewhere
<1>6. CASE OpenDownload(s)
  BY <1>5, <1>6 DEF OpenDownload, End, Loops, TypeInv, TypeOK
<1>7. CASE Disconnect(s)
  BY <1>5, <1>7 DEF Disconnect, Loops, TypeInv, StageInv
<1>8. ASSUME at[s] \in Loops, cmd' = cmd, End(s, 226) \/ \E w \in Loops : Goto(s, w)
      PROVE  Elsewhere(s)
  BY <1>5, <1>8 DEF End, Goto, TypeInv, TypeOK, StageInv
<1>9. AfterSendfile(s, offset[s]) \in Loops /\ \A o : AfterSendfile(s, o) \in Loops
  BY DEF AfterSendfile, Loops
<1>10. CASE SendfileStops(s) \/ MmapStops(s) \/ ReadStops(s)
  BY <1>8, <1>9, <1>10 DEF SendfileStops, MmapStops, ReadStops, Loops
<1>12. CASE DiskError(s) \/ SendTimesOut(s)
  BY <1>8, <1>9, <1>12 DEF DiskError, SendTimesOut, Abandon, Loops
<1>11. ASSUME NEW n \in 1..Chunk, Sendfile(s, n) \/ SendMapped(s, n) \/ ReadAndSend(s, n)
       PROVE  Elsewhere(s)
  <2>1. at[s] \in Loops /\ cmd' = cmd
    BY <1>11 DEF Sendfile, SendMapped, ReadAndSend, Loops
  <2>2. End(s, 226) \/ \E w \in Loops : Goto(s, w)
    BY <1>9, <1>11 DEF Sendfile, SendMapped, ReadAndSend, Loops
  <2> QED
    BY <1>8, <2>1, <2>2
<1> HIDE DEF session
<1> QED
  BY <1>1, <1>2, <1>3, <1>4, <1>6, <1>7, <1>10, <1>11, <1>12

LEMMA ElsewhereStores == ASSUME NEW s, Elsewhere(s) PROVE Store(s)'
BY DEF Elsewhere, Store

LEMMA QuietStores ==
    ASSUME TypeInv, NEW s \in Session, Store(s),
           (\E n \in 0..MaxRest : Rest(s, n)) \/ Connect(s) \/ DiskFull(s)
    PROVE  Store(s)'
<1> USE DEF disk, session, download, upload, opened, others
<1>1. ASSUME NEW n \in 0..MaxRest, Rest(s, n) PROVE Store(s)'
  <2>1. /\ at[s] = "idle"
        /\ UNCHANGED <<disk, session, upload, opened, others, at, faulty, reply, cut>>
    BY <1>1 DEF Rest
  <2>2. /\ Clean(s)' = Clean(s)
        /\ Written(s, stored[s])' = Written(s, stored[s])
    BY <2>1 DEF Clean, Overtaken, Written, OldOf, Data, Sent
  <2> QED
    BY <2>1, <2>2 DEF Store
<1>2. CASE Connect(s)
  <2>1. /\ at'[s] = "open" /\ cmd' = cmd /\ rest' = rest
        /\ how'[s] = "append" => cmd[s].kind = "APPE"
        /\ how'[s] = "update" => cmd[s].kind = "STOR" /\ rest[s] > 0
    BY <1>2 DEF Connect, TypeInv, TypeOK
  <2> QED
    BY <2>1 DEF Store, OpenedAs
<1>3. CASE DiskFull(s)
  <2>1. /\ at[s] = "recv" /\ s \in faulty' /\ at' = at /\ cmd' = cmd /\ how' = how
        /\ from' = from /\ no' = no /\ strayed' = strayed
    BY <1>3 DEF DiskFull
  <2> QED
    BY <2>1 DEF Store, OpenedAs, Clean
<1> QED
  BY <1>1, <1>2, <1>3

\* Steps of the others.
LEMMA ApartStores ==
    ASSUME NEW s, Store(s), Apart(s)
    PROVE  Store(s)'
<1>1. /\ cmd'[s] = cmd[s] /\ no'[s] = no[s] /\ from'[s] = from[s] /\ before'[s] = before[s]
      /\ at'[s] = at[s] /\ how'[s] = how[s] /\ stored'[s] = stored[s] /\ buf'[s] = buf[s]
      /\ pos'[s] = pos[s] /\ reply'[s] = reply[s] /\ rest'[s] = rest[s]
      /\ meant'[s] = meant[s] /\ (s \in cut' <=> s \in cut)
  BY DEF Apart
<1>2. Clean(s)' => Clean(s) /\ s \notin disturbed'
  BY <1>1 DEF Apart, Clean, Overtaken
<1>3. at[s] \in {"recv", "idle"} /\ Clean(s)' => content'[cmd[s].file] = content[cmd[s].file]
  BY <1>2 DEF Apart
<1>4. /\ Written(s, stored[s])' = Written(s, stored[s])
      /\ Written(s, Flushed(s))' = Written(s, Flushed(s))
  BY <1>1 DEF Written, OldOf, Data, Sent, Flushed
<1>5. ASSUME at[s] = "recv", Clean(s)' PROVE Streamed(s)'
  <2>1. Streamed(s)
    BY <1>2, <1>5 DEF Store
  <2>2. Pending(s, buf[s], Flushed(s))'
    BY <1>1, <2>1 DEF Streamed, Pending, Sent, Flushed
  <2>3. Flushed(s)' = Flushed(s)
    BY <1>1 DEF Flushed
  <2> QED
    BY <1>1, <1>3, <1>4, <1>5, <2>1, <2>2, <2>3 DEF Streamed
<1>6. strayed \subseteq strayed'
  BY DEF Apart
<1> QED
  BY <1>1, <1>2, <1>3, <1>4, <1>5, <1>6 DEF Store, OpenedAs

LEMMA StoreStep == TypeInv /\ StoreInv /\ [Next]_vars => StoreInv'
<1> SUFFICES ASSUME TypeInv, StoreInv, [Next]_vars, NEW r \in Session PROVE Store(r)'
  BY DEF StoreInv
<1>0. Store(r)
  BY DEF StoreInv
<1>1. ASSUME UNCHANGED vars PROVE Store(r)'
  <2>1. UNCHANGED <<content, rest, at, cmd, no, how, meant, pos, buf, faulty, reply, from, before,
                    stored, disturbed, strayed, cut>>
    BY <1>1 DEF vars, disk, session, download, upload, opened, others
  <2>2. /\ Written(r, stored[r])' = Written(r, stored[r])
        /\ Streamed(r)' = Streamed(r) /\ Clean(r)' = Clean(r)
    BY <2>1 DEF Written, OldOf, Data, Sent, Streamed, Flushed, Pending, Clean, Overtaken
  <2> QED
    BY <1>0, <2>1, <2>2 DEF Store, OpenedAs
<1>2. ASSUME NEW s \in Session, Command(s) \/ Work(s) \/ Fault(s) PROVE Store(r)'
  <2>1. CASE r # s
    BY <1>0, <1>2, <2>1, EverybodyApart, ApartStores
  <2>2. CASE r = s /\ Spin(s)
    BY <1>1, <2>2 DEF Spin
  <2>3. CASE r = s /\ ~Spin(s)
    BY <1>0, <1>2, <2>3, OpenStores, ReceiveStores, CloseStores, OtherStepsElsewhere,
       ElsewhereStores, QuietStores DEF Work, Fault, Command, Kinds
  <2> QED
    BY <2>1, <2>2, <2>3
<1> QED
  BY <1>1, <1>2 DEF Next, Terminated

LEMMA StoreBegins == Init => StoreInv
BY DEF Init, StoreInv, Store, NoCmd

\* handleSTOR() and handleAPPE() leave in the file all that the client meant to send:
\* what the stream still holds when a step is made is written later behind what is
\* there.  After a recv() that failed, which they take for the end, it is all that
\* came; the other exceptions are those of UploadsAreStored.
THEOREM WhatWasSentIsStored == Spec => []UploadsAreStored
<1>1. Init => TypeInv /\ StoreInv
  BY InitType, StoreBegins
<1>2. TypeInv /\ StoreInv /\ [Next]_vars => (TypeInv /\ StoreInv)'
  BY StepType, StoreStep
<1>3. StoreInv => UploadsAreStored
  <2> SUFFICES ASSUME StoreInv, NEW s \in Session,
                      at[s] = "idle", cmd[s].kind \in {"STOR", "APPE"}, reply[s] = 226, Clean(s)
               PROVE  content[cmd[s].file] = Expected(s) /\ (s \in cut \/ stored[s] = meant[s])
    BY DEF UploadsAreStored, Clean
  <2>1. content[cmd[s].file] = Written(s, stored[s]) /\ (s \in cut \/ stored[s] = meant[s])
    BY DEF StoreInv, Store
  <2> QED
    BY <2>1 DEF Written, Expected, OldOf, Data
<1> QED
  BY <1>1, <1>2, <1>3, PTL DEF Spec

-----------------------------------------------------------------------------
(* Appending to the same file.                                               *)

\* A byte in a file belongs to a command that opened it.
Known(b) == b.job \in 0..jobs /\ \A s \in Session : at[s] \in {"wait", "open"} => b.job # no[s]
AllKnown(f) == content[f] # Missing => \A i \in 1..Len(content[f]) : Known(content[f][i])

\* Every command has a number of its own, and only its bytes have that number.
Numbered ==
    /\ \A s \in Session : no[s] \in 0..jobs
    /\ \A r, s \in Session : r # s /\ no[r] = no[s] => no[r] = 0
    /\ \A s \in Session : \A i \in 1..Len(buf[s]) : buf[s][i].job = no[s]
    /\ \A f \in File : AllKnown(f)

Appending(s) == cmd[s].kind = "APPE" /\ how[s] = "append" /\ s \notin trampled \cup faulty

\* What an APPE has in its file, and what its stream will append to that.
Appended(s) ==
    Appending(s) =>
    /\ at[s] = "recv" =>
         /\ Flushed(s) \in Nat /\ Pending(s, buf[s], Flushed(s))
         /\ Holds(content[cmd[s].file], s, Flushed(s))
    /\ at[s] = "idle" /\ reply[s] = 226 =>
         content[cmd[s].file] # Missing /\ Holds(content[cmd[s].file], s, stored[s])

AppendInv == Numbered /\ \A s \in Session : Appended(s)

LEMMA HoldsMore ==
    ASSUME TypeOK, NEW s \in Session, cmd[s].kind = "APPE", NEW w \in Nat,
           NEW c \in Seq(Byte), Holds(c, s, w), NEW b \in Seq(Byte), Pending(s, b, w)
    PROVE  Holds(c \o b, s, w + Len(b))
<1>1. PICK t \in Seq(Byte) : t = c \o b /\ IsConcat(t, c, b)
  BY ConcatDef
<1>2. Len(c) \in Nat /\ Len(b) \in Nat /\ Len(t) = Len(c) + Len(b)
  BY <1>1 DEF IsConcat
<1> DEFINE old == {i \in 1..Len(c) : c[i].job = no[s]}
           new == {i \in 1..Len(t) : t[i].job = no[s]}
<1>3. \A k : Sent(s, k).job = no[s] /\ Sent(s, k).place = -k
  BY DEF Sent
<1>4. ASSUME NEW i \in 1..Len(t), i <= Len(c)
      PROVE  i \in 1..Len(c) /\ t[i] = c[i] /\ (i \in new <=> i \in old)
  BY <1>1, <1>2, <1>4 DEF IsConcat
<1>5. ASSUME NEW i \in 1..Len(t), ~(i <= Len(c))
      PROVE  /\ i - Len(c) \in 1..Len(b) /\ w + (i - Len(c)) \in 1..w + Len(b)
             /\ t[i] = Sent(s, w + (i - Len(c))) /\ i \in new
  <2>1. i - Len(c) \in 1..Len(b) /\ t[i] = b[i - Len(c)]
    BY <1>1, <1>2, <1>5 DEF IsConcat
  <2>2. t[i] = Sent(s, w + (i - Len(c)))
    BY <2>1 DEF Pending
  <2> QED
    BY <1>2, <1>3, <2>1, <2>2
<1>6. /\ {c[i] : i \in old} = {Sent(s, k) : k \in 1..w}
      /\ \A i, j \in old : i < j => c[i].place > c[j].place
  BY DEF Holds
<1>7. \A i \in old : \E k \in 1..w : c[i] = Sent(s, k)
  BY <1>6
<1>8. \A k \in 1..w : \E i \in old : c[i] = Sent(s, k)
  BY <1>6
<1> HIDE DEF new
<1>9. ASSUME NEW i \in new PROVE t[i] \in {Sent(s, k) : k \in 1..w + Len(b)}
  <2>0. i \in 1..Len(t) /\ i \in Nat
    BY <1>2 DEF new
  <2>1. CASE i <= Len(c)
    <3>1. PICK k \in 1..w : t[i] = Sent(s, k)
      BY <1>4, <1>7, <1>9, <2>0, <2>1
    <3>2. k \in 1..w + Len(b)
      BY <1>2
    <3> QED
      BY <3>1, <3>2
  <2>2. CASE ~(i <= Len(c))
    BY <1>5, <2>0, <2>2
  <2> QED
    BY <2>1, <2>2
<1>10. ASSUME NEW k \in 1..w + Len(b) PROVE \E i \in new : t[i] = Sent(s, k)
  <2>1. CASE k <= w
    <3>0. k \in 1..w
      BY <1>2, <2>1
    <3>1. PICK i \in old : c[i] = Sent(s, k)
      BY <1>8, <3>0
    <3>2. i \in 1..Len(t) /\ i <= Len(c)
      BY <1>2
    <3> QED
      BY <1>4, <3>1, <3>2
  <2>2. CASE ~(k <= w)
    <3> DEFINE i == Len(c) + (k - w)
    <3>1. i \in 1..Len(t) /\ ~(i <= Len(c)) /\ w + (i - Len(c)) = k
      BY <1>2, <2>2
    <3> QED
      BY <1>5, <3>1
  <2> QED
    BY <2>1, <2>2
<1>11. {t[i] : i \in new} = {Sent(s, k) : k \in 1..w + Len(b)}
  <2>1. \A x \in {t[i] : i \in new} : x \in {Sent(s, k) : k \in 1..w + Len(b)}
    BY <1>9
  <2>2. \A x \in {Sent(s, k) : k \in 1..w + Len(b)} : x \in {t[i] : i \in new}
    BY <1>10
  <2> QED
    BY <2>1, <2>2
<1>12. ASSUME NEW i \in new, NEW j \in new, i < j PROVE t[i].place > t[j].place
  <2>0. i \in 1..Len(t) /\ j \in 1..Len(t) /\ i \in Nat /\ j \in Nat
    BY <1>2 DEF new
  <2>1. CASE j <= Len(c)
    <3>1. i <= Len(c)
      BY <1>2, <1>12, <2>0, <2>1
    <3> QED
      BY <1>4, <1>6, <1>12, <2>0, <2>1, <3>1
  <2>2. CASE i <= Len(c) /\ ~(j <= Len(c))
    <3>1. PICK k \in 1..w : t[i] = Sent(s, k)
      BY <1>4, <1>7, <2>0, <2>2
    <3>2. t[i].place = -k /\ t[j].place = -(w + (j - Len(c)))
      BY <1>3, <1>5, <2>0, <2>2, <3>1
    <3> QED
      BY <1>2, <2>0, <2>2, <3>2
  <2>3. CASE ~(i <= Len(c))
    <3>1. ~(j <= Len(c))
      BY <1>2, <1>12, <2>0, <2>3
    <3>2. t[i].place = -(w + (i - Len(c))) /\ t[j].place = -(w + (j - Len(c)))
      BY <1>3, <1>5, <2>0, <2>3, <3>1
    <3> QED
      BY <1>2, <1>12, <2>0, <3>2
  <2> QED
    BY <2>1, <2>2, <2>3
<1>13. Holds(t, s, w + Len(b))
  BY <1>11, <1>12 DEF Holds, new
<1> QED
  BY <1>1, <1>13

LEMMA HoldsStill ==
    ASSUME NEW s, NEW w, NEW c \in Seq(Byte), Holds(c, s, w),
           NEW b \in Seq(Byte), \A i \in 1..Len(b) : b[i].job # no[s]
    PROVE  Holds(c \o b, s, w)
<1>1. PICK t \in Seq(Byte) : t = c \o b /\ IsConcat(t, c, b)
  BY ConcatDef
<1>2. Len(c) \in Nat /\ Len(b) \in Nat /\ Len(t) = Len(c) + Len(b)
  BY <1>1 DEF IsConcat
<1> DEFINE old == {i \in 1..Len(c) : c[i].job = no[s]}
           new == {i \in 1..Len(t) : t[i].job = no[s]}
<1>3. ASSUME NEW i \in 1..Len(t) PROVE i \in new <=> i \in old
  <2>1. CASE i <= Len(c)
    <3>1. i \in 1..Len(c) /\ t[i] = c[i]
      BY <1>1, <1>2, <2>1 DEF IsConcat
    <3> QED
      BY <3>1
  <2>2. CASE ~(i <= Len(c))
    <3>1. i - Len(c) \in 1..Len(b) /\ t[i] = b[i - Len(c)] /\ i \notin 1..Len(c)
      BY <1>1, <1>2, <2>2 DEF IsConcat
    <3> QED
      BY <3>1
  <2> QED
    BY <2>1, <2>2
<1>4. 1..Len(c) \subseteq 1..Len(t)
  BY <1>2
<1>5. new = old
  BY <1>3, <1>4
<1>6. \A i \in old : t[i] = c[i]
  BY <1>1, <1>2 DEF IsConcat
<1>7. {t[i] : i \in new} = {c[i] : i \in old}
  BY <1>5, <1>6
<1>8. \A i, j \in new : i < j => t[i].place > t[j].place
  BY <1>5, <1>6 DEF Holds
<1>9. {t[i] : i \in new} = {Sent(s, k) : k \in 1..w}
  BY <1>7 DEF Holds
<1>10. Holds(t, s, w)
  BY <1>8, <1>9 DEF Holds
<1> QED
  BY <1>1, <1>10

LEMMA JobsAreNat == ASSUME TypeOK PROVE jobs \in Nat /\ \A s \in Session : no[s] \in Nat
BY Bounds DEF TypeOK

\* What is written to a file has the number of its command.
LEMMA FlushNumbered ==
    ASSUME TypeInv, Numbered, NEW s \in Session, at[s] = "recv",
           NEW b \in Seq(Byte), \A i \in 1..Len(b) : b[i].job = no[s], Flush(s, b),
           NEW f \in File, content'[f] # Missing, NEW i \in 1..Len(content'[f])
    PROVE  Known(content'[f][i])
<1>1. CASE content'[f] = content[f]
  BY <1>1 DEF Numbered, AllKnown
<1>2. CASE content'[f] # content[f]
  <2> DEFINE o == Overwrite(content[f], PlaceOf(s), b)
  <2>1. b # <<>> /\ f = cmd[s].file /\ content'[f] = o
    <3>1. b # <<>> /\ content' = [content EXCEPT ![cmd[s].file] = Overwrite(@, PlaceOf(s), b)]
      BY <1>2 DEF Flush, disk
    <3>2. f = cmd[s].file
      BY <1>2, <3>1 DEF TypeInv, TypeOK
    <3> QED
      BY <3>1, <3>2 DEF TypeInv, TypeOK
  <2>2. content[f] # Missing /\ content[f] \in Seq(Byte) /\ PlaceOf(s) \in Nat
    <3>1. content[f] # Missing
      BY <2>1 DEF TypeInv, StageInv
    <3> QED
      BY <2>1, <3>1, LenIsNat DEF PlaceOf, TypeInv, TypeOK
  <2>3. \/ i \in PlaceOf(s) + 1 .. PlaceOf(s) + Len(b) /\ o[i] = b[i - PlaceOf(s)]
        \/ i \in 1..Len(content[f]) /\ o[i] = content[f][i]
        \/ o[i] = Hole
    BY <2>1, <2>2, Overwritten
  <2>4. \A r \in Session : at[r] \in {"wait", "open"} => no[r] # no[s] /\ no[r] # 0
    BY JobsAreNat, Bounds DEF TypeInv, StageInv, Numbered
  <2>5. CASE i \in PlaceOf(s) + 1 .. PlaceOf(s) + Len(b) /\ o[i] = b[i - PlaceOf(s)]
    <3>1. i - PlaceOf(s) \in 1..Len(b)
      BY <2>2, <2>5
    <3>2. o[i].job = no[s] /\ no[s] \in 0..jobs
      BY <2>5, <3>1 DEF Numbered
    <3> QED
      BY <2>1, <2>4, <3>2 DEF Known
  <2>6. CASE i \in 1..Len(content[f]) /\ o[i] = content[f][i]
    BY <2>1, <2>2, <2>6 DEF Numbered, AllKnown
  <2>7. CASE o[i] = Hole
    <3>1. o[i].job = 0 /\ 0 \in 0..jobs
      BY <2>7, JobsAreNat DEF Hole, TypeInv
    <3> QED
      BY <2>1, <2>4, <3>1 DEF Known
  <2> QED
    BY <2>3, <2>5, <2>6, <2>7
<1> QED
  BY <1>1, <1>2

\* Steps that begin no command and write to no file.
LEMMA QuietNumbered ==
    ASSUME TypeInv, Numbered, NEW s \in Session, content' = content, no' = no, jobs' = jobs,
           NEW w, at' = [at EXCEPT ![s] = w], w \in {"wait", "open"} => at[s] \in {"wait", "open"},
           buf' = buf \/ buf' = [buf EXCEPT ![s] = <<>>]
    PROVE  Numbered'
<1>1. \A r \in Session : at'[r] \in {"wait", "open"} => at[r] \in {"wait", "open"}
  BY DEF TypeInv, TypeOK
<1>2. \A r \in Session : buf'[r] = buf[r] \/ buf'[r] = <<>>
  BY DEF TypeInv, TypeOK
<1>3. \A r \in Session : \A i \in 1..Len(buf'[r]) : buf'[r][i].job = no'[r]
  <2> SUFFICES ASSUME NEW r \in Session, NEW i \in 1..Len(buf'[r]) PROVE buf'[r][i].job = no[r]
    OBVIOUS
  <2>1. buf'[r] = buf[r]
    <3>1. CASE buf'[r] = <<>>
      <4>1. Len(buf'[r]) = 0
        BY <3>1
      <4> QED
        BY <4>1
    <3> QED
      BY <1>2, <3>1
  <2> QED
    BY <2>1 DEF Numbered
<1>4. \A f \in File : AllKnown(f)'
  BY <1>1 DEF Numbered, AllKnown, Known
<1> QED
  BY <1>3, <1>4 DEF Numbered

\* What a part of an upload adds to its stream or writes through it.
Brings(s, b) ==
    /\ \A i \in 1..Len(b) : b[i].job = no[s]
    /\ \/ buf' = [buf EXCEPT ![s] = b] /\ content' = content
       \/ buf' = [buf EXCEPT ![s] = <<>>] /\ Flush(s, b)

LEMMA UploadBrings ==
    ASSUME TypeInv, Numbered, NEW s \in Session,
           Finish(s) \/ ReceiveFails(s) \/ \E n \in 1..Chunk, keep \in BOOLEAN : Receive(s, n, keep)
    PROVE  \E b \in Seq(Byte) : Brings(s, b)
<1>1. CASE Finish(s) \/ ReceiveFails(s)
  <2>1. buf[s] \in Seq(Byte) /\ \A i \in 1..Len(buf[s]) : buf[s][i].job = no[s]
    BY DEF TypeInv, TypeOK, Numbered
  <2>2. buf' = [buf EXCEPT ![s] = <<>>] /\ Flush(s, buf[s])
    BY <1>1 DEF Finish, ReceiveFails, CloseFile
  <2> QED
    BY <2>1, <2>2 DEF Brings
<1>2. ASSUME NEW n \in 1..Chunk, NEW keep \in BOOLEAN, Receive(s, n, keep)
      PROVE  \E b \in Seq(Byte) : Brings(s, b)
  <2> DEFINE d == [k \in 1..n |-> Sent(s, stored[s] + k)]
  <2>1. n \in Nat /\ buf[s] \in Seq(Byte) /\ stored[s] \in Nat /\ TypeOK
    <3>1. TypeOK /\ buf[s] \in Seq(Byte) /\ stored[s] \in 0..MaxUp
      BY DEF TypeInv, TypeOK
    <3> QED
      BY <3>1, Bounds
  <2>2. d \in Seq(Byte) /\ Len(d) = n /\ \A k \in 1..n : d[k] = Sent(s, stored[s] + k)
    <3>1. \A k \in 1..n : Sent(s, stored[s] + k) \in Byte
      BY <2>1, SentIsByte
    <3> QED
      BY <2>1, <3>1
  <2>3. \/ buf' = [buf EXCEPT ![s] = buf[s] \o d] /\ content' = content
        \/ buf' = [buf EXCEPT ![s] = <<>>] /\ Flush(s, buf[s] \o d)
    BY <1>2 DEF Receive, disk
  <2> HIDE DEF d
  <2>4. \A k \in 1..Len(d) : d[k].job = no[s]
    BY <2>2 DEF Sent
  <2>5. PICK b \in Seq(Byte) : b = buf[s] \o d /\ IsConcat(b, buf[s], d)
    BY <2>1, <2>2, ConcatDef
  <2>6. ASSUME NEW i \in 1..Len(b) PROVE b[i].job = no[s]
    <3>1. Len(buf[s]) \in Nat /\ Len(d) \in Nat /\ i \in 1..Len(buf[s]) + Len(d)
      BY <2>1, <2>2, <2>5 DEF IsConcat
    <3>2. CASE i <= Len(buf[s])
      <4>1. i \in 1..Len(buf[s]) /\ b[i] = buf[s][i]
        BY <2>5, <3>1, <3>2 DEF IsConcat
      <4> QED
        BY <4>1 DEF Numbered
    <3>3. CASE ~(i <= Len(buf[s]))
      <4>1. i - Len(buf[s]) \in 1..Len(d) /\ b[i] = d[i - Len(buf[s])]
        BY <2>5, <3>1, <3>3 DEF IsConcat
      <4> QED
        BY <2>4, <4>1
    <3> QED
      BY <3>2, <3>3
  <2> QED
    BY <2>3, <2>5, <2>6 DEF Brings
<1> QED
  BY <1>1, <1>2

\* A part of an upload that ends where it was or at "idle".
LEMMA UploadNumbered ==
    ASSUME TypeInv, Numbered, NEW s \in Session, at[s] = "recv",
           Finish(s) \/ ReceiveFails(s) \/ \E n \in 1..Chunk, keep \in BOOLEAN : Receive(s, n, keep)
    PROVE  Numbered'
<1>1. /\ no' = no /\ jobs' = jobs
      /\ \A r \in Session : at'[r] \in {"wait", "open"} => at[r] \in {"wait", "open"}
  BY DEF Finish, ReceiveFails, Receive, End, session, TypeInv, TypeOK
<1>3. PICK b \in Seq(Byte) : Brings(s, b)
  BY UploadBrings
<1>4. ASSUME NEW r \in Session, NEW i \in 1..Len(buf'[r]) PROVE buf'[r][i].job = no'[r]
  <2>1. buf'[r] = buf[r] \/ (r = s /\ buf'[r] = b) \/ buf'[r] = <<>>
    BY <1>3 DEF Brings, TypeInv, TypeOK
  <2>2. CASE buf'[r] = <<>>
    <3>1. Len(buf'[r]) = 0
      BY <2>2
    <3> QED
      BY <3>1
  <2> QED
    BY <1>1, <1>3, <2>1, <2>2 DEF Brings, Numbered
<1>5. ASSUME NEW f \in File PROVE AllKnown(f)'
  <2>1. ASSUME content'[f] # Missing, NEW i \in 1..Len(content'[f]) PROVE Known(content'[f][i])
    BY <1>3, <2>1, FlushNumbered DEF Brings, Numbered, AllKnown
  <2> QED
    BY <1>1, <2>1 DEF AllKnown, Known
<1> QED
  BY <1>1, <1>4, <1>5 DEF Numbered

LEMMA NumberedStep == TypeInv /\ Numbered /\ [Next]_vars => Numbered'
<1> SUFFICES ASSUME TypeInv, Numbered, [Next]_vars PROVE Numbered'
  OBVIOUS
<1>1. CASE UNCHANGED vars
  BY <1>1 DEF vars, disk, session, upload, Numbered, AllKnown, Known
<1>2. ASSUME NEW s \in Session, NEW w, at' = [at EXCEPT ![s] = w],
             w \in {"wait", "open"} => at[s] \in {"wait", "open"},
             UNCHANGED <<disk, jobs, no>>, buf' = buf \/ buf' = [buf EXCEPT ![s] = <<>>]
      PROVE  Numbered'
  BY <1>2, QuietNumbered DEF disk
<1>3. ASSUME NEW s \in Session, at' = at, UNCHANGED <<disk, jobs, no>>,
             buf' = buf \/ buf' = [buf EXCEPT ![s] = <<>>]
      PROVE  Numbered'
  <2>1. at' = [at EXCEPT ![s] = at[s]]
    BY <1>3 DEF TypeInv, TypeOK
  <2> QED
    BY <1>2, <1>3, <2>1
<1>4. ASSUME NEW s \in Session, Command(s) PROVE Numbered'
  <2>1. ASSUME NEW n \in 0..MaxRest, Rest(s, n) PROVE Numbered'
    BY <1>3, <2>1 DEF Rest, session, upload
  <2>2. ASSUME NEW f \in File, NEW kind \in Kinds, RefuseRest(s, kind, f) PROVE Numbered'
    BY <1>3, <2>2 DEF RefuseRest, session, upload
  <2>3. ASSUME NEW f \in File, NEW kind \in Kinds, NEW z \in BOOLEAN, NEW n \in 0..MaxUp,
               Start(s, kind, f, z, n)
        PROVE  Numbered'
    <3>1. /\ jobs' = jobs + 1 /\ no' = [no EXCEPT ![s] = jobs + 1] /\ jobs \in Nat
          /\ at' = [at EXCEPT ![s] = "wait"] /\ content' = content /\ buf' = buf
          /\ at[s] = "idle"
      BY <2>3, JobsAreNat DEF Start, disk, TypeInv
    <3>2. \A r \in Session : no[r] \in 0..jobs /\ no'[r] = IF r = s THEN jobs + 1 ELSE no[r]
      BY <3>1 DEF Numbered, TypeInv, TypeOK
    <3>3. \A r \in Session : no'[r] \in 0..jobs'
      BY <3>1, <3>2
    <3>4. ASSUME NEW r \in Session, NEW q \in Session, r # q, no'[r] = no'[q] PROVE no'[r] = 0
      BY <3>1, <3>2, <3>4 DEF Numbered
    <3>5. ASSUME NEW r \in Session, NEW i \in 1..Len(buf'[r]) PROVE buf'[r][i].job = no'[r]
      <4>1. CASE r = s
        <5>1. buf[s] = <<>>
          BY <3>1 DEF TypeInv, TypeOK
        <5>2. Len(buf'[r]) = 0
          BY <3>1, <4>1, <5>1
        <5> QED
          BY <5>2
      <4>2. CASE r # s
        BY <3>1, <3>2, <4>2 DEF Numbered
      <4> QED
        BY <4>1, <4>2
    <3>6. ASSUME NEW g \in File PROVE AllKnown(g)'
      <4> SUFFICES ASSUME content[g] # Missing, NEW i \in 1..Len(content[g])
                   PROVE  /\ content[g][i].job \in 0..jobs'
                          /\ \A r \in Session :
                               at'[r] \in {"wait", "open"} => content[g][i].job # no'[r]
        BY <3>1 DEF AllKnown, Known
      <4>1. Known(content[g][i])
        BY DEF Numbered, AllKnown
      <4>2. content[g][i].job \in 0..jobs'
        BY <3>1, <4>1 DEF Known
      <4>3. ASSUME NEW r \in Session, at'[r] \in {"wait", "open"} PROVE content[g][i].job # no'[r]
        <5>1. CASE r = s
          BY <3>1, <3>2, <4>1, <5>1 DEF Known
        <5>2. CASE r # s
          <6>1. at'[r] = at[r]
            BY <3>1, <5>2 DEF TypeInv, TypeOK
          <6> QED
            BY <3>2, <4>1, <4>3, <5>2, <6>1 DEF Known
        <5> QED
          BY <5>1, <5>2
      <4> QED
        BY <4>2, <4>3
    <3> QED
      BY <3>3, <3>4, <3>5, <3>6 DEF Numbered
  <2> QED
    BY <1>4, <2>1, <2>2, <2>3 DEF Command, Kinds
<1>5. ASSUME NEW s \in Session, NEW w, OpenUpload(s, w) PROVE Numbered'
  <2>1. /\ at' = [at EXCEPT ![s] = "recv"] /\ buf' = [buf EXCEPT ![s] = <<>>]
        /\ no' = no /\ jobs' = jobs
        /\ content' = [content EXCEPT ![cmd[s].file] = IF w = "trunc" THEN <<>> ELSE @]
    BY <1>5 DEF OpenUpload
  <2>2. ASSUME NEW r \in Session, NEW i \in 1..Len(buf'[r]) PROVE buf'[r][i].job = no[r]
    <3>1. buf'[r] = buf[r] \/ buf'[r] = <<>>
      BY <2>1 DEF TypeInv, TypeOK
    <3>2. CASE buf'[r] = <<>>
      <4>1. Len(buf'[r]) = 0
        BY <3>2
      <4> QED
        BY <4>1
    <3> QED
      BY <3>1, <3>2 DEF Numbered
  <2>3. ASSUME NEW f \in File PROVE AllKnown(f)'
    <3>1. content'[f] = content[f] \/ content'[f] = <<>>
      BY <2>1 DEF TypeInv, TypeOK
    <3>2. CASE content'[f] = <<>>
      <4>1. Len(content'[f]) = 0
        BY <3>2
      <4> QED
        BY <4>1 DEF AllKnown
    <3>3. CASE content'[f] = content[f]
      <4>1. \A r \in Session : at'[r] \in {"wait", "open"} => at[r] \in {"wait", "open"}
        BY <2>1 DEF TypeInv, TypeOK
      <4> QED
        BY <2>1, <3>3, <4>1 DEF Numbered, AllKnown, Known
    <3> QED
      BY <3>1, <3>2, <3>3
  <2> QED
    BY <2>1, <2>2, <2>3 DEF Numbered
<1>6. ASSUME NEW s \in Session, Work(s) \/ Fault(s) PROVE Numbered'
  <2>1. ASSUME at[s] \in Loops \cup {"recv"}, UNCHANGED <<disk, jobs, no, buf>>,
               End(s, 226) \/ \E w \in Loops \cup {"spin"} : Goto(s, w)
        PROVE  Numbered'
    <3>1. PICK w \in Loops \cup {"spin", "idle"} : at' = [at EXCEPT ![s] = w]
      BY <2>1 DEF End, Goto
    <3> QED
      BY <1>2, <2>1, <3>1 DEF Loops
  <2>2. CASE GiveUp(s)
    BY <1>2, <2>2 DEF GiveUp, session, upload
  <2>3. CASE Connect(s)
    BY <1>2, <2>3 DEF Connect, upload
  <2>4. CASE OpenDownload(s)
    <3>1. PICK w \in Loops \cup {"idle"} : at' = [at EXCEPT ![s] = w]
      BY <2>4 DEF OpenDownload, End, Loops
    <3> QED
      BY <1>2, <2>4, <3>1 DEF OpenDownload, upload, Loops
  <2>5. AfterSendfile(s, offset[s]) \in Loops /\ \A o : AfterSendfile(s, o) \in Loops
    BY DEF AfterSendfile, Loops
  <2>6. CASE SendfileStops(s) \/ MmapStops(s) \/ ReadStops(s) \/ EndEarly(s)
    BY <2>1, <2>5, <2>6
       DEF SendfileStops, MmapStops, ReadStops, EndEarly, Loops, session, upload
  <2>12. CASE DiskError(s) \/ SendTimesOut(s)
    BY <2>1, <2>5, <2>12 DEF DiskError, SendTimesOut, Abandon, Loops, session, upload
  <2>7. ASSUME NEW n \in 1..Chunk, Sendfile(s, n) \/ SendMapped(s, n) \/ ReadAndSend(s, n)
        PROVE  Numbered'
    BY <2>1, <2>5, <2>7 DEF Sendfile, SendMapped, ReadAndSend, Loops, session, upload
  <2>8. CASE Disconnect(s)
    BY <1>3, <2>8 DEF Disconnect, session, upload
  <2>9. CASE DiskFull(s)
    BY <1>3, <2>9 DEF DiskFull, session
  <2>10. CASE Spin(s)
    BY <1>1, <2>10 DEF Spin
  <2>11. CASE \/ Finish(s) \/ ReceiveFails(s)
              \/ \E n \in 1..Chunk, keep \in BOOLEAN : Receive(s, n, keep)
    BY <2>11, UploadNumbered DEF Finish, ReceiveFails, Receive
  <2> QED
    BY <1>5, <1>6, <2>2, <2>3, <2>4, <2>6, <2>7, <2>8, <2>9, <2>10, <2>11, <2>12 DEF Work, Fault
<1> QED
  BY <1>1, <1>4, <1>6 DEF Next, Terminated

LEMMA FlushAppends ==
    ASSUME TypeInv, NEW s \in Session, at[s] = "recv", Appending(s),
           NEW w \in Nat, Holds(content[cmd[s].file], s, w),
           NEW b \in Seq(Byte), Pending(s, b, w), Flush(s, b)
    PROVE  Holds(content'[cmd[s].file], s, w + Len(b))
<1> DEFINE f == cmd[s].file
<1>1. TypeOK /\ f \in File /\ content[f] # Missing /\ content[f] \in Seq(Byte)
  BY DEF TypeInv, TypeOK, StageInv
<1>2. PlaceOf(s) = Len(content[f])
  BY <1>1 DEF Appending, PlaceOf, LenOf
<1>3. content'[f] = content[f] \o b
  <2>1. CASE b = <<>>
    <3>1. content'[f] = content[f]
      BY <2>1 DEF Flush, disk
    <3> QED
      BY <1>1, <2>1, <3>1, ConcatEmptySeq
  <2>2. CASE b # <<>>
    <3>1. content'[f] = Overwrite(content[f], Len(content[f]), b)
      BY <1>1, <1>2, <2>2 DEF Flush, Appending, TypeOK
    <3> QED
      BY <1>1, <3>1, OverwriteAtEnd
  <2> QED
    BY <2>1, <2>2
<1>4. Holds(content[f] \o b, s, w + Len(b))
  BY <1>1, HoldsMore DEF Appending
<1> QED
  BY <1>3, <1>4

\* The first command to open a file has nothing in it.
LEMMA OpenAppends ==
    ASSUME TypeInv, Numbered, NEW s \in Session, NEW w, OpenUpload(s, w)
    PROVE  Appended(s)'
<1> SUFFICES ASSUME cmd'[s].kind = "APPE", how'[s] = "append"
             PROVE  /\ (Flushed(s) \in Nat)' /\ Pending(s, buf[s], Flushed(s))'
                    /\ Holds(content[cmd[s].file], s, Flushed(s))'
  <2>1. at'[s] = "recv"
    BY DEF OpenUpload, TypeInv, TypeOK
  <2> QED
    BY <2>1 DEF Appended, Appending
<1> DEFINE f == cmd[s].file
<1>1. /\ at[s] = "open" /\ cmd' = cmd /\ w = "append" /\ no' = no /\ buf'[s] = <<>>
      /\ f \in File /\ how[s] = "append"
  BY DEF OpenUpload, OpensAs, TypeInv, TypeOK
<1>2. stored'[s] = 0 /\ content' = content
  BY <1>1 DEF OpenUpload, TypeInv, TypeOK, StageInv
<1>3. Len(buf'[s]) = 0
  BY <1>1
<1>4. Flushed(s)' = 0
  BY <1>2, <1>3 DEF Flushed
<1>5. content[f] # Missing
  BY <1>1 DEF TypeInv, StageInv
<1>6. {i \in 1..Len(content[f]) : content[f][i].job = no[s]} = {}
  BY <1>1, <1>5 DEF Numbered, AllKnown, Known
<1>7. Holds(content[f], s, 0)
  BY <1>6 DEF Holds
<1>8. Holds(content[cmd[s].file], s, Flushed(s))'
  BY <1>1, <1>2, <1>4, <1>6 DEF Holds
<1>9. Pending(s, buf[s], Flushed(s))'
  BY <1>3 DEF Pending
<1> QED
  BY <1>4, <1>8, <1>9

LEMMA ReceiveAppends ==
    ASSUME TypeInv, NEW s \in Session, Appended(s),
           NEW n \in 1..Chunk, NEW keep \in BOOLEAN, Receive(s, n, keep)
    PROVE  Appended(s)'
<1> DEFINE d == [k \in 1..n |-> Sent(s, stored[s] + k)]
           b == buf[s] \o d
           f == cmd[s].file
<1>0. /\ at[s] = "recv" /\ n \in Nat /\ stored[s] \in Nat /\ buf[s] \in Seq(Byte) /\ TypeOK
      /\ f \in File /\ Len(buf[s]) \in Nat
  <2>1. at[s] = "recv" /\ n \in Nat
    BY Bounds DEF Receive
  <2>2. stored[s] \in 0..MaxUp /\ buf[s] \in Seq(Byte) /\ TypeOK /\ f \in File
    BY DEF TypeInv, TypeOK
  <2> QED
    BY <2>1, <2>2, Bounds
<1>1. /\ at'[s] = "recv" /\ cmd' = cmd /\ no' = no /\ how' = how /\ from' = from
      /\ faulty' = faulty /\ stored'[s] = stored[s] + n
  BY <1>0 DEF Receive, session, opened, TypeOK
<1>2. SUFFICES ASSUME Appending(s)'
               PROVE  /\ (Flushed(s) \in Nat)' /\ Pending(s, buf[s], Flushed(s))'
                      /\ Holds(content[cmd[s].file], s, Flushed(s))'
  BY <1>1 DEF Appended
<1>3. trampled \subseteq trampled'
  BY DEF Receive, Flush, Disturb, others
<1>4. Appending(s)
  BY <1>1, <1>2, <1>3 DEF Appending
<1>5. Flushed(s) \in Nat /\ Pending(s, buf[s], Flushed(s)) /\ Holds(content[f], s, Flushed(s))
  BY <1>0, <1>4 DEF Appended
<1>6. d \in Seq(Byte) /\ Len(d) = n /\ Pending(s, d, stored[s])
  <2>1. \A k \in 1..n : Sent(s, stored[s] + k) \in Byte
    BY <1>0, SentIsByte
  <2> QED
    BY <1>0, <2>1 DEF Pending
<1>7. Flushed(s) + Len(buf[s]) = stored[s]
  BY <1>0 DEF Flushed
<1> HIDE DEF d
<1>8. b \in Seq(Byte) /\ Len(b) = Len(buf[s]) + n /\ Pending(s, b, Flushed(s))
  <2>1. Pending(s, d, Flushed(s) + Len(buf[s]))
    BY <1>6, <1>7
  <2>2. /\ buf[s] \o d \in Seq(Byte) /\ Len(buf[s] \o d) = Len(buf[s]) + Len(d)
        /\ Pending(s, buf[s] \o d, Flushed(s))
    BY <1>0, <1>5, <1>6, <2>1, PendingMore
  <2> QED
    BY <1>6, <2>2
<1> HIDE DEF b
<1>9. CASE keep
  <2>1. buf'[s] = b /\ content' = content
    BY <1>0, <1>9 DEF Receive, disk, TypeOK, b, d
  <2>2. Flushed(s)' = Flushed(s)
    <3>1. Flushed(s)' = (stored[s] + n) - Len(b)
      BY <1>1, <2>1 DEF Flushed
    <3> QED
      BY <1>0, <1>8, <3>1 DEF Flushed
  <2>3. Pending(s, buf[s], Flushed(s))'
    BY <1>1, <1>8, <2>1, <2>2 DEF Pending, Sent
  <2>4. Holds(content[cmd[s].file], s, Flushed(s))'
    BY <1>1, <1>5, <2>1, <2>2 DEF Holds, Sent
  <2> QED
    BY <1>5, <2>2, <2>3, <2>4
<1>10. CASE ~keep
  <2>1. buf'[s] = <<>> /\ Flush(s, b)
    BY <1>0, <1>10 DEF Receive, TypeOK, b, d
  <2>2. Holds(content'[f], s, Flushed(s) + Len(b))
    BY <1>0, <1>4, <1>5, <1>8, <2>1, FlushAppends
  <2>3. Len(buf'[s]) = 0
    BY <2>1
  <2>4. Flushed(s)' = Flushed(s) + Len(b)
    BY <1>0, <1>1, <1>8, <2>3 DEF Flushed
  <2>5. Pending(s, buf[s], Flushed(s))'
    BY <2>3 DEF Pending
  <2>6. Holds(content[cmd[s].file], s, Flushed(s))'
    BY <1>1, <2>2, <2>4 DEF Holds, Sent
  <2> QED
    BY <1>0, <1>5, <1>8, <2>4, <2>5, <2>6
<1> QED
  BY <1>9, <1>10

LEMMA CloseAppends ==
    ASSUME TypeInv, NEW s \in Session, Appended(s), Finish(s) \/ ReceiveFails(s)
    PROVE  Appended(s)'
<1> DEFINE f == cmd[s].file
<1>0. /\ at[s] = "recv" /\ buf[s] \in Seq(Byte) /\ Flush(s, buf[s]) /\ stored[s] \in Nat
      /\ Len(buf[s]) \in Nat /\ f \in File
  BY DEF Finish, ReceiveFails, CloseFile, TypeInv, TypeOK
<1>1. /\ at'[s] = "idle" /\ cmd' = cmd /\ no' = no /\ how' = how /\ from' = from
      /\ faulty' = faulty /\ stored' = stored
  BY DEF Finish, ReceiveFails, End, session, opened, TypeInv, TypeOK
<1>2. SUFFICES ASSUME Appending(s)'
               PROVE  /\ content'[cmd'[s].file] # Missing
                      /\ Holds(content[cmd[s].file], s, stored[s])'
  BY <1>1 DEF Appended
<1>3. trampled \subseteq trampled'
  BY <1>0 DEF Flush, Disturb, others
<1>4. Appending(s)
  BY <1>1, <1>2, <1>3 DEF Appending
<1>5. Flushed(s) \in Nat /\ Pending(s, buf[s], Flushed(s)) /\ Holds(content[f], s, Flushed(s))
  BY <1>0, <1>4 DEF Appended
<1>6. Flushed(s) + Len(buf[s]) = stored[s]
  BY <1>0 DEF Flushed
<1>7. Holds(content'[f], s, stored[s])
  BY <1>0, <1>4, <1>5, <1>6, FlushAppends
<1>8. content'[f] # Missing
  <2>1. content[f] # Missing
    BY <1>0 DEF TypeInv, StageInv
  <2> QED
    BY <1>0, <2>1, FlushType
<1>9. Holds(content[cmd[s].file], s, stored[s])'
  <2> DEFINE c == content'[cmd'[s].file]
             own == {i \in 1..Len(c) : c[i].job = no'[s]}
  <2>1. Holds(c, s, stored[s])
    BY <1>1, <1>7
  <2>2. own = {i \in 1..Len(c) : c[i].job = no[s]}
    BY <1>1
  <2>3. /\ {c[i] : i \in own} = {Sent(s, k) : k \in 1..stored[s]}
        /\ \A i, j \in own : i < j => c[i].place > c[j].place
    BY <2>1, <2>2 DEF Holds
  <2>4. ({Sent(s, k) : k \in 1..stored[s]})' = {Sent(s, k) : k \in 1..stored[s]}
    BY <1>1 DEF Sent
  <2>5. {c[i] : i \in own} = ({Sent(s, k) : k \in 1..stored[s]})'
    BY <2>3, <2>4
  <2> QED
    BY <2>3, <2>5 DEF Holds
<1>10. content'[cmd'[s].file] # Missing
  BY <1>1, <1>8
<1> HIDE DEF f
<1> QED
  BY <1>9, <1>10

LEMMA SameAppends ==
    ASSUME UNCHANGED <<content, at, cmd, no, how, buf, faulty, reply, from, stored, trampled>>,
           NEW s, Appended(s)
    PROVE  Appended(s)'
<1>1. Flushed(s)' = Flushed(s) /\ (Appending(s)' <=> Appending(s))
  BY DEF Flushed, Appending
<1>2. \A k : Sent(s, k)' = Sent(s, k)
  BY DEF Sent
<1>3. Pending(s, buf[s], Flushed(s))' <=> Pending(s, buf[s], Flushed(s))
  BY <1>1, <1>2 DEF Pending
<1>4. Holds(content[cmd[s].file], s, Flushed(s))' <=> Holds(content[cmd[s].file], s, Flushed(s))
  BY <1>1 DEF Holds, Sent
<1>5. Holds(content[cmd[s].file], s, stored[s])' <=> Holds(content[cmd[s].file], s, stored[s])
  BY DEF Holds, Sent
<1> QED
  BY <1>1, <1>3, <1>4, <1>5 DEF Appended

LEMMA OwnStepAppends ==
    ASSUME TypeInv, Numbered, NEW s \in Session, Appended(s), Command(s) \/ Work(s) \/ Fault(s)
    PROVE  Appended(s)'
<1>1. ASSUME Elsewhere(s) PROVE Appended(s)'
  BY <1>1 DEF Elsewhere, Appended, Appending
<1>2. ASSUME NEW n \in 0..MaxRest, Rest(s, n) PROVE Appended(s)'
  BY <1>2, SameAppends DEF Rest, disk, session, upload, opened, others
<1>3. CASE Connect(s)
  <2>1. at'[s] = "open"
    BY <1>3 DEF Connect, TypeInv, TypeOK
  <2> QED
    BY <2>1 DEF Appended
<1>4. CASE DiskFull(s)
  BY <1>4 DEF DiskFull, Appended, Appending
<1>5. CASE Spin(s)
  BY <1>5, SameAppends DEF Spin, vars, disk, session, upload, opened, others
<1> QED
  BY <1>1, <1>2, <1>3, <1>4, <1>5, OtherStepsElsewhere, OpenAppends, ReceiveAppends, CloseAppends
     DEF Command, Work, Fault, Kinds

\* A step of another one leaves the file alone, spoils it, or appends its own bytes.
LEMMA OthersOnlyAppend ==
    ASSUME TypeInv, Numbered, NEW s \in Session, NEW r \in Session \ {s},
           Command(s) \/ Work(s) \/ Fault(s), at[r] \notin {"wait", "open"},
           content[cmd[r].file] # Missing
    PROVE  \/ content'[cmd[r].file] = content[cmd[r].file]
           \/ r \in trampled'
           \/ /\ at[s] = "recv"
              /\ \E b \in Seq(Byte) :
                   /\ \A i \in 1..Len(b) : b[i].job = no[s]
                   /\ content'[cmd[r].file] = content[cmd[r].file] \o b
<1> DEFINE f == cmd[r].file
           Goal == \/ content'[f] = content[f]
                   \/ r \in trampled'
                   \/ /\ at[s] = "recv"
                      /\ \E b \in Seq(Byte) :
                           /\ \A i \in 1..Len(b) : b[i].job = no[s]
                           /\ content'[f] = content[f] \o b
<1> SUFFICES Goal
  OBVIOUS
<1>0. f \in File /\ content[f] \in Seq(Byte) /\ r \in Session
  BY DEF TypeInv, TypeOK
<1>1. ASSUME content' = content PROVE Goal
  BY <1>1
<1>2. ASSUME Disturb(s, FALSE), \A g \in File \ {cmd[s].file} : content'[g] = content[g]
      PROVE  Goal
  <2>1. CASE f = cmd[s].file
    <3>1. r \in Users(s, f)
      BY DEF Users
    <3> QED
      BY <1>2, <2>1, <3>1 DEF Disturb
  <2>2. CASE f # cmd[s].file
    BY <1>0, <1>2, <2>2
  <2> QED
    BY <2>1, <2>2
<1>3. ASSUME NEW w, OpenUpload(s, w) PROVE Goal
  <2>1. CASE w = "trunc"
    BY <1>2, <1>3, <2>1 DEF OpenUpload, TypeInv, TypeOK
  <2>2. CASE w # "trunc"
    BY <1>0, <1>3, <2>2 DEF OpenUpload, TypeInv, TypeOK
  <2> QED
    BY <2>1, <2>2
<1>4. ASSUME at[s] = "recv", NEW b \in Seq(Byte), \A i \in 1..Len(b) : b[i].job = no[s],
             Flush(s, b)
      PROVE  Goal
  <2>1. CASE content' = content
    BY <1>1, <2>1
  <2>2. CASE content' # content /\ how[s] # "append"
    BY <1>2, <1>4, <2>2 DEF Flush, disk, TypeInv, TypeOK
  <2>3. CASE content' # content /\ how[s] = "append"
    <3>1. content' = [content EXCEPT ![cmd[s].file] = Overwrite(@, PlaceOf(s), b)]
      BY <1>4, <2>3 DEF Flush, disk
    <3>2. CASE f # cmd[s].file
      BY <1>0, <3>1, <3>2 DEF TypeInv, TypeOK
    <3>3. CASE f = cmd[s].file
      <4>1. PlaceOf(s) = Len(content[f])
        BY <2>3, <3>3 DEF PlaceOf, LenOf
      <4>2. content'[f] = content[f] \o b
        BY <1>0, <3>1, <3>3, <4>1, OverwriteAtEnd DEF TypeInv, TypeOK
      <4> QED
        BY <1>4, <4>2
    <3> QED
      BY <3>2, <3>3
  <2> QED
    BY <2>1, <2>2, <2>3
<1> HIDE DEF Goal
<1>5. CASE \/ Finish(s) \/ ReceiveFails(s)
           \/ \E n \in 1..Chunk, keep \in BOOLEAN : Receive(s, n, keep)
  <2>1. at[s] = "recv"
    BY <1>5 DEF Finish, ReceiveFails, Receive
  <2>2. PICK b \in Seq(Byte) : Brings(s, b)
    BY <1>5, <2>1, UploadBrings
  <2> QED
    BY <1>1, <1>4, <2>1, <2>2 DEF Brings
<1>6. ASSUME UNCHANGED disk PROVE Goal
  BY <1>1, <1>6 DEF disk
<1>7. CASE Command(s)
  <2>1. UNCHANGED disk
    BY <1>7 DEF Command, Rest, RefuseRest, Start
  <2> QED
    BY <1>6, <2>1
<1>8. CASE GiveUp(s) \/ Connect(s) \/ OpenDownload(s) \/ SendfileStops(s) \/ MmapStops(s)
           \/ ReadStops(s) \/ EndEarly(s) \/ Spin(s) \/ DiskError(s) \/ Disconnect(s) \/ SendTimesOut(s)
           \/ DiskFull(s)
           \/ \E n \in 1..Chunk : Sendfile(s, n) \/ SendMapped(s, n) \/ ReadAndSend(s, n)
  <2>1. UNCHANGED disk
    BY <1>8 DEF GiveUp, Connect, OpenDownload, SendfileStops, MmapStops, ReadStops, EndEarly,
       Spin, vars, DiskError, Disconnect, SendTimesOut, DiskFull, Sendfile, SendMapped, ReadAndSend
  <2> QED
    BY <1>6, <2>1
<1> QED
  BY <1>3, <1>5, <1>7, <1>8 DEF Work, Fault

LEMMA OthersStepAppends ==
    ASSUME TypeInv, Numbered, NEW s \in Session, NEW r \in Session \ {s}, Appended(r),
           Command(s) \/ Work(s) \/ Fault(s)
    PROVE  Appended(r)'
<1> DEFINE f == cmd[r].file
<1>1. Apart(r)
  BY EverybodyApart
<1>2. /\ cmd'[r] = cmd[r] /\ no'[r] = no[r] /\ from'[r] = from[r] /\ at'[r] = at[r]
      /\ how'[r] = how[r] /\ stored'[r] = stored[r] /\ buf'[r] = buf[r] /\ reply'[r] = reply[r]
      /\ Appending(r)' => Appending(r)
  BY <1>1 DEF Apart, Appending
<1>3. ASSUME Appending(r)', at[r] \in {"recv", "idle"}, content[f] # Missing, NEW w,
             Holds(content[f], r, w)
      PROVE  content'[f] # Missing /\ Holds(content'[f], r, w)
  <2>0. content[f] \in Seq(Byte) /\ f \in File
    BY <1>3 DEF Brings, TypeInv, TypeOK
  <2>1. CASE content'[f] = content[f]
    BY <1>3, <2>1
  <2>2. r \notin trampled'
    BY <1>3 DEF Appending
  <2>3. ASSUME at[s] = "recv", NEW b \in Seq(Byte), \A i \in 1..Len(b) : b[i].job = no[s],
               content'[f] = content[f] \o b
        PROVE  content'[f] # Missing /\ Holds(content'[f], r, w)
    <3>1. no[s] # no[r]
      BY <2>3, Bounds DEF TypeInv, StageInv, Numbered
    <3>2. Holds(content[f] \o b, r, w)
      BY <1>3, <2>0, <2>3, <3>1, HoldsStill
    <3>3. content[f] \o b \in Seq(Byte)
      BY <2>0, ConcatDef
    <3> QED
      BY <2>3, <3>2, <3>3, MissingIsNoContent
  <2> QED
    BY <1>3, <2>1, <2>2, <2>3, OthersOnlyAppend
<1>4. ASSUME Appending(r)', at[r] = "recv"
      PROVE  /\ (Flushed(r) \in Nat)' /\ Pending(r, buf[r], Flushed(r))'
             /\ Holds(content[cmd[r].file], r, Flushed(r))'
  <2>1. Flushed(r) \in Nat /\ Pending(r, buf[r], Flushed(r)) /\ Holds(content[f], r, Flushed(r))
    BY <1>2, <1>4 DEF Appended
  <2>2. content[f] # Missing
    BY <1>4 DEF TypeInv, StageInv
  <2>3. Holds(content'[f], r, Flushed(r))
    BY <1>3, <1>4, <2>1, <2>2
  <2>4. Flushed(r)' = Flushed(r)
    BY <1>2 DEF Flushed
  <2> QED
    BY <1>2, <2>1, <2>3, <2>4 DEF Pending, Holds, Sent
<1>5. ASSUME Appending(r)', at[r] = "idle", reply[r] = 226
      PROVE  content'[cmd'[r].file] # Missing /\ Holds(content[cmd[r].file], r, stored[r])'
  <2>1. content[f] # Missing /\ Holds(content[f], r, stored[r])
    BY <1>2, <1>5 DEF Appended
  <2>2. content'[f] # Missing /\ Holds(content'[f], r, stored[r])
    BY <1>3, <1>5, <2>1
  <2> QED
    BY <1>2, <2>2 DEF Holds, Sent
<1> QED
  BY <1>2, <1>4, <1>5 DEF Appended

LEMMA AppendStep == TypeInv /\ AppendInv /\ [Next]_vars => AppendInv'
<1> SUFFICES ASSUME TypeInv, AppendInv, [Next]_vars PROVE AppendInv'
  OBVIOUS
<1>1. Numbered'
  BY NumberedStep DEF AppendInv
<1>2. ASSUME NEW r \in Session PROVE Appended(r)'
  <2>1. Appended(r) /\ Numbered
    BY DEF AppendInv
  <2>2. CASE UNCHANGED vars
    BY <2>1, <2>2, SameAppends DEF vars, disk, session, upload, opened, others
  <2>3. ASSUME NEW s \in Session, Command(s) \/ Work(s) \/ Fault(s) PROVE Appended(r)'
    BY <2>1, <2>3, OwnStepAppends, OthersStepAppends
  <2> QED
    BY <2>2, <2>3 DEF Next, Terminated
<1> QED
  BY <1>1, <1>2 DEF AppendInv

LEMMA AppendsBegin == Init => AppendInv
<1> SUFFICES ASSUME Init PROVE AppendInv
  OBVIOUS
<1>1. \A s \in Session : Appended(s)
  BY DEF Init, Appended, Appending, NoCmd
<1>2. ASSUME NEW f \in File PROVE AllKnown(f)
  <2> SUFFICES ASSUME content[f] # Missing, NEW i \in 1..Len(content[f])
               PROVE  Known(content[f][i])
    BY DEF AllKnown
  <2>1. content[f] = Old(Len(content[f])) /\ content[f] \in Seq(Byte)
    BY FirstContentIsOld DEF Init
  <2>2. content[f][i].job = 0
    BY <2>1 DEF Old
  <2> QED
    BY <2>2 DEF Known, Init
<1>3. \A s \in Session : \A i \in 1..Len(buf[s]) : buf[s][i].job = no[s]
  <2>1. ASSUME NEW s \in Session PROVE Len(buf[s]) = 0
    BY DEF Init
  <2> QED
    BY <2>1
<1>4. Numbered
  BY <1>2, <1>3 DEF Init, Numbered
<1> QED
  BY <1>1, <1>4 DEF AppendInv

\* handleAPPE() opens its file with ios::app: sessions that append to the same file
\* lose no byte of each other, and each one's bytes stay in their order.
THEOREM EveryAppendSurvives == Spec => []AppendsSurvive
<1>1. Init => TypeInv /\ AppendInv
  BY InitType, AppendsBegin
<1>2. TypeInv /\ AppendInv /\ [Next]_vars => (TypeInv /\ AppendInv)'
  BY StepType, AppendStep
<1>3. AppendInv => AppendsSurvive
  BY DEF AppendInv, Appended, Appending, AppendsSurvive
<1> QED
  BY <1>1, <1>2, <1>3, PTL DEF Spec

-----------------------------------------------------------------------------
(* SumFunction(), by induction over the number of the places added up.       *)

LEMMA LeastNatural ==
    ASSUME NEW T \in SUBSET Nat, T # {}
    PROVE  \E n \in T : \A m \in T : n <= m
<1>1. PICK n \in T : \A m \in T : ~ (<<m, n>> \in OpToRel(<, Nat))
  BY NatLessThanWellFounded, WFMin
<1>2. \A m \in T : ~ (m < n)
  BY <1>1 DEF OpToRel
<1> QED
  BY <1>2

LEMMA NatInduct ==
    ASSUME NEW T \in SUBSET Nat, 0 \in T, \A n \in Nat : n \in T => n + 1 \in T
    PROVE  \A n \in Nat : n \in T
<1> SUFFICES ASSUME Nat \ T # {} PROVE FALSE
  OBVIOUS
<1>1. PICK n \in Nat \ T : \A m \in Nat \ T : n <= m
  BY LeastNatural
<1>2. n # 0 /\ n - 1 \in Nat /\ n - 1 \in T
  BY <1>1
<1> QED
  BY <1>2

\* The function that the recursion of SumFunction() defines on some sets.
One(s) == CHOOSE x \in s : TRUE
Sums(g, fun, D) == g = [s \in D |-> IF s = {} THEN 0 ELSE fun[One(s)] + g[s \ {One(s)}]]

LEMMA SumDef ==
    ASSUME NEW fun
    PROVE  SumFunction(fun) = (CHOOSE g : Sums(g, fun, SUBSET DOMAIN fun))[DOMAIN fun]
BY DEF SumFunction, SumFunctionOnSet, FoldFunctionOnSet, MapThenFoldSet, Sums, One

LEMMA OneLess ==
    ASSUME NEW S, IsFiniteSet(S), NEW s \in SUBSET S, s # {}
    PROVE  /\ One(s) \in s /\ s \ {One(s)} \in SUBSET S
           /\ Cardinality(s) \in Nat /\ Cardinality(s) # 0
           /\ Cardinality(s \ {One(s)}) = Cardinality(s) - 1
<1>1. One(s) \in s
  BY DEF One
<1>2. IsFiniteSet(s)
  BY FS_Subset
<1>3. Cardinality(s) \in Nat /\ Cardinality(s) # 0
  BY <1>2, FS_CardinalityType, FS_EmptySet
<1>4. Cardinality(s \ {One(s)}) = Cardinality(s) - 1
  BY <1>1, <1>2, FS_RemoveElement
<1> QED
  BY <1>1, <1>3, <1>4

LEMMA SumExists ==
    ASSUME NEW S, IsFiniteSet(S), NEW fun
    PROVE  \E g : Sums(g, fun, SUBSET S)
<1> DEFINE Small(n) == {s \in SUBSET S : Cardinality(s) <= n}
           T == {n \in Nat : \E g : Sums(g, fun, Small(n))}
<1>1. 0 \in T
  <2> DEFINE g == [s \in Small(0) |-> 0]
  <2>1. ASSUME NEW s \in Small(0), s # {} PROVE FALSE
    <3>1. s \in SUBSET S /\ Cardinality(s) <= 0
      OBVIOUS
    <3>2. Cardinality(s) \in Nat /\ Cardinality(s) # 0
      BY <2>1, <3>1, OneLess
    <3> QED
      BY <3>1, <3>2
  <2>2. Sums(g, fun, Small(0))
    BY <2>1 DEF Sums
  <2> QED
    BY <2>2
<1>2. ASSUME NEW n \in Nat, n \in T PROVE n + 1 \in T
  <2>1. PICK g : Sums(g, fun, Small(n))
    BY <1>2
  <2> DEFINE h == [s \in Small(n + 1) |->
                     IF s = {} THEN 0 ELSE fun[One(s)] + g[s \ {One(s)}]]
             k == [s \in Small(n + 1) |->
                     IF s = {} THEN 0 ELSE fun[One(s)] + h[s \ {One(s)}]]
  <2>2. ASSUME NEW s \in Small(n + 1), s # {} PROVE h[s \ {One(s)}] = g[s \ {One(s)}]
    <3> DEFINE t == s \ {One(s)}
    <3>1. t \in SUBSET S /\ Cardinality(t) <= n /\ Cardinality(t) <= n + 1
      <4>1. /\ t \in SUBSET S /\ Cardinality(s) \in Nat /\ Cardinality(t) = Cardinality(s) - 1
            /\ Cardinality(s) <= n + 1
        BY <2>2, OneLess
      <4> QED
        BY <4>1
    <3>2. t \in Small(n) /\ t \in Small(n + 1)
      BY <3>1
    <3>3. g[t] = IF t = {} THEN 0 ELSE fun[One(t)] + g[t \ {One(t)}]
      BY <2>1, <3>2 DEF Sums
    <3> HIDE DEF t
    <3>4. h[t] = g[t]
      BY <3>2, <3>3
    <3> QED
      BY <3>4 DEF t
  <2>3. \A s \in Small(n + 1) : h[s] = k[s]
    BY <2>2
  <2>4. h = k
    BY <2>3
  <2>5. Sums(h, fun, Small(n + 1))
    BY <2>4 DEF Sums
  <2> HIDE DEF h, Small
  <2>6. \E f : Sums(f, fun, Small(n + 1))
    BY <2>5
  <2> QED
    BY <2>6
<1> HIDE DEF T
<1>3. Cardinality(S) \in Nat /\ Cardinality(S) \in T
  BY <1>1, <1>2, NatInduct, FS_CardinalityType DEF T
<1>4. Small(Cardinality(S)) = SUBSET S
  BY FS_Subset
<1> QED
  BY <1>3, <1>4 DEF T

\* g[s] is the sum over s.
Adds(g, fun, S) ==
    g[{}] = 0 /\ \A s \in SUBSET S : s # {} => g[s] = fun[One(s)] + g[s \ {One(s)}]

LEMMA SumUnfolds ==
    ASSUME NEW S, IsFiniteSet(S), NEW fun, DOMAIN fun = S
    PROVE  \E g : SumFunction(fun) = g[S] /\ Adds(g, fun, S)
<1> DEFINE g == CHOOSE h : Sums(h, fun, SUBSET S)
<1>1. Sums(g, fun, SUBSET S)
  BY SumExists
<1>2. SumFunction(fun) = g[S]
  BY SumDef
<1> HIDE DEF g
<1>3. Adds(g, fun, S)
  BY <1>1 DEF Sums, Adds
<1> QED
  BY <1>2, <1>3

\* A fact about the sets with n members follows from the sets with fewer.
LEMMA SetInduct ==
    ASSUME NEW S, IsFiniteSet(S), NEW G \in SUBSET SUBSET S, {} \in G,
           \A s \in SUBSET S : s # {} /\ s \ {One(s)} \in G => s \in G
    PROVE  \A s \in SUBSET S : s \in G
<1> DEFINE T == {n \in Nat : \A s \in SUBSET S : Cardinality(s) = n => s \in G}
<1>1. 0 \in T
  BY OneLess
<1>2. ASSUME NEW n \in Nat, n \in T PROVE n + 1 \in T
  <2>1. ASSUME NEW s \in SUBSET S, Cardinality(s) = n + 1 PROVE s \in G
    <3>1. s # {}
      BY <2>1, FS_EmptySet
    <3>2. s \ {One(s)} \in SUBSET S /\ Cardinality(s \ {One(s)}) = n
      BY <2>1, <3>1, OneLess
    <3> QED
      BY <1>2, <3>1, <3>2
  <2> QED
    BY <2>1
<1> HIDE DEF T
<1>3. \A n \in Nat : n \in T
  BY <1>1, <1>2, NatInduct DEF T
<1>4. \A s \in SUBSET S : Cardinality(s) \in Nat
  BY FS_Subset, FS_CardinalityType
<1> QED
  BY <1>3, <1>4 DEF T

LEMMA SumIsNat ==
    ASSUME NEW S, IsFiniteSet(S), NEW fun \in [S -> Nat]
    PROVE  SumFunction(fun) \in Nat
<1>1. DOMAIN fun = S
  OBVIOUS
<1>2. PICK g : SumFunction(fun) = g[S] /\ Adds(g, fun, S)
  BY <1>1, SumUnfolds
<1> DEFINE G == {s \in SUBSET S : g[s] \in Nat}
<1>3. ASSUME NEW s \in SUBSET S, s # {}, s \ {One(s)} \in G PROVE s \in G
  <2>1. g[s] = fun[One(s)] + g[s \ {One(s)}] /\ fun[One(s)] \in Nat
    BY <1>2, <1>3, OneLess DEF Adds
  <2> QED
    BY <1>3, <2>1
<1>4. {} \in G
  BY <1>2 DEF Adds
<1>5. S \in G
  <2>1. G \in SUBSET SUBSET S
    OBVIOUS
  <2> HIDE DEF G
  <2> QED
    BY <1>3, <1>4, <2>1, SetInduct
<1> QED
  BY <1>2, <1>5

\* One number is replaced.
LEMMA SumChanges ==
    ASSUME NEW S, IsFiniteSet(S), NEW fun \in [S -> Nat], NEW a \in S, NEW v \in Nat
    PROVE  SumFunction([fun EXCEPT ![a] = v]) = SumFunction(fun) + v - fun[a]
<1> DEFINE new == [fun EXCEPT ![a] = v]
<1>1. DOMAIN fun = S /\ DOMAIN new = S /\ new \in [S -> Nat]
  OBVIOUS
<1>2. PICK g : SumFunction(fun) = g[S] /\ Adds(g, fun, S)
  BY <1>1, SumUnfolds
<1>3. PICK h : SumFunction(new) = h[S] /\ Adds(h, new, S)
  <2> HIDE DEF new
  <2> QED
    BY <1>1, SumUnfolds
<1>4. new[a] = v /\ \A x \in S : x # a => new[x] = fun[x]
  OBVIOUS
<1> HIDE DEF new
<1> DEFINE G == {s \in SUBSET S : g[s] \in Nat /\ h[s] = g[s] + IF a \in s THEN v - fun[a] ELSE 0}
<1>5. ASSUME NEW s \in SUBSET S, s # {}, s \ {One(s)} \in G PROVE s \in G
  <2> DEFINE x == One(s)
             t == s \ {x}
  <2>1. /\ g[s] = fun[x] + g[t] /\ h[s] = new[x] + h[t] /\ x \in s /\ x \in S
        /\ fun[x] \in Nat /\ fun[a] \in Nat /\ new[x] \in Nat
    <3>1. x \in s /\ x \in S
      BY <1>5, OneLess
    <3>2. g[s] = fun[x] + g[t] /\ h[s] = new[x] + h[t]
      BY <1>2, <1>3, <1>5 DEF Adds
    <3> QED
      BY <1>1, <3>1, <3>2
  <2>2. g[t] \in Nat /\ h[t] = g[t] + IF a \in t THEN v - fun[a] ELSE 0
    BY <1>5
  <2>3. CASE x = a
    <3>1. a \notin t /\ a \in s /\ new[x] = v
      BY <1>4, <2>1, <2>3
    <3>2. h[s] = g[s] + (v - fun[a])
      BY <2>1, <2>2, <2>3, <3>1
    <3> QED
      BY <2>1, <2>2, <3>1, <3>2
  <2>4. CASE x # a
    <3>1. (a \in t <=> a \in s) /\ new[x] = fun[x]
      BY <1>4, <2>1, <2>4
    <3>2. h[s] = g[s] + IF a \in s THEN v - fun[a] ELSE 0
      BY <2>1, <2>2, <3>1
    <3> QED
      BY <2>1, <2>2, <3>2
  <2> QED
    BY <2>3, <2>4
<1>6. {} \in G
  BY <1>2, <1>3 DEF Adds
<1>7. S \in G
  <2>1. G \in SUBSET SUBSET S
    OBVIOUS
  <2> HIDE DEF G
  <2> QED
    BY <1>5, <1>6, <2>1, SetInduct
<1>8. h[S] = g[S] + (v - fun[a]) /\ g[S] \in Nat /\ fun[a] \in Nat
  BY <1>7
<1> QED
  BY <1>2, <1>3, <1>8 DEF new

LEMMA SumIsLess ==
    ASSUME NEW S, IsFiniteSet(S), NEW fun \in [S -> Nat], NEW more \in [S -> Nat],
           \A x \in S : fun[x] <= more[x]
    PROVE  SumFunction(fun) <= SumFunction(more)
<1>1. DOMAIN fun = S /\ DOMAIN more = S
  OBVIOUS
<1>2. PICK g : SumFunction(fun) = g[S] /\ Adds(g, fun, S)
  BY <1>1, SumUnfolds
<1>3. PICK h : SumFunction(more) = h[S] /\ Adds(h, more, S)
  BY <1>1, SumUnfolds
<1> DEFINE G == {s \in SUBSET S : g[s] \in Nat /\ h[s] \in Nat /\ g[s] <= h[s]}
<1>4. ASSUME NEW s \in SUBSET S, s # {}, s \ {One(s)} \in G PROVE s \in G
  <2> DEFINE x == One(s)
             t == s \ {x}
  <2>1. /\ g[s] = fun[x] + g[t] /\ h[s] = more[x] + h[t]
        /\ fun[x] \in Nat /\ more[x] \in Nat /\ fun[x] <= more[x]
    BY <1>2, <1>3, <1>4, OneLess DEF Adds
  <2> QED
    BY <1>4, <2>1
<1>5. {} \in G
  BY <1>2, <1>3 DEF Adds
<1>6. S \in G
  <2>1. G \in SUBSET SUBSET S
    OBVIOUS
  <2> HIDE DEF G
  <2> QED
    BY <1>4, <1>5, <2>1, SetInduct
<1> QED
  BY <1>2, <1>3, <1>6

\* Nothing outside of a set, and no more than m for each of its members.
LEMMA SumIsBounded ==
    ASSUME NEW S, IsFiniteSet(S), NEW A \in SUBSET S, NEW m \in Nat, NEW fun \in [S -> Nat],
           \A x \in S : fun[x] <= m, \A x \in S \ A : fun[x] = 0
    PROVE  SumFunction(fun) <= Cardinality(A) * m
<1>1. DOMAIN fun = S
  OBVIOUS
<1>2. PICK g : SumFunction(fun) = g[S] /\ Adds(g, fun, S)
  BY <1>1, SumUnfolds
<1> DEFINE G == {s \in SUBSET S : g[s] \in Nat /\ g[s] <= Cardinality(s \cap A) * m}
<1>3. ASSUME NEW s \in SUBSET S, s # {}, s \ {One(s)} \in G PROVE s \in G
  <2> DEFINE x == One(s)
             t == s \ {x}
  <2>1. /\ g[s] = fun[x] + g[t] /\ x \in s /\ fun[x] \in Nat /\ fun[x] <= m
        /\ x \notin A => fun[x] = 0
        /\ g[t] \in Nat /\ g[t] <= Cardinality(t \cap A) * m
    BY <1>2, <1>3, OneLess DEF Adds
  <2>2. IsFiniteSet(s \cap A) /\ Cardinality(s \cap A) \in Nat
    <3>1. s \cap A \in SUBSET S
      OBVIOUS
    <3> QED
      BY <3>1, FS_Subset, FS_CardinalityType
  <2>3. CASE x \in A
    <3>1. t \cap A = (s \cap A) \ {x} /\ x \in s \cap A
      BY <2>1, <2>3
    <3>2. Cardinality(t \cap A) = Cardinality(s \cap A) - 1
      <4>1. Cardinality((s \cap A) \ {x}) = Cardinality(s \cap A) - 1
        BY <2>2, <3>1, FS_RemoveElement
      <4> QED
        BY <3>1, <4>1
    <3>3. (Cardinality(s \cap A) - 1) * m = Cardinality(s \cap A) * m - m
      BY <2>2
    <3>4. Cardinality(s \cap A) * m \in Nat
      BY <2>2
    <3>5. g[s] \in Nat /\ g[s] <= Cardinality(s \cap A) * m
      BY <2>1, <3>2, <3>3, <3>4
    <3> QED
      BY <3>5
  <2>4. CASE x \notin A
    <3>1. t \cap A = s \cap A /\ fun[x] = 0
      BY <2>1, <2>4
    <3>2. g[s] = g[t]
      BY <2>1, <3>1
    <3> QED
      BY <2>1, <3>1, <3>2
  <2> QED
    BY <2>3, <2>4
<1>4. {} \in G
  <2>1. {} \cap A = {} /\ Cardinality({}) = 0 /\ 0 * m = 0
    BY FS_EmptySet
  <2> QED
    BY <1>2, <2>1 DEF Adds
<1>5. S \in G
  <2>1. G \in SUBSET SUBSET S
    OBVIOUS
  <2> HIDE DEF G
  <2> QED
    BY <1>3, <1>4, <2>1, SetInduct
<1>6. S \cap A = A
  OBVIOUS
<1> QED
  BY <1>2, <1>5, <1>6

-----------------------------------------------------------------------------
(* The quota.                                                                *)

\* The part of a file that counts in Kept.
KeptIn(c) == IF c = Missing THEN 0 ELSE Cardinality({i \in 1..Len(c) : c[i].place >= 0})

\* What a STOR may still put into its file.
RoomOf(s) == IF s \in Admitted THEN MaxUp - (stored[s] - Len(buf[s])) ELSE 0
Room == SumFunction([s \in Session |-> RoomOf(s)])

\* A stream holds no more than came, and of an APPE nothing that counts in Kept.
Buffered(s) ==
    /\ Len(buf[s]) <= stored[s]
    /\ cmd[s].kind = "APPE" => \A i \in 1..Len(buf[s]) : buf[s][i].place < 0

WithinQuota == Quota > 0 /\ peak > 0 => Kept + Room < Quota + peak * MaxUp

QuotaInv == WithinQuota /\ \A s \in Session : Buffered(s)

LEMMA KeptInType ==
    ASSUME NEW c \in Seq(Byte) \cup {Missing}
    PROVE  KeptIn(c) \in Nat /\ (c # Missing => KeptIn(c) <= Len(c))
<1>1. CASE c = Missing
  BY <1>1 DEF KeptIn
<1>2. CASE c # Missing
  <2> DEFINE own == {i \in 1..Len(c) : c[i].place >= 0}
  <2>1. Len(c) \in Nat /\ own \in SUBSET (1..Len(c))
    BY <1>2
  <2>2. IsFiniteSet(1..Len(c)) /\ Cardinality(1..Len(c)) = Len(c)
    <3>1. 1 \in Int /\ Len(c) \in Int
      BY <2>1
    <3>2. /\ IsFiniteSet(1..Len(c))
          /\ Cardinality(1..Len(c)) = IF 1 > Len(c) THEN 0 ELSE Len(c) - 1 + 1
      BY <3>1, FS_Interval
    <3> QED
      BY <2>1, <3>2
  <2>3. IsFiniteSet(own) /\ Cardinality(own) <= Len(c)
    BY <2>1, <2>2, FS_Subset
  <2>4. Cardinality(own) \in Nat
    BY <2>3, FS_CardinalityType
  <2> QED
    BY <1>2, <2>3, <2>4 DEF KeptIn
<1> QED
  BY <1>1, <1>2

LEMMA KeptIsSum == Kept = SumFunction([f \in File |-> KeptIn(content[f])])
BY DEF Kept, KeptIn

LEMMA KeptType ==
    ASSUME TypeOK
    PROVE  Kept \in Nat /\ Total \in Nat /\ Kept <= Total
<1> DEFINE k == [f \in File |-> KeptIn(content[f])]
           l == [f \in File |-> LenOf(f)]
<1>1. \A f \in File : content[f] \in Seq(Byte) \cup {Missing}
  BY DEF TypeOK
<1>2. ASSUME NEW f \in File PROVE KeptIn(content[f]) \in Nat /\ KeptIn(content[f]) <= LenOf(f)
  <2>1. KeptIn(content[f]) \in Nat
    BY <1>1, KeptInType
  <2>2. CASE content[f] = Missing
    BY <2>2 DEF KeptIn, LenOf
  <2>3. CASE content[f] # Missing
    BY <1>1, <2>1, <2>3, KeptInType DEF LenOf
  <2> QED
    BY <2>1, <2>2, <2>3
<1>3. \A f \in File : LenOf(f) \in Nat
  BY LenIsNat
<1>4. k \in [File -> Nat] /\ l \in [File -> Nat] /\ \A f \in File : k[f] <= l[f]
  BY <1>2, <1>3
<1>5. Kept = SumFunction(k) /\ Total = SumFunction(l)
  BY KeptIsSum DEF Total
<1> HIDE DEF k, l
<1> QED
  BY <1>4, <1>5, SetsAreFinite, SumIsNat, SumIsLess

LEMMA KeptChanges ==
    ASSUME TypeOK, NEW f \in File, NEW c \in Seq(Byte), content' = [content EXCEPT ![f] = c]
    PROVE  Kept' = Kept + KeptIn(c) - KeptIn(content[f])
<1> DEFINE k == [g \in File |-> KeptIn(content[g])]
<1>1. k \in [File -> Nat]
  <2>1. \A g \in File : content[g] \in Seq(Byte) \cup {Missing}
    BY DEF TypeOK
  <2> QED
    BY <2>1, KeptInType
<1>2. [g \in File |-> KeptIn(content'[g])] = [k EXCEPT ![f] = KeptIn(c)]
  BY DEF TypeOK
<1>3. KeptIn(c) \in Nat /\ k[f] = KeptIn(content[f])
  BY KeptInType
<1>4. Kept' = SumFunction([g \in File |-> KeptIn(content'[g])])
  BY KeptIsSum DEF Kept, KeptIn
<1>5. Kept = SumFunction(k)
  BY KeptIsSum
<1> HIDE DEF k
<1>6. SumFunction([k EXCEPT ![f] = KeptIn(c)]) = SumFunction(k) + KeptIn(c) - k[f]
  BY <1>1, <1>3, SetsAreFinite, SumChanges
<1> QED
  BY <1>2, <1>3, <1>4, <1>5, <1>6

LEMMA OverwriteKept ==
    ASSUME NEW c \in Seq(Byte), NEW place \in Nat, NEW b \in Seq(Byte), b # <<>>, c # Missing
    PROVE  /\ Overwrite(c, place, b) \in Seq(Byte)
           /\ KeptIn(Overwrite(c, place, b)) <= KeptIn(c) + Len(b)
           /\ (\A i \in 1..Len(b) : b[i].place < 0) => KeptIn(Overwrite(c, place, b)) <= KeptIn(c)
<1>1. PICK o \in Seq(Byte) : o = Overwrite(c, place, b) /\ IsOverwrite(o, c, place, b)
  BY OverwriteDef
<1> DEFINE own == {i \in 1..Len(o) : o[i].place >= 0}
           old == {i \in 1..Len(c) : c[i].place >= 0}
           new == place + 1 .. place + Len(b)
<1>2. Len(b) \in Nat /\ Len(c) \in Nat /\ Len(o) \in Nat
  OBVIOUS
<1>3. o # Missing
  BY MissingIsNoContent
<1>4. KeptIn(o) = Cardinality(own) /\ KeptIn(c) = Cardinality(old)
  BY <1>3 DEF KeptIn
<1>5. ASSUME NEW i \in own PROVE i \in old \/ (i \in new /\ b[i - place].place >= 0)
  <2>1. i \in Nat /\ i \in 1..Len(o)
    BY <1>2
  <2>2. o[i] = IF i \in new THEN b[i - place] ELSE IF i <= Len(c) THEN c[i] ELSE Hole
    BY <1>1, <2>1 DEF IsOverwrite
  <2>3. ~(Hole.place >= 0)
    BY DEF Hole
  <2> QED
    BY <1>2, <2>1, <2>2, <2>3
<1>6. /\ IsFiniteSet(old) /\ IsFiniteSet(new) /\ IsFiniteSet(own) /\ Cardinality(new) = Len(b)
  <2>1. IsFiniteSet(1..Len(c)) /\ IsFiniteSet(1..Len(o))
    BY <1>2, FS_Interval
  <2>2. old \in SUBSET (1..Len(c)) /\ own \in SUBSET (1..Len(o))
    OBVIOUS
  <2>3. IsFiniteSet(old) /\ IsFiniteSet(own)
    BY <2>1, <2>2, FS_Subset
  <2>4. place + 1 \in Int /\ place + Len(b) \in Int
    BY <1>2
  <2>5. IsFiniteSet(new) /\ Cardinality(new) = IF place + 1 > place + Len(b) THEN 0
                                                ELSE (place + Len(b)) - (place + 1) + 1
    BY <2>4, FS_Interval
  <2> QED
    BY <1>2, <2>3, <2>5
<1>7. Cardinality(own) <= Cardinality(old) + Len(b)
  <2>1. own \in SUBSET (old \cup new)
    BY <1>5
  <2> HIDE DEF own, old, new
  <2>2. /\ IsFiniteSet(old \cup new)
        /\ Cardinality(old \cup new) = Cardinality(old) + Cardinality(new) - Cardinality(old \cap new)
    BY <1>6, FS_Union
  <2>3. IsFiniteSet(old \cap new)
    BY <1>6, FS_Intersection
  <2>4. Cardinality(own) <= Cardinality(old \cup new)
    BY <2>1, <2>2, FS_Subset
  <2>5. /\ Cardinality(old \cap new) \in Nat /\ Cardinality(old) \in Nat
        /\ Cardinality(own) \in Nat /\ Cardinality(old \cup new) \in Nat
    BY <1>6, <2>2, <2>3, FS_CardinalityType
  <2> QED
    BY <1>2, <1>6, <2>2, <2>4, <2>5
<1>8. ASSUME \A i \in 1..Len(b) : b[i].place < 0 PROVE Cardinality(own) <= Cardinality(old)
  <2>1. ASSUME NEW i \in new PROVE ~(b[i - place].place >= 0)
    <3>1. i - place \in 1..Len(b)
      BY <1>2
    <3>2. b[i - place] \in Byte /\ b[i - place].place < 0
      BY <1>8, <3>1
    <3>3. b[i - place].place \in Int
      BY <3>2 DEF Byte
    <3> QED
      BY <3>2, <3>3
  <2>2. own \in SUBSET old
    BY <1>5, <2>1
  <2> HIDE DEF own, old
  <2> QED
    BY <1>6, <2>2, FS_Subset
<1> HIDE DEF own, old
<1> QED
  BY <1>1, <1>4, <1>7, <1>8

LEMMA RoomType ==
    ASSUME TypeOK, \A s \in Session : Buffered(s)
    PROVE  /\ \A s \in Session : RoomOf(s) \in Nat /\ RoomOf(s) <= MaxUp
           /\ Room \in Nat /\ Room <= Cardinality(Admitted) * MaxUp
<1> DEFINE r == [s \in Session |-> RoomOf(s)]
<1>1. ASSUME NEW s \in Session PROVE RoomOf(s) \in Nat /\ RoomOf(s) <= MaxUp
  <2>1. stored[s] \in 0..MaxUp /\ buf[s] \in Seq(Byte) /\ Len(buf[s]) <= stored[s]
    BY DEF TypeOK, Buffered
  <2>2. Len(buf[s]) \in Nat
    BY <2>1
  <2> QED
    BY <2>1, <2>2, Bounds DEF RoomOf
<1>2. r \in [Session -> Nat] /\ \A s \in Session : r[s] <= MaxUp
  BY <1>1
<1>3. \A s \in Session \ Admitted : r[s] = 0
  BY DEF RoomOf
<1>4. Room = SumFunction(r) /\ Admitted \in SUBSET Session
  BY DEF Room, Admitted
<1> HIDE DEF r
<1>5. Room \in Nat
  BY <1>2, <1>4, SetsAreFinite, SumIsNat
<1>6. Room <= Cardinality(Admitted) * MaxUp
  BY <1>2, <1>3, <1>4, SetsAreFinite, Bounds, SumIsBounded
<1> QED
  BY <1>1, <1>5, <1>6

LEMMA RoomChanges ==
    ASSUME TypeOK, \A q \in Session : Buffered(q), NEW s \in Session, RoomOf(s)' \in Nat,
           \A q \in Session \ {s} : RoomOf(q)' = RoomOf(q)
    PROVE  Room' = Room + RoomOf(s)' - RoomOf(s)
<1> DEFINE r == [q \in Session |-> RoomOf(q)]
           t == RoomOf(s)'
<1>1. r \in [Session -> Nat]
  BY RoomType
<1>2. [q \in Session |-> RoomOf(q)'] = [r EXCEPT ![s] = t]
  OBVIOUS
<1>3. Room' = SumFunction([q \in Session |-> RoomOf(q)']) /\ Room = SumFunction(r)
  BY DEF Room
<1>4. r[s] = RoomOf(s) /\ t \in Nat
  OBVIOUS
<1> HIDE DEF r, t
<1>5. SumFunction([r EXCEPT ![s] = t]) = SumFunction(r) + t - r[s]
  BY <1>1, <1>4, SetsAreFinite, SumChanges
<1> QED
  BY <1>2, <1>3, <1>4, <1>5 DEF t

LEMMA QuotaTypes ==
    TypeOK /\ (\A s \in Session : Buffered(s)) =>
        /\ Kept \in Nat /\ Total \in Nat /\ Kept <= Total
        /\ \A s \in Session : RoomOf(s) \in Nat /\ RoomOf(s) <= MaxUp
        /\ Room \in Nat /\ Room <= Cardinality(Admitted) * MaxUp
BY KeptType, RoomType

LEMMA QuotaTypesNext ==
    TypeOK' /\ (\A s \in Session : Buffered(s))' =>
        /\ Kept' \in Nat
        /\ \A s \in Session : RoomOf(s)' \in Nat
        /\ Room' \in Nat /\ Room' <= Cardinality(Admitted') * MaxUp
<1>1. TypeOK /\ (\A s \in Session : Buffered(s)) =>
        /\ Kept \in Nat
        /\ \A s \in Session : RoomOf(s) \in Nat
        /\ Room \in Nat /\ Room <= Cardinality(Admitted) * MaxUp
  BY QuotaTypes
<1>2. TypeOK' /\ (\A s \in Session : Buffered(s))' =>
        (/\ Kept \in Nat
         /\ \A s \in Session : RoomOf(s) \in Nat
         /\ Room \in Nat /\ Room <= Cardinality(Admitted) * MaxUp)'
  BY <1>1, PTL
<1> QED
  BY <1>2

\* A step changes the room of its own session only.
LEMMA RoomStep ==
    ASSUME TypeInv, TypeInv', QuotaInv, NEW s \in Session, Command(s) \/ Work(s) \/ Fault(s),
           Buffered(s)'
    PROVE  /\ (\A q \in Session : Buffered(q))'
           /\ Kept \in Nat /\ Kept' \in Nat /\ Room \in Nat /\ Room' \in Nat
           /\ RoomOf(s) \in Nat /\ RoomOf(s)' \in Nat
           /\ Room' = Room + RoomOf(s)' - RoomOf(s)
<1>1. ASSUME NEW q \in Session \ {s} PROVE RoomOf(q)' = RoomOf(q) /\ Buffered(q)'
  <2>1. at'[q] = at[q] /\ cmd'[q] = cmd[q] /\ stored'[q] = stored[q] /\ buf'[q] = buf[q]
    BY EverybodyApart DEF Apart
  <2>2. Buffered(q)
    BY DEF QuotaInv
  <2> QED
    BY <2>1, <2>2 DEF RoomOf, Admitted, Buffered
<1>2. (\A q \in Session : Buffered(q))'
  BY <1>1
<1>3. TypeOK /\ TypeOK' /\ \A q \in Session : Buffered(q)
  BY DEF TypeInv, QuotaInv
<1>4. Kept \in Nat /\ Room \in Nat /\ RoomOf(s) \in Nat
  BY <1>3, QuotaTypes
<1>5. Kept' \in Nat /\ Room' \in Nat /\ RoomOf(s)' \in Nat
  BY <1>2, <1>3, QuotaTypesNext
<1>6. Room' = Room + RoomOf(s)' - RoomOf(s)
  BY <1>1, <1>3, <1>5, RoomChanges
<1> QED
  BY <1>2, <1>4, <1>5, <1>6

LEMMA OwnQuota ==
    ASSUME TypeInv, TypeInv', QuotaInv, NEW s \in Session, Command(s) \/ Work(s) \/ Fault(s),
           Buffered(s)', peak' = peak, Kept' + RoomOf(s)' <= Kept + RoomOf(s)
    PROVE  QuotaInv'
<1>1. /\ (\A q \in Session : Buffered(q))'
      /\ Kept \in Nat /\ Kept' \in Nat /\ Room \in Nat /\ Room' \in Nat
      /\ RoomOf(s) \in Nat /\ RoomOf(s)' \in Nat
      /\ Room' = Room + RoomOf(s)' - RoomOf(s)
  BY RoomStep
<1>2. Kept' + Room' <= Kept + Room
  BY <1>1
<1>3. peak * MaxUp \in Int /\ Quota \in Nat
  BY BoundsAreNat DEF TypeInv, TypeOK
<1>4. WithinQuota'
  BY <1>1, <1>2, <1>3 DEF WithinQuota, QuotaInv
<1> QED
  BY <1>1, <1>4 DEF QuotaInv

LEMMA SameKept == ASSUME content' = content PROVE Kept' = Kept
BY DEF Kept

\* Nothing is received or written.
LEMMA QuietQuota ==
    ASSUME TypeInv, TypeInv', QuotaInv, NEW s \in Session, Command(s) \/ Work(s) \/ Fault(s),
           content' = content, buf' = buf, stored' = stored, cmd' = cmd, peak' = peak,
           at[s] = "idle" => at'[s] = "idle"
    PROVE  QuotaInv'
<1>1. Buffered(s)'
  BY DEF QuotaInv, Buffered
<1>2. Kept \in Nat /\ RoomOf(s) \in Nat /\ Kept' = Kept /\ RoomOf(s)' \in Nat
  BY <1>1, RoomStep, SameKept
<1>3. RoomOf(s)' = RoomOf(s) \/ RoomOf(s)' = 0
  BY DEF RoomOf, Admitted
<1> QED
  BY <1>1, <1>2, <1>3, OwnQuota

LEMMA QuietSteps ==
    ASSUME TypeInv, TypeInv', QuotaInv, NEW s \in Session,
           \/ \E n \in 0..MaxRest : Rest(s, n)
           \/ \E f \in File, kind \in Kinds : RefuseRest(s, kind, f)
           \/ GiveUp(s) \/ Connect(s) \/ OpenDownload(s)
           \/ \E n \in 1..Chunk : Sendfile(s, n) \/ SendMapped(s, n) \/ ReadAndSend(s, n)
           \/ SendfileStops(s) \/ MmapStops(s) \/ ReadStops(s) \/ EndEarly(s) \/ Spin(s)
           \/ DiskError(s) \/ Disconnect(s) \/ SendTimesOut(s)
    PROVE  QuotaInv'
<1> USE DEF disk, session, upload
<1>1. content' = content /\ buf' = buf /\ stored' = stored /\ cmd' = cmd /\ peak' = peak
  <2>1. CASE \E n \in 1..Chunk : Sendfile(s, n) \/ SendMapped(s, n) \/ ReadAndSend(s, n)
    BY <2>1 DEF Sendfile, SendMapped, ReadAndSend
  <2>2. CASE \/ \E n \in 0..MaxRest : Rest(s, n)
             \/ \E f \in File, kind \in Kinds : RefuseRest(s, kind, f)
             \/ GiveUp(s) \/ Connect(s)
    BY <2>2 DEF Rest, RefuseRest, GiveUp, Connect
  <2>3. CASE OpenDownload(s) \/ SendfileStops(s) \/ MmapStops(s) \/ ReadStops(s)
    BY <2>3 DEF OpenDownload, SendfileStops, MmapStops, ReadStops
  <2>4. CASE EndEarly(s) \/ Spin(s) \/ DiskError(s) \/ Disconnect(s) \/ SendTimesOut(s)
    BY <2>4 DEF EndEarly, Spin, vars, DiskError, Disconnect, SendTimesOut
  <2> QED
    BY <2>1, <2>2, <2>3, <2>4
<1>2. at[s] = "idle" => at'[s] = "idle"
  BY DEF Rest, RefuseRest, GiveUp, Connect, OpenDownload, Sendfile, SendMapped, ReadAndSend,
         SendfileStops, MmapStops, ReadStops, EndEarly, Spin, DiskError, Disconnect,
         SendTimesOut, Abandon, vars
<1>3. Command(s) \/ Work(s) \/ Fault(s)
  <2> HIDE DEF disk, session, upload
  <2> QED
    BY DEF Command, Work, Fault, Kinds
<1> QED
  BY <1>1, <1>2, <1>3, QuietQuota

LEMMA OpenQuota ==
    ASSUME TypeInv, TypeInv', QuotaInv, NEW s \in Session, NEW w, OpenUpload(s, w)
    PROVE  QuotaInv'
<1> DEFINE f == cmd[s].file
<1>0. Command(s) \/ Work(s) \/ Fault(s)
  <2>1. w \in {"trunc", "update", "append"}
    BY DEF OpenUpload, OpensAs, TypeInv, TypeOK
  <2> QED
    BY <2>1 DEF Work
<1>1. TypeOK /\ f \in File /\ at[s] = "open" /\ buf[s] = <<>>
  BY DEF OpenUpload, TypeInv, TypeOK
<1>2. at'[s] = "recv" /\ cmd' = cmd /\ stored' = stored /\ buf'[s] = <<>> /\ peak' = peak
  BY <1>1 DEF OpenUpload, TypeOK
<1>3. Buffered(s)'
  BY <1>1, <1>2 DEF QuotaInv, Buffered
<1>4. Kept \in Nat /\ RoomOf(s) \in Nat /\ Kept' \in Nat /\ RoomOf(s)' \in Nat
  BY <1>0, <1>3, RoomStep
<1>5. RoomOf(s)' = RoomOf(s)
  BY <1>1, <1>2 DEF RoomOf, Admitted
<1>6. Kept' <= Kept
  <2>1. CASE w = "trunc"
    <3>1. content' = [content EXCEPT ![f] = <<>>]
      BY <2>1 DEF OpenUpload
    <3>2. <<>> \in Seq(Byte) /\ content[f] \in Seq(Byte) \cup {Missing}
      BY <1>1 DEF TypeOK
    <3>3. Kept' = Kept + KeptIn(<<>>) - KeptIn(content[f])
      BY <1>1, <3>1, <3>2, KeptChanges
    <3>4. KeptIn(content[f]) \in Nat /\ KeptIn(<<>>) \in Nat /\ KeptIn(<<>>) <= 0
      <4>1. KeptIn(content[f]) \in Nat
        BY <3>2, KeptInType
      <4>2. KeptIn(<<>>) \in Nat /\ KeptIn(<<>>) <= Len(<<>>)
        BY <3>2, KeptInType, MissingIsNoContent
      <4> QED
        BY <4>1, <4>2
    <3> QED
      BY <1>4, <3>3, <3>4
  <2>2. CASE w # "trunc"
    <3>1. content' = content
      BY <1>1, <2>2 DEF OpenUpload, TypeOK
    <3> QED
      BY <1>4, <3>1, SameKept
  <2> QED
    BY <2>1, <2>2
<1> QED
  BY <1>0, <1>2, <1>3, <1>4, <1>5, <1>6, OwnQuota

LEMMA DiskFullQuota ==
    ASSUME TypeInv, TypeInv', QuotaInv, NEW s \in Session, DiskFull(s)
    PROVE  QuotaInv'
<1>0. Command(s) \/ Work(s) \/ Fault(s)
  BY DEF Fault
<1>1. /\ content' = content /\ at' = at /\ cmd' = cmd /\ stored' = stored /\ peak' = peak
      /\ buf'[s] = <<>> /\ buf[s] \in Seq(Byte) /\ stored[s] \in 0..MaxUp
  BY DEF DiskFull, disk, session, TypeInv, TypeOK
<1>2. Len(buf[s]) \in Nat /\ stored[s] \in Nat /\ Len(buf'[s]) = 0
  BY <1>1, Bounds
<1>3. Buffered(s)'
  BY <1>1, <1>2 DEF Buffered
<1>4. Kept \in Nat /\ RoomOf(s) \in Nat /\ RoomOf(s)' \in Nat /\ Kept' = Kept
  BY <1>0, <1>1, <1>3, RoomStep, SameKept
<1>5. RoomOf(s)' <= RoomOf(s)
  BY <1>1, <1>2, Bounds DEF RoomOf, Admitted
<1> QED
  BY <1>0, <1>1, <1>3, <1>4, <1>5, OwnQuota

\* What a part of an upload does with the bytes that came, n of them just now.
Uploads(s, b, n) ==
    /\ Len(b) = Len(buf[s]) + n
    /\ cmd[s].kind = "APPE" => \A i \in 1..Len(b) : b[i].place < 0
    /\ stored'[s] = stored[s] + n
    /\ \/ buf'[s] = b /\ at'[s] = at[s] /\ content' = content
       \/ buf'[s] = <<>> /\ Flush(s, b)

LEMMA UploadsSomething ==
    ASSUME TypeInv, QuotaInv, NEW s \in Session,
           Finish(s) \/ ReceiveFails(s) \/ \E n \in 1..Chunk, keep \in BOOLEAN : Receive(s, n, keep)
    PROVE  \E b \in Seq(Byte), n \in Nat : Uploads(s, b, n)
<1>0. /\ buf[s] \in Seq(Byte) /\ stored[s] \in Nat /\ TypeOK /\ Len(buf[s]) \in Nat
      /\ cmd[s].kind = "APPE" => \A i \in 1..Len(buf[s]) : buf[s][i].place < 0
  <2>1. TypeOK /\ buf[s] \in Seq(Byte) /\ stored[s] \in 0..MaxUp
    BY DEF TypeInv, TypeOK
  <2> QED
    BY <2>1, Bounds DEF QuotaInv, Buffered
<1>1. CASE Finish(s) \/ ReceiveFails(s)
  <2>1. buf'[s] = <<>> /\ Flush(s, buf[s]) /\ stored' = stored
    BY <1>0, <1>1 DEF Finish, ReceiveFails, CloseFile, TypeOK
  <2>2. Len(buf[s]) = Len(buf[s]) + 0 /\ stored[s] = stored[s] + 0
    BY <1>0
  <2>3. Uploads(s, buf[s], 0)
    BY <1>0, <2>1, <2>2 DEF Uploads
  <2> QED
    BY <1>0, <2>3
<1>2. ASSUME NEW n \in 1..Chunk, NEW keep \in BOOLEAN, Receive(s, n, keep)
      PROVE  \E b \in Seq(Byte), m \in Nat : Uploads(s, b, m)
  <2> DEFINE d == [k \in 1..n |-> Sent(s, stored[s] + k)]
  <2>1. n \in Nat
    BY Bounds
  <2>2. d \in Seq(Byte) /\ Len(d) = n /\ \A k \in 1..n : d[k] = Sent(s, stored[s] + k)
    <3>1. \A k \in 1..n : Sent(s, stored[s] + k) \in Byte
      BY <1>0, <2>1, SentIsByte
    <3> QED
      BY <2>1, <3>1
  <2>3. /\ stored'[s] = stored[s] + n /\ at' = at
        /\ \/ buf'[s] = buf[s] \o d /\ content' = content
           \/ buf'[s] = <<>> /\ Flush(s, buf[s] \o d)
    BY <1>0, <1>2 DEF Receive, disk, TypeOK
  <2> HIDE DEF d
  <2>4. cmd[s].kind = "APPE" => \A k \in 1..Len(d) : d[k].place < 0
    <3>1. ASSUME cmd[s].kind = "APPE", NEW k \in 1..Len(d) PROVE d[k].place < 0
      <4>1. d[k] = Sent(s, stored[s] + k) /\ k \in 1..n
        BY <2>2
      <4>2. d[k].place = -(stored[s] + k)
        BY <3>1, <4>1 DEF Sent
      <4> QED
        BY <1>0, <2>1, <4>1, <4>2
    <3> QED
      BY <3>1
  <2>5. PICK b \in Seq(Byte) : b = buf[s] \o d /\ IsConcat(b, buf[s], d)
    BY <1>0, <2>2, ConcatDef
  <2>6. Len(b) = Len(buf[s]) + n
    BY <2>2, <2>5 DEF IsConcat
  <2>7. ASSUME cmd[s].kind = "APPE", NEW i \in 1..Len(b) PROVE b[i].place < 0
    <3>1. CASE i <= Len(buf[s])
      <4>1. i \in 1..Len(buf[s]) /\ b[i] = buf[s][i]
        BY <1>0, <2>1, <2>5, <2>6, <3>1 DEF IsConcat
      <4> QED
        BY <1>0, <2>7, <4>1
    <3>2. CASE ~(i <= Len(buf[s]))
      <4>1. i - Len(buf[s]) \in 1..Len(d) /\ b[i] = d[i - Len(buf[s])]
        BY <1>0, <2>1, <2>2, <2>5, <2>6, <3>2 DEF IsConcat
      <4> QED
        BY <2>4, <2>7, <4>1
    <3> QED
      BY <3>1, <3>2
  <2>8. Uploads(s, b, n)
    BY <2>3, <2>5, <2>6, <2>7 DEF Uploads
  <2> QED
    BY <2>1, <2>8
<1> QED
  BY <1>1, <1>2

\* What the written bytes add to the home.
LEMMA FlushKept ==
    ASSUME TypeInv, NEW s \in Session, at[s] = "recv", NEW b \in Seq(Byte), Flush(s, b),
           Kept \in Nat
    PROVE  /\ Kept' <= Kept + Len(b)
           /\ (\A i \in 1..Len(b) : b[i].place < 0) => Kept' <= Kept
<1> DEFINE f == cmd[s].file
<1>1. Len(b) \in Nat
  OBVIOUS
<1>2. CASE UNCHANGED <<disk, others, pos>>
  <2>1. Kept' = Kept
    BY <1>2, SameKept DEF disk
  <2> QED
    BY <1>1, <2>1
<1>3. CASE b # <<>> /\ content' = [content EXCEPT ![cmd[s].file] = Overwrite(@, PlaceOf(s), b)]
  <2>1. TypeOK /\ f \in File /\ content[f] # Missing /\ content[f] \in Seq(Byte)
    BY DEF TypeInv, TypeOK, StageInv
  <2>2. PlaceOf(s) \in Nat
    <3>1. LenOf(f) \in Nat /\ pos[s] \in Nat
      BY <2>1, LenIsNat DEF TypeOK
    <3> QED
      BY <3>1 DEF PlaceOf
  <2> DEFINE o == Overwrite(content[f], PlaceOf(s), b)
  <2>3. /\ o \in Seq(Byte)
        /\ KeptIn(o) <= KeptIn(content[f]) + Len(b)
        /\ (\A i \in 1..Len(b) : b[i].place < 0) => KeptIn(o) <= KeptIn(content[f])
    BY <1>3, <2>1, <2>2, OverwriteKept
  <2>4. content' = [content EXCEPT ![f] = o]
    BY <1>3, <2>1 DEF TypeOK
  <2> HIDE DEF o, f
  <2>5. Kept' = Kept + KeptIn(o) - KeptIn(content[f])
    BY <2>1, <2>3, <2>4, KeptChanges
  <2>6. KeptIn(o) \in Nat /\ KeptIn(content[f]) \in Nat
    BY <2>1, <2>3, KeptInType
  <2> QED
    BY <1>1, <2>3, <2>5, <2>6
<1> QED
  BY <1>2, <1>3 DEF Flush

LEMMA NoMore ==
    ASSUME NEW k \in Nat, NEW r \in Nat, NEW m \in Nat, NEW q \in Nat, NEW d \in Nat,
           m <= k + d, q + d <= r
    PROVE  m + q <= k + r
OBVIOUS

LEMMA StillRoom ==
    ASSUME NEW m \in Nat, NEW k \in Nat, NEW l \in Nat, NEW n \in Nat, k + n <= m,
           NEW r, r = m - (k + n) \/ r = 0
    PROVE  r + (l + n) <= m - (k - l)
OBVIOUS

LEMMA UploadQuota ==
    ASSUME TypeInv, TypeInv', QuotaInv, NEW s \in Session,
           Finish(s) \/ ReceiveFails(s) \/ \E n \in 1..Chunk, keep \in BOOLEAN : Receive(s, n, keep)
    PROVE  QuotaInv'
<1>0. Command(s) \/ Work(s) \/ Fault(s)
  BY DEF Work, Fault
<1>1. /\ at[s] = "recv" /\ cmd' = cmd /\ peak' = peak
      /\ at'[s] \in {"recv", "idle"}
  BY DEF Finish, ReceiveFails, Receive, End, session, TypeInv, TypeOK
<1>2. PICK b \in Seq(Byte), n \in Nat : Uploads(s, b, n)
  BY UploadsSomething
<1>3. /\ stored[s] \in 0..MaxUp /\ stored'[s] \in 0..MaxUp /\ buf[s] \in Seq(Byte)
      /\ cmd[s].kind \in {"STOR", "APPE"}
  <2>1. stored[s] \in 0..MaxUp /\ buf[s] \in Seq(Byte)
    BY DEF TypeInv, TypeOK
  <2>2. stored'[s] \in 0..MaxUp
    BY DEF TypeInv, TypeOK
  <2>3. cmd[s].kind \in {"STOR", "APPE"}
    BY <1>1 DEF TypeInv, StageInv, Kinds
  <2> QED
    BY <2>1, <2>2, <2>3
<1>4. /\ Len(buf[s]) \in Nat /\ Len(b) \in Nat /\ stored[s] \in Nat /\ MaxUp \in Nat
      /\ Len(b) = Len(buf[s]) + n /\ Len(buf[s]) <= stored[s] /\ stored'[s] = stored[s] + n
      /\ stored[s] + n <= MaxUp
  BY <1>2, <1>3, Bounds DEF Uploads, QuotaInv, Buffered
<1>5. Buffered(s)'
  <2>1. CASE buf'[s] = b
    <3>1. Len(buf'[s]) <= stored'[s]
      BY <1>4, <2>1
    <3> QED
      BY <1>1, <1>2, <2>1, <3>1 DEF Uploads, Buffered
  <2>2. CASE buf'[s] = <<>>
    <3>1. Len(buf'[s]) = 0
      BY <2>2
    <3> QED
      BY <1>4, <3>1 DEF Buffered
  <2> QED
    BY <1>2, <2>1, <2>2 DEF Uploads
<1>6. Kept \in Nat /\ RoomOf(s) \in Nat /\ Kept' \in Nat /\ RoomOf(s)' \in Nat
  BY <1>0, <1>5, RoomStep
<1>7. Kept' + RoomOf(s)' <= Kept + RoomOf(s)
  <2>1. CASE buf'[s] = b /\ at'[s] = at[s] /\ content' = content
    <3>1. Kept' = Kept
      BY <2>1, SameKept
    <3>2. stored'[s] - Len(buf'[s]) = stored[s] - Len(buf[s])
      BY <1>4, <2>1
    <3>3. RoomOf(s)' = RoomOf(s)
      BY <1>1, <2>1, <3>2 DEF RoomOf, Admitted
    <3> QED
      BY <1>6, <3>1, <3>3
  <2>2. CASE buf'[s] = <<>> /\ Flush(s, b)
    <3>1. /\ Kept' <= Kept + Len(b)
          /\ (\A i \in 1..Len(b) : b[i].place < 0) => Kept' <= Kept
      BY <1>1, <1>6, <2>2, FlushKept
    <3>2. CASE cmd[s].kind = "APPE"
      <4>1. Kept' <= Kept
        BY <1>2, <3>1, <3>2 DEF Uploads
      <4>2. RoomOf(s) = 0 /\ RoomOf(s)' = 0
        BY <1>1, <3>2 DEF RoomOf, Admitted
      <4>3. Kept' <= Kept + 0 /\ RoomOf(s)' + 0 <= RoomOf(s)
        BY <1>6, <4>1, <4>2
      <4> QED
        BY <1>6, <4>3, NoMore
    <3>3. CASE cmd[s].kind = "STOR"
      <4>1. RoomOf(s) = MaxUp - (stored[s] - Len(buf[s]))
        BY <1>1, <3>3 DEF RoomOf, Admitted
      <4>2. Len(buf'[s]) = 0
        BY <2>2
      <4>3. RoomOf(s)' = MaxUp - stored'[s] \/ RoomOf(s)' = 0
        <5>1. RoomOf(s)' = MaxUp - (stored'[s] - Len(buf'[s])) \/ RoomOf(s)' = 0
          BY DEF RoomOf
        <5>2. MaxUp - (stored'[s] - 0) = MaxUp - stored'[s]
          BY <1>4
        <5> QED
          BY <4>2, <5>1, <5>2
      <4>4. RoomOf(s)' + Len(b) <= RoomOf(s)
        <5>1. RoomOf(s)' = MaxUp - (stored[s] + n) \/ RoomOf(s)' = 0
          BY <1>4, <4>3
        <5>2. RoomOf(s)' + (Len(buf[s]) + n) <= MaxUp - (stored[s] - Len(buf[s]))
          BY <1>4, <5>1, StillRoom
        <5> QED
          BY <1>4, <4>1, <5>2
      <4> QED
        BY <1>4, <1>6, <3>1, <4>4, NoMore
    <3> QED
      BY <1>3, <3>2, <3>3
  <2> QED
    BY <1>2, <2>1, <2>2 DEF Uploads
<1> QED
  BY <1>0, <1>1, <1>5, <1>7, OwnQuota

LEMMA TimesGrows ==
    ASSUME NEW a \in Nat, NEW b \in Nat, NEW m \in Nat, a <= b
    PROVE  a * m \in Nat /\ b * m \in Nat /\ a * m <= b * m
<1>1. PICK d \in Nat : b = a + d
  <2>1. b - a \in Nat /\ b = a + (b - a)
    OBVIOUS
  <2> QED
    BY <2>1
<1>2. d * m \in Nat /\ a * m \in Nat /\ (a + d) * m = a * m + d * m
  OBVIOUS
<1> QED
  BY <1>1, <1>2

\* The quota is tested when a command starts.
LEMMA StartQuota ==
    ASSUME TypeInv, TypeInv', QuotaInv, NEW s \in Session,
           NEW f \in File, NEW kind \in Kinds, NEW z \in BOOLEAN, NEW n \in 0..MaxUp,
           Start(s, kind, f, z, n)
    PROVE  QuotaInv'
<1>0. Command(s) \/ Work(s) \/ Fault(s)
  <2>1. kind \in {"RETR", "STOR", "APPE"}
    BY DEF Kinds
  <2>2. \E g \in File, k \in {"RETR", "STOR", "APPE"} :
          RefuseRest(s, k, g) \/ \E y \in BOOLEAN, m \in 0..MaxUp : Start(s, k, g, y, m)
    BY <2>1
  <2>3. Command(s)
    BY <2>2, Zenon DEF Command
  <2> QED
    BY <2>3
<1>1. /\ TypeOK /\ TypeOK' /\ at[s] = "idle" /\ content' = content /\ buf' = buf
      /\ at' = [at EXCEPT ![s] = "wait"]
      /\ cmd' = [cmd EXCEPT ![s] = [kind |-> kind, file |-> f, z |-> z]]
      /\ stored'[s] = 0
  <2>1. TypeOK /\ TypeOK'
    BY DEF TypeInv
  <2>2. /\ at[s] = "idle" /\ content' = content /\ buf' = buf
        /\ at' = [at EXCEPT ![s] = "wait"]
        /\ cmd' = [cmd EXCEPT ![s] = [kind |-> kind, file |-> f, z |-> z]]
        /\ stored' = [stored EXCEPT ![s] = 0]
    BY DEF Start, disk
  <2>3. stored'[s] = 0
    BY <2>1, <2>2 DEF TypeOK
  <2> QED
    BY <2>1, <2>2, <2>3
<1>2. buf'[s] = <<>> /\ at'[s] = "wait" /\ cmd'[s].kind = kind
  BY <1>1 DEF TypeOK
<1>3. Buffered(s)'
  <2>1. Len(buf'[s]) = 0
    BY <1>2
  <2> QED
    BY <1>1, <2>1 DEF Buffered
<1>4. /\ (\A q \in Session : Buffered(q))' /\ Kept' = Kept
      /\ Kept \in Nat /\ RoomOf(s) \in Nat /\ Kept' \in Nat /\ RoomOf(s)' \in Nat
      /\ Room' \in Nat
  BY <1>0, <1>1, <1>3, RoomStep, SameKept
<1>5. CASE kind # "STOR"
  <2>1. RoomOf(s)' = 0
    BY <1>2, <1>5 DEF RoomOf, Admitted
  <2>2. peak' = peak
    BY <1>5 DEF Start
  <2>3. Kept' <= Kept + 0 /\ RoomOf(s)' + 0 <= RoomOf(s)
    BY <1>4, <2>1
  <2>4. Kept' + RoomOf(s)' <= Kept + RoomOf(s)
    BY <1>4, <2>3, NoMore
  <2> QED
    BY <1>0, <1>3, <2>2, <2>4, OwnQuota
<1>6. CASE kind = "STOR"
  <2>1. peak' = Larger(peak, Cardinality(Admitted \cup {s}))
    BY <1>6 DEF Start
  <2>2. Admitted' = Admitted \cup {s}
    <3>1. ASSUME NEW q \in Session PROVE q \in Admitted' <=> q \in Admitted \cup {s}
      BY <1>1, <1>2, <1>6 DEF Admitted, TypeOK
    <3>2. Admitted' \in SUBSET Session /\ Admitted \cup {s} \in SUBSET Session
      BY DEF Admitted
    <3> QED
      BY <3>1, <3>2
  <2>3. Cardinality(Admitted') \in Nat /\ peak \in Nat /\ peak' \in Nat
    BY <1>1, <2>2, PeakIsNat DEF TypeOK
  <2>4. Cardinality(Admitted') <= peak'
    BY <2>1, <2>2, <2>3 DEF Larger
  <2>5. Room' <= Cardinality(Admitted') * MaxUp
    BY <1>1, <1>4, QuotaTypesNext
  <2>6. /\ Cardinality(Admitted') * MaxUp \in Nat /\ peak' * MaxUp \in Nat
        /\ Cardinality(Admitted') * MaxUp <= peak' * MaxUp
    BY <2>3, <2>4, Bounds, TimesGrows
  <2>7. Quota > 0 => Kept < Quota
    <3>1. Quota \in Nat /\ (Quota = 0 \/ Total < Quota)
      BY <1>6, BoundsAreNat DEF Start, Allowed
    <3>2. Total \in Nat /\ Kept <= Total
      BY <1>1, KeptType
    <3> QED
      BY <1>4, <3>1, <3>2
  <2>8. Quota \in Nat
    BY BoundsAreNat
  <2>9. WithinQuota'
    BY <1>4, <2>5, <2>6, <2>7, <2>8 DEF WithinQuota
  <2> QED
    BY <1>4, <2>9 DEF QuotaInv
<1> QED
  BY <1>5, <1>6

LEMMA QuotaStep == TypeInv /\ TypeInv' /\ QuotaInv /\ [Next]_vars => QuotaInv'
<1> SUFFICES ASSUME TypeInv, TypeInv', QuotaInv, [Next]_vars PROVE QuotaInv'
  OBVIOUS
<1>1. CASE UNCHANGED vars
  <2>1. /\ UNCHANGED <<content, at, cmd, stored, buf, peak>>
    BY <1>1 DEF vars, disk, session, upload
  <2>2. UNCHANGED <<Kept, Admitted>>
    BY <2>1 DEF Kept, Admitted
  <2>3. \A q \in Session : RoomOf(q)' = RoomOf(q) /\ (Buffered(q)' <=> Buffered(q))
    BY <2>1, <2>2 DEF RoomOf, Buffered
  <2>4. Room' = Room
    BY <2>3 DEF Room
  <2> QED
    BY <2>1, <2>2, <2>3, <2>4 DEF QuotaInv, WithinQuota
<1>2. CASE Terminated
  BY <1>1, <1>2 DEF Terminated
<1>3. ASSUME NEW s \in Session, Command(s) \/ Work(s) \/ Fault(s) PROVE QuotaInv'
  BY <1>3, QuietSteps, StartQuota, OpenQuota, UploadQuota, DiskFullQuota
     DEF Command, Work, Fault, Kinds
<1> QED
  BY <1>1, <1>2, <1>3 DEF Next

LEMMA QuotaBegins == Init => QuotaInv
<1> SUFFICES ASSUME Init PROVE QuotaInv
  OBVIOUS
<1>1. ASSUME NEW s \in Session PROVE Buffered(s)
  <2>1. Len(buf[s]) = 0 /\ stored[s] = 0
    BY DEF Init
  <2> QED
    BY <2>1 DEF Buffered
<1>2. WithinQuota
  BY DEF Init, WithinQuota
<1> QED
  BY <1>1, <1>2 DEF QuotaInv

\* The quota is tested when STOR starts, while others that passed the test may still be
\* storing: what the home holds exceeds it by less than all of them can bring, however
\* they overlap and wherever the stream of each one stands (handleSTOR).
THEOREM QuotaIsOvershotByAdmitted == Spec => []QuotaOvershoot
<1>1. Init => TypeInv /\ QuotaInv
  BY InitType, QuotaBegins
<1>2. TypeInv /\ QuotaInv /\ [Next]_vars => (TypeInv /\ QuotaInv)'
  BY StepType, QuotaStep
<1>3. TypeInv /\ QuotaInv => QuotaOvershoot
  <2> SUFFICES ASSUME TypeInv, QuotaInv, Quota > 0, peak > 0
               PROVE  Kept < Quota + peak * MaxUp
    BY DEF QuotaOvershoot
  <2>1. Kept \in Nat /\ Room \in Nat
    BY QuotaTypes DEF QuotaInv, TypeInv
  <2>2. Kept + Room < Quota + peak * MaxUp
    BY DEF QuotaInv, WithinQuota
  <2>3. peak * MaxUp \in Nat /\ Quota \in Nat
    BY BoundsAreNat DEF TypeInv, TypeOK
  <2> QED
    BY <2>1, <2>2, <2>3
<1> QED
  BY <1>1, <1>2, <1>3, PTL DEF Spec
===============================================================================
