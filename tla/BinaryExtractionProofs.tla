------------------------ MODULE BinaryExtractionProofs ------------------------
(***************************************************************************)
(* Proofs about BinaryExtraction, for any number of processes, files and   *)
(* releases of any size.                                                   *)
(***************************************************************************)
EXTENDS BinaryExtraction, TLAPS

(***************************************************************************)
(* The invariant. InstalledIsWhole is not inductive, for it says nothing of *)
(* the temporary file that will be installed: AloneInv follows that file    *)
(* chunk by chunk while its writer is alone. WholeUnlessMixed needs to know  *)
(* what is still to come: a release of which a file has one chunk is there   *)
(* from that chunk to its end, or Owes names the process that writes the     *)
(* rest. The process that truncated last began with the first chunk.         *)
(***************************************************************************)
LocalInv ==
    \A p \in Active :
        /\ fd[p] \in Inode
        /\ version[p] \in Version
        /\ pc[p] = "write" => next[p] <= Size[version[p]]
        /\ pc[p] = "install" => next[p] = Size[version[p]] + 1

\* Only what is renamed is executed.
NameInv == tmp # None => tmp # dest /\ tmp \notin running

AloneInv ==
    \A p \in Active \ overlapped :
        /\ Active = {p}
        /\ tmp = fd[p]
        /\ \A k \in Position :
              chunk[tmp][k] = IF k < next[p] THEN version[p] ELSE None

RaceInv == ~raced => ~torn /\ Active \cap overlapped = {}

Owes(p, i, k) ==
    pc[p] = "write" /\ fd[p] = i /\ next[p] <= k /\ k <= Size[version[p]]

Coming(i, k) == chunk[i][k] # None \/ \E p \in Process : Owes(p, i, k)

Covered(i) ==
    /\ 1 \in Position /\ Coming(i, 1)
    /\ \A k \in Position : chunk[i][k] # None =>
          /\ k <= Size[chunk[i][k]]
          /\ \A l \in k .. Size[chunk[i][k]] : Coming(i, l)

CoverInv ==
    ~torn => /\ dest # None => Covered(dest)
             /\ tmp # None /\ Active # {} => Covered(tmp)

IInv ==
    /\ LocalInv
    /\ NameInv
    /\ AloneInv
    /\ RaceInv
    /\ InstalledIsWhole
    /\ CoverInv

-----------------------------------------------------------------------------
(* Type correctness.                                                       *)

LEMMA EmptyType == Empty \in [Position -> Version \cup {None}]
  BY DEF Empty

LEMMA InitHolds == Init => TypeOK /\ IInv
<1> SUFFICES ASSUME Init PROVE TypeOK /\ IInv
  OBVIOUS
<1>1. TypeOK
  <2>1. next \in [Process -> 1 .. MaxSize + 1]
    BY MaxSizeAssumption DEF Init
  <2>2. raced \in BOOLEAN /\ torn \in BOOLEAN
    BY DEF Init
  <2> QED
    BY <2>1, <2>2, EmptyType DEF Init, TypeOK
<1>2. Active = {}
  BY DEF Init, Active
<1>3. IInv
  BY <1>2 DEF Init, IInv, LocalInv, NameInv, AloneInv, RaceInv,
     InstalledIsWhole, CoverInv
<1> QED
  BY <1>1, <1>3

LEMMA LaunchType ==
    ASSUME TypeOK, NEW p \in Process, NEW v \in Version, Launch(p, v)
    PROVE  TypeOK'
<1>1. raced' \in BOOLEAN
  BY DEF Launch, TypeOK
<1>2. torn' \in BOOLEAN
  BY DEF Launch, TypeOK
<1>3. PICK i \in Inode : /\ fd' = [fd EXCEPT ![p] = i]
                         /\ chunk' = TruncatedAt(i)
                         /\ tmp' = i
  BY DEF Launch
<1>4. chunk' \in [Inode -> [Position -> Version \cup {None}]]
  BY <1>3, EmptyType DEF TruncatedAt, TypeOK
<1>5. next' \in [Process -> 1 .. MaxSize + 1]
  BY MaxSizeAssumption DEF Launch, TypeOK
<1>6. overlapped' \subseteq Process
  BY DEF Launch, Active, TypeOK
<1> QED
  BY <1>1, <1>2, <1>3, <1>4, <1>5, <1>6 DEF Launch, TypeOK

LEMMA WriteFacts ==
    ASSUME TypeOK, LocalInv, NEW p \in Process, pc[p] = "write"
    PROVE  /\ fd[p] \in Inode
           /\ version[p] \in Version
           /\ next[p] \in Position
           /\ next[p] <= Size[version[p]]
           /\ Size[version[p]] \in Position
<1>1. p \in Active
  BY DEF Active
<1>2. Size[version[p]] \in Position
  BY <1>1, SizeAssumption DEF LocalInv, Position
<1>3. next[p] \in 1 .. MaxSize + 1
  BY DEF TypeOK
<1> QED
  BY <1>1, <1>2, <1>3, MaxSizeAssumption DEF LocalInv, Position

LEMMA WriteType ==
    ASSUME TypeOK, LocalInv, NEW p \in Process, WriteChunk(p)
    PROVE  TypeOK'
<1>1. pc[p] = "write"
  BY DEF WriteChunk
<1>2. fd[p] \in Inode /\ version[p] \in Version /\ next[p] \in Position
  BY <1>1, WriteFacts
<1>3. chunk' \in [Inode -> [Position -> Version \cup {None}]]
  BY <1>2 DEF WriteChunk, TypeOK
<1>4. next' \in [Process -> 1 .. MaxSize + 1]
  BY <1>2, MaxSizeAssumption DEF WriteChunk, TypeOK, Position
<1>5. pc' \in [Process -> {"idle", "write", "install", "ok"}]
  BY DEF WriteChunk, TypeOK
<1>6. raced' \in BOOLEAN /\ torn' \in BOOLEAN
  BY DEF WriteChunk, TypeOK, history
<1> QED
  BY <1>3, <1>4, <1>5, <1>6 DEF WriteChunk, TypeOK, history

LEMMA CutShortType ==
    ASSUME TypeOK, NEW p \in Process, CutShort(p)
    PROVE  TypeOK'
<1>1. torn' \in BOOLEAN
  BY DEF CutShort, TypeOK
<1>2. raced' \in BOOLEAN
  BY DEF CutShort, TypeOK
<1> QED
  BY <1>1, <1>2 DEF CutShort, TypeOK

LEMMA InstallType ==
    ASSUME TypeOK, NEW p \in Process, Install(p) PROVE TypeOK'
<1>1. torn' \in BOOLEAN
  BY DEF Install, TypeOK
<1>2. raced' \in BOOLEAN
  BY DEF Install, TypeOK
<1> QED
  BY <1>1, <1>2 DEF Install, TypeOK

LEMMA InstallFailsType ==
    ASSUME TypeOK, NEW p \in Process, InstallFails(p) PROVE TypeOK'
<1>1. torn' \in BOOLEAN /\ raced' \in BOOLEAN
  BY DEF InstallFails, TypeOK
<1> QED
  BY <1>1 DEF InstallFails, TypeOK

LEMMA TypeStep == TypeOK /\ LocalInv /\ [Next]_vars => TypeOK'
<1> SUFFICES ASSUME TypeOK, LocalInv, [Next]_vars PROVE TypeOK'
  OBVIOUS
<1>1. ASSUME NEW p \in Process, Execute(p) PROVE TypeOK'
  BY <1>1 DEF Execute, TypeOK, procs, history
<1>2. ASSUME NEW i \in Inode, Exit(i) PROVE TypeOK'
  BY <1>2 DEF Exit, TypeOK, procs, history
<1>3. ASSUME NEW p \in Process, ProviderEnds(p) PROVE TypeOK'
  <2>1. CASE CutShort(p)
    BY <2>1, CutShortType
  <2>2. CASE InstallFails(p)
    BY <2>2, InstallFailsType
  <2>3. CASE /\ pc' = [pc EXCEPT ![p] = "idle"]
             /\ UNCHANGED <<version, fd, next, chunk, tmp, dest, running,
                            history>>
    BY <2>3 DEF TypeOK, history
  <2> QED
    BY <1>3, <2>1, <2>2, <2>3 DEF ProviderEnds
<1>4. CASE UNCHANGED vars
  BY <1>4 DEF vars, procs, history, TypeOK
<1> QED
  BY <1>1, <1>2, <1>3, <1>4, LaunchType, WriteType, CutShortType, InstallType,
     InstallFailsType DEF Next, WriteFails

-----------------------------------------------------------------------------
(* The invariant is preserved, action by action.                           *)

LEMMA InodeIsNotNone == \A i \in Inode : i # None
  BY NoneAssumption

LEMMA VersionIsNotNone == \A v \in Version : v # None
  BY NoneAssumption

\* A file that no step writes to stays covered while those who owe a part of
\* it go on.
LEMMA CoveredKept ==
    ASSUME NEW j, Covered(j), chunk'[j] = chunk[j],
           \A q \in Process : pc[q] = "write" /\ fd[q] = j =>
              /\ pc'[q] = "write" /\ fd'[q] = j
              /\ next'[q] = next[q] /\ version'[q] = version[q]
    PROVE  Covered(j)'
<1>1. ASSUME NEW k, Coming(j, k) PROVE Coming(j, k)'
  BY <1>1 DEF Coming, Owes
<1> QED
  BY <1>1 DEF Covered

LEMMA CoveredDest == ASSUME NEW j, dest' = j, Covered(j)' PROVE Covered(dest)'
  BY DEF Covered, Coming, Owes

LEMMA CoveredTmp == ASSUME NEW j, tmp' = j, Covered(j)' PROVE Covered(tmp)'
  BY DEF Covered, Coming, Owes

\* An open never gets at a file that is installed or executed.
LEMMA LaunchFacts ==
    ASSUME TypeOK, NameInv, NEW p \in Process, NEW v \in Version, Launch(p, v)
    PROVE  \E i \in Inode :
              /\ fd' = [fd EXCEPT ![p] = i]
              /\ tmp' = i
              /\ i # dest /\ i \notin running
              /\ chunk'[i] = Empty
              /\ \A j \in Inode \ {i} : chunk'[j] = chunk[j]
<1>1. PICK i \in Inode : /\ Opened(i)
                         /\ fd' = [fd EXCEPT ![p] = i]
                         /\ chunk' = TruncatedAt(i)
                         /\ tmp' = i
  BY DEF Launch
<1>2. i # dest /\ i \notin running
  BY <1>1, InodeIsNotNone DEF Opened, Unused, NameInv
<1>3. chunk'[i] = Empty /\ \A j \in Inode \ {i} : chunk'[j] = chunk[j]
  BY <1>1 DEF TruncatedAt, TypeOK
<1> QED
  BY <1>1, <1>2, <1>3

LEMMA LaunchStep ==
    ASSUME TypeOK, IInv, NEW p \in Process, NEW v \in Version, Launch(p, v)
    PROVE  IInv'
<1>1. PICK i \in Inode :
              /\ fd' = [fd EXCEPT ![p] = i]
              /\ tmp' = i
              /\ i # dest /\ i \notin running
              /\ chunk'[i] = Empty
              /\ \A j \in Inode \ {i} : chunk'[j] = chunk[j]
  BY LaunchFacts DEF IInv
<1>2. p \notin Active /\ Active' = Active \cup {p}
  BY DEF Launch, Active, TypeOK
<1>3. /\ pc'[p] = "write" /\ version'[p] = v /\ next'[p] = 1 /\ fd'[p] = i
      /\ \A q \in Process \ {p} : /\ pc'[q] = pc[q] /\ version'[q] = version[q]
                                  /\ next'[q] = next[q] /\ fd'[q] = fd[q]
  BY <1>1 DEF Launch, TypeOK
<1>4. dest' = dest /\ running' = running /\ torn' = torn
  BY DEF Launch
<1>5. LocalInv'
  <2> SUFFICES ASSUME NEW q \in Active'
               PROVE  /\ fd'[q] \in Inode
                      /\ version'[q] \in Version
                      /\ pc'[q] = "write" => next'[q] <= Size[version'[q]]
                      /\ pc'[q] = "install"
                            => next'[q] = Size[version'[q]] + 1
    BY DEF LocalInv
  <2>1. CASE q = p
    <3>1. 1 <= Size[v]
      BY SizeAssumption
    <3> QED
      BY <2>1, <3>1, <1>3
  <2>2. CASE q # p
    <3>1. q \in Active /\ q \in Process \ {p}
      BY <1>2, <2>2 DEF Active
    <3> QED
      BY <3>1, <1>3 DEF IInv, LocalInv
  <2> QED
    BY <2>1, <2>2
<1>6. NameInv'
  BY <1>1, <1>4 DEF NameInv
<1>7. AloneInv'
  <2>1. CASE Active = {}
    <3>1. Active' = {p}
      BY <1>2, <2>1
    <3>2. \A k \in Position : chunk'[i][k] = None /\ ~(k < 1)
      BY <1>1 DEF Empty, Position
    <3> QED
      BY <3>1, <3>2, <1>1, <1>3 DEF AloneInv
  <2>2. CASE Active # {}
    <3>1. Active' \ overlapped' = {}
      BY <1>2, <2>2 DEF Launch
    <3> QED
      BY <3>1 DEF AloneInv
  <2> QED
    BY <2>1, <2>2
<1>8. RaceInv'
  <2> SUFFICES ASSUME ~raced' PROVE ~torn' /\ Active' \cap overlapped' = {}
    BY DEF RaceInv
  <2>1. ~raced /\ Active = {}
    BY DEF Launch
  <2>2. overlapped' = {}
    BY <2>1 DEF Launch
  <2> QED
    BY <2>1, <2>2, <1>4 DEF IInv, RaceInv
<1>9. dest # None => dest \in Inode /\ chunk'[dest] = chunk[dest]
  BY <1>1 DEF TypeOK
<1>10. InstalledIsWhole'
  <2>1. ~raced' => ~raced
    BY DEF Launch
  <2> QED
    BY <2>1, <1>4, <1>9 DEF IInv, InstalledIsWhole
<1>11. CoverInv'
  <2> SUFFICES ASSUME ~torn'
               PROVE  /\ dest' # None => Covered(dest)'
                      /\ Covered(tmp)'
    BY DEF CoverInv
  <2>1. Covered(i)'
    <3>1. \A k \in Position : chunk'[i][k] = None
      BY <1>1 DEF Empty
    <3>2. 1 <= Size[v] /\ 1 \in Position
      BY SizeAssumption, MaxSizeAssumption DEF Position
    <3>3. Coming(i, 1)'
      BY <3>2, <1>3 DEF Coming, Owes
    <3> QED
      BY <3>1, <3>2, <3>3 DEF Covered
  <2>2. ASSUME NEW j, j = dest, dest # None PROVE Covered(j)'
    <3>1. Covered(j)
      BY <2>2, <1>4 DEF IInv, CoverInv
    <3>2. \A q \in Process : pc[q] = "write" => q # p
      BY DEF Launch
    <3> QED
      BY <3>1, <3>2, <2>2, <1>3, <1>9, CoveredKept
  <2> QED
    BY <2>1, <2>2, <1>1, <1>4, CoveredDest, CoveredTmp
<1> QED
  BY <1>5, <1>6, <1>7, <1>8, <1>10, <1>11 DEF IInv
LEMMA ActiveWrites ==
    ASSUME TypeOK, NEW p \in Process, WriteChunk(p)
    PROVE  p \in Active /\ Active' = Active
<1>1. p \in Active
  BY DEF WriteChunk, Active
<1>2. \A q \in Process : pc'[q] \in {"write", "install"}
                            <=> pc[q] \in {"write", "install"}
  BY DEF WriteChunk, TypeOK
<1> QED
  BY <1>1, <1>2 DEF Active

LEMMA WriteStep ==
    ASSUME TypeOK, IInv, NEW p \in Process, WriteChunk(p)
    PROVE  IInv'
<1> DEFINE i == fd[p]
           n == next[p]
<1>1. /\ i \in Inode /\ version[p] \in Version /\ n \in Position
      /\ n <= Size[version[p]] /\ Size[version[p]] \in Position
  <2>1. pc[p] = "write"
    BY DEF WriteChunk
  <2> QED
    BY <2>1, WriteFacts DEF IInv
<1>2. p \in Active /\ Active' = Active
  BY ActiveWrites
<1>3. /\ next'[p] = n + 1 /\ version' = version /\ fd' = fd
      /\ pc'[p] = IF n = Size[version[p]] THEN "install" ELSE "write"
      /\ \A q \in Process \ {p} : pc'[q] = pc[q] /\ next'[q] = next[q]
  BY DEF WriteChunk, TypeOK
<1>4. /\ chunk'[i][n] = version[p]
      /\ \A k \in Position \ {n} : chunk'[i][k] = chunk[i][k]
      /\ \A j \in Inode \ {i} : chunk'[j] = chunk[j]
  BY <1>1 DEF WriteChunk, TypeOK
<1>5. /\ tmp' = tmp /\ dest' = dest /\ running' = running
      /\ overlapped' = overlapped /\ raced' = raced /\ torn' = torn
  BY DEF WriteChunk, history
<1>6. LocalInv'
  <2> SUFFICES ASSUME NEW q \in Active
               PROVE  /\ fd[q] \in Inode
                      /\ version[q] \in Version
                      /\ pc'[q] = "write" => next'[q] <= Size[version[q]]
                      /\ pc'[q] = "install" => next'[q] = Size[version[q]] + 1
    BY <1>2, <1>3 DEF LocalInv
  <2>1. CASE q = p
    BY <2>1, <1>1, <1>3 DEF Position
  <2>2. CASE q # p
    BY <2>2, <1>3 DEF IInv, LocalInv, Active
  <2> QED
    BY <2>1, <2>2
<1>7. NameInv'
  BY <1>5 DEF IInv, NameInv
<1>8. AloneInv'
  <2> SUFFICES ASSUME NEW q \in Active \ overlapped
               PROVE  /\ Active = {q}
                      /\ tmp = fd[q]
                      /\ \A k \in Position : chunk'[tmp][k] =
                            IF k < next'[q] THEN version[q] ELSE None
    BY <1>2, <1>3, <1>5 DEF AloneInv
  <2>1. /\ Active = {q} /\ tmp = fd[q]
        /\ \A k \in Position :
              chunk[tmp][k] = IF k < next[q] THEN version[q] ELSE None
    BY DEF IInv, AloneInv
  <2>2. q = p
    BY <2>1, <1>2
  <2>3. \A k \in Position :
           chunk'[tmp][k] = IF k < next'[q] THEN version[q] ELSE None
    BY <2>1, <2>2, <1>1, <1>3, <1>4 DEF Position
  <2> QED
    BY <2>1, <2>3
<1>9. RaceInv'
  BY <1>2, <1>5 DEF IInv, RaceInv
<1>10. InstalledIsWhole'
  <2> SUFFICES ASSUME ~raced, dest # None
               PROVE  \E v \in Version : chunk'[dest] = Whole(v)
    BY <1>5 DEF InstalledIsWhole
  <2>1. p \in Active \ overlapped
    BY <1>2 DEF IInv, RaceInv
  <2>2. tmp = i /\ dest # tmp
    BY <2>1, <1>1, InodeIsNotNone DEF IInv, AloneInv, NameInv
  <2>3. chunk'[dest] = chunk[dest]
    BY <2>2, <1>4 DEF TypeOK
  <2> QED
    BY <2>3 DEF IInv, InstalledIsWhole
<1>11. ASSUME NEW j \in Inode, Covered(j) PROVE Covered(j)'
  <2>1. \A k \in Position : chunk[j][k] # None => chunk'[j][k] # None
    BY <1>1, <1>4, VersionIsNotNone
  <2>2. ASSUME NEW k \in Position, Coming(j, k) PROVE Coming(j, k)'
    <3>1. CASE chunk[j][k] # None
      BY <3>1, <2>1 DEF Coming
    <3>2. ASSUME NEW q \in Process, Owes(q, j, k), q # p PROVE Owes(q, j, k)'
      BY <3>2, <1>3 DEF Owes
    <3>3. CASE Owes(p, j, k) /\ k = n
      BY <3>3, <1>1, <1>4, VersionIsNotNone DEF Owes, Coming
    <3>4. CASE Owes(p, j, k) /\ k # n
      <4>1. n + 1 <= k /\ n # Size[version[p]]
        BY <3>4, <1>1 DEF Owes, Position
      <4> QED
        BY <4>1, <3>4, <1>3 DEF Owes, Coming
    <3> QED
      BY <2>2, <3>1, <3>2, <3>3, <3>4 DEF Coming
  <2>3. ASSUME NEW k \in Position, chunk[j][k] # None,
               chunk'[j][k] = chunk[j][k]
        PROVE  /\ k <= Size[chunk'[j][k]]
               /\ \A l \in k .. Size[chunk'[j][k]] : Coming(j, l)'
    <3>1. chunk[j][k] \in Version
      BY <2>3 DEF TypeOK
    <3>2. \A l \in k .. Size[chunk[j][k]] : l \in Position
      BY <3>1, SizeAssumption, MaxSizeAssumption DEF Position
    <3>3. /\ k <= Size[chunk[j][k]]
          /\ \A l \in k .. Size[chunk[j][k]] : Coming(j, l)
      BY <1>11, <2>3 DEF Covered
    <3> QED
      BY <3>2, <3>3, <2>2, <2>3
  <2>4. ASSUME NEW k, k = n, j = i
        PROVE  /\ k <= Size[chunk'[j][k]]
               /\ \A l \in k .. Size[chunk'[j][k]] : Coming(j, l)'
    <3>1. chunk'[j][k] = version[p]
      BY <2>4, <1>4
    <3>2. Coming(j, k)'
      BY <3>1, <1>1, VersionIsNotNone DEF Coming
    <3>3. ASSUME NEW l \in k .. Size[version[p]], l # k PROVE Owes(p, j, l)'
      <4>1. n + 1 <= l /\ l <= Size[version[p]] /\ n # Size[version[p]]
        BY <3>3, <2>4, <1>1 DEF Position
      <4> QED
        BY <4>1, <2>4, <1>3 DEF Owes
    <3> QED
      BY <3>1, <3>2, <3>3, <2>4, <1>1 DEF Coming
  <2>5. ASSUME NEW k \in Position, chunk'[j][k] # None
        PROVE  /\ k <= Size[chunk'[j][k]]
               /\ \A l \in k .. Size[chunk'[j][k]] : Coming(j, l)'
    <3>1. CASE j = i /\ k = n
      BY <3>1, <2>4
    <3>2. CASE ~(j = i /\ k = n)
      <4>1. chunk'[j][k] = chunk[j][k]
        BY <3>2, <1>4
      <4> QED
        BY <4>1, <2>3, <2>5
    <3> QED
      BY <3>1, <3>2
  <2>6. 1 \in Position /\ Coming(j, 1)'
    BY <2>2, <1>11 DEF Covered
  <2> QED
    BY <2>5, <2>6 DEF Covered
<1>12. CoverInv'
  <2>1. dest # None /\ Covered(dest) => Covered(dest)'
    BY <1>5, <1>11, CoveredDest DEF TypeOK
  <2>2. tmp # None /\ Covered(tmp) => Covered(tmp)'
    BY <1>5, <1>11, CoveredTmp DEF TypeOK
  <2> QED
    BY <2>1, <2>2, <1>2, <1>5 DEF IInv, CoverInv
<1> QED
  BY <1>6, <1>7, <1>8, <1>9, <1>10, <1>12 DEF IInv

\* Steps that end an extraction leave the files as they are.
LEMMA EndFacts ==
    ASSUME TypeOK, NEW p \in Process, p \in Active,
           pc' = [pc EXCEPT ![p] = "idle"]
    PROVE  /\ Active' = Active \ {p}
           /\ \A q \in Process \ {p} : pc'[q] = pc[q]
  BY DEF TypeOK, Active

LEMMA EndStep ==
    ASSUME TypeOK, IInv, NEW p \in Process, p \in Active,
           pc' = [pc EXCEPT ![p] = "idle"],
           overlapped' = overlapped \ {p},
           UNCHANGED <<version, fd, next, chunk, tmp, dest, running, raced>>
    PROVE  LocalInv' /\ NameInv' /\ AloneInv' /\ InstalledIsWhole'
<1>1. /\ Active' = Active \ {p}
      /\ \A q \in Process \ {p} : pc'[q] = pc[q]
  BY EndFacts
<1>2. LocalInv'
  BY <1>1 DEF IInv, LocalInv, Active
<1>3. NameInv'
  BY DEF IInv, NameInv
<1>4. AloneInv'
  BY <1>1 DEF IInv, AloneInv
<1>5. InstalledIsWhole'
  BY DEF IInv, InstalledIsWhole
<1> QED
  BY <1>2, <1>3, <1>4, <1>5

LEMMA CutShortStep ==
    ASSUME TypeOK, IInv, NEW p \in Process, pc[p] = "write", CutShort(p)
    PROVE  IInv'
<1>1. p \in Active
  BY DEF Active
<1>2. LocalInv' /\ NameInv' /\ AloneInv' /\ InstalledIsWhole'
  BY <1>1, EndStep DEF CutShort
<1>3. /\ Active' = Active \ {p}
      /\ \A q \in Process \ {p} : pc'[q] = pc[q]
  BY <1>1, EndFacts DEF CutShort
<1>4. RaceInv'
  BY <1>1, <1>3 DEF CutShort, IInv, RaceInv
<1>5. CoverInv'
  <2> SUFFICES ASSUME ~torn'
               PROVE  /\ dest' # None => Covered(dest)'
                      /\ Active' = {}
    BY DEF CoverInv
  <2>1. ~torn /\ p \in Active \ overlapped
    BY <1>1 DEF CutShort
  <2>2. Active = {p} /\ tmp = fd[p] /\ fd[p] \in Inode
    BY <2>1 DEF IInv, AloneInv, LocalInv
  <2>3. Active' = {}
    BY <2>2, <1>3
  <2>4. ASSUME NEW j, j = dest, dest # None PROVE Covered(j)'
    <3>1. dest # fd[p]
      BY <2>2, <2>4, InodeIsNotNone DEF IInv, NameInv
    <3>2. \A q \in Process : ~(pc[q] = "write" /\ fd[q] = j)
      BY <3>1, <2>2, <2>4 DEF Active
    <3>3. Covered(j)
      BY <2>1, <2>4 DEF IInv, CoverInv
    <3> QED
      BY <3>2, <3>3, CoveredKept DEF CutShort
  <2> QED
    BY <2>3, <2>4, CoveredDest DEF CutShort
<1> QED
  BY <1>2, <1>4, <1>5 DEF IInv

LEMMA InstallFailsStep ==
    ASSUME TypeOK, IInv, NEW p \in Process, InstallFails(p)
    PROVE  IInv'
<1>1. p \in Active /\ pc[p] = "install"
  BY DEF InstallFails, Active
<1>2. LocalInv' /\ NameInv' /\ AloneInv' /\ InstalledIsWhole'
  BY <1>1, EndStep DEF InstallFails
<1>3. /\ Active' = Active \ {p}
      /\ \A q \in Process \ {p} : pc'[q] = pc[q]
  BY <1>1, EndFacts DEF InstallFails
<1>4. RaceInv'
  BY <1>3 DEF InstallFails, IInv, RaceInv
<1>5. ASSUME NEW j, Covered(j) PROVE Covered(j)'
  <2>1. \A q \in Process : pc[q] = "write" => q # p
    BY <1>1
  <2> QED
    BY <2>1, <1>3, <1>5, CoveredKept DEF InstallFails
<1>6. CoverInv'
  BY <1>3, <1>5, CoveredDest, CoveredTmp DEF InstallFails, IInv, CoverInv
<1> QED
  BY <1>2, <1>4, <1>6 DEF IInv
\* What a process that is alone installs is its own binary.
LEMMA AloneInstalls ==
    ASSUME TypeOK, IInv, NEW p \in Process, p \notin overlapped, Install(p)
    PROVE  /\ Active = {p}
           /\ version[p] \in Version
           /\ chunk[tmp] = Whole(version[p])
<1>1. p \in Active \ overlapped /\ pc[p] = "install" /\ tmp # None
  BY DEF Install, Active
<1>2. /\ Active = {p}
      /\ \A k \in Position :
            chunk[tmp][k] = IF k < next[p] THEN version[p] ELSE None
  BY <1>1 DEF IInv, AloneInv
<1>3. version[p] \in Version /\ next[p] = Size[version[p]] + 1
  BY <1>1 DEF IInv, LocalInv
<1>4. Size[version[p]] \in 1 .. MaxSize
  BY <1>3, SizeAssumption
<1>5. \A k \in Position : k < next[p] <=> k <= Size[version[p]]
  BY <1>3, <1>4, MaxSizeAssumption DEF Position
<1>6. chunk[tmp] = [k \in Position |-> chunk[tmp][k]]
  BY <1>1 DEF TypeOK
<1> QED
  BY <1>2, <1>3, <1>5, <1>6 DEF Whole

LEMMA InstallStep ==
    ASSUME TypeOK, IInv, NEW p \in Process, Install(p)
    PROVE  IInv'
<1>1. p \in Active /\ pc[p] = "install" /\ tmp # None
  BY DEF Install, Active
<1>2. /\ Active' = Active \ {p}
      /\ \A q \in Process \ {p} : pc'[q] = pc[q]
  BY DEF Install, Active, TypeOK
<1>3. /\ dest' = tmp /\ tmp' = None /\ overlapped' = overlapped \ {p}
      /\ chunk' = chunk /\ version' = version /\ fd' = fd /\ next' = next
  BY DEF Install
<1>4. LocalInv'
  BY <1>2, <1>3 DEF IInv, LocalInv, Active
<1>5. NameInv'
  BY <1>3 DEF NameInv
<1>6. ASSUME NEW q \in Active \ overlapped, q # p PROVE FALSE
  BY <1>1, <1>6 DEF IInv, AloneInv
<1>7. AloneInv'
  BY <1>2, <1>3, <1>6 DEF AloneInv
<1>8. CASE p \in overlapped
  <2>1. raced /\ raced' = raced /\ torn' = torn
    <3>1. raced
      BY <1>1, <1>8 DEF IInv, RaceInv
    <3> QED
      BY <3>1, <1>8 DEF Install, TypeOK
  <2>2. ASSUME ~torn PROVE Covered(dest)'
    <3>1. Covered(tmp)
      BY <2>2, <1>1 DEF IInv, CoverInv
    <3>2. \A q \in Process : pc[q] = "write" => q # p
      BY <1>1
    <3>3. ASSUME NEW j, j = tmp PROVE Covered(j)'
      BY <3>1, <3>2, <3>3, <1>2, <1>3, CoveredKept
    <3> QED
      BY <3>3, <1>3, CoveredDest
  <2>3. CoverInv'
    BY <2>1, <2>2, <1>3 DEF CoverInv
  <2> QED
    BY <2>1, <2>3, <1>4, <1>5, <1>7 DEF IInv, RaceInv, InstalledIsWhole
<1>9. CASE p \notin overlapped
  <2>1. /\ Active = {p} /\ version[p] \in Version
        /\ chunk[tmp] = Whole(version[p])
    BY <1>9, AloneInstalls
  <2>2. Active' = {} /\ torn' = FALSE /\ raced' = FALSE
    BY <2>1, <1>2, <1>9 DEF Install
  <2>3. InstalledIsWhole'
    BY <2>1, <1>3 DEF InstalledIsWhole
  <2>4. Covered(dest)'
    <3>1. Size[version[p]] \in 1 .. MaxSize
      BY <2>1, SizeAssumption
    <3>2. \A k \in 1 .. Size[version[p]] :
             k \in Position /\ chunk[tmp][k] = version[p]
      BY <2>1, <3>1, MaxSizeAssumption DEF Whole, Position
    <3>3. \A k \in Position : chunk[tmp][k] # None
                                => k <= Size[version[p]] /\ k >= 1
      BY <2>1, <3>1, MaxSizeAssumption DEF Whole, Position
    <3>4. ASSUME NEW j, j = tmp PROVE Covered(j)'
      <4>1. \A k \in 1 .. Size[version[p]] : Coming(j, k)'
        BY <3>2, <3>4, <2>1, <1>3, VersionIsNotNone DEF Coming
      <4>2. 1 \in Position /\ Coming(j, 1)'
        BY <4>1, <3>1, MaxSizeAssumption DEF Position
      <4>3. ASSUME NEW k \in Position, chunk'[j][k] # None
            PROVE  /\ k <= Size[chunk'[j][k]]
                   /\ \A l \in k .. Size[chunk'[j][k]] : Coming(j, l)'
        <5>1. chunk'[j][k] = version[p] /\ k \in 1 .. Size[version[p]]
          BY <4>3, <3>1, <3>2, <3>3, <3>4, <1>3 DEF Position
        <5>2. \A l \in k .. Size[version[p]] : l \in 1 .. Size[version[p]]
          BY <5>1, <3>1
        <5> QED
          BY <5>1, <5>2, <3>1, <4>1
      <4> QED
        BY <4>2, <4>3 DEF Covered
    <3> QED
      BY <3>4, <1>3, CoveredDest
  <2>5. CoverInv' /\ RaceInv'
    BY <2>2, <2>4, <1>3 DEF CoverInv, RaceInv
  <2> QED
    BY <2>3, <2>5, <1>4, <1>5, <1>7 DEF IInv
<1> QED
  BY <1>8, <1>9

\* A step that changes neither files nor extractions.
LEMMA IdleStep ==
    ASSUME IInv, Active' = Active,
           \A q \in Process : pc'[q] = "write" <=> pc[q] = "write",
           \A q \in Active : pc'[q] = pc[q],
           UNCHANGED <<version, fd, next, chunk, tmp, dest, history>>,
           running' \subseteq running \cup {dest}
    PROVE  IInv'
<1> USE DEF history
<1>1. LocalInv'
  BY DEF IInv, LocalInv
<1>2. NameInv'
  BY DEF IInv, NameInv
<1>3. AloneInv'
  BY DEF IInv, AloneInv
<1>4. RaceInv'
  BY DEF IInv, RaceInv
<1>5. InstalledIsWhole'
  BY DEF IInv, InstalledIsWhole
<1>6. CoverInv'
  <2>1. ASSUME NEW j, Covered(j) PROVE Covered(j)'
    BY <2>1, CoveredKept
  <2> QED
    BY <2>1, CoveredDest, CoveredTmp DEF IInv, CoverInv
<1> QED
  BY <1>1, <1>2, <1>3, <1>4, <1>5, <1>6 DEF IInv

LEMMA InvStep == TypeOK /\ IInv /\ [Next]_vars => IInv'
<1> SUFFICES ASSUME TypeOK, IInv, [Next]_vars PROVE IInv'
  OBVIOUS
<1>1. ASSUME NEW p \in Process, Execute(p) PROVE IInv'
  BY <1>1, IdleStep DEF Execute, procs, Active
<1>2. ASSUME NEW i \in Inode, Exit(i) PROVE IInv'
  BY <1>2, IdleStep DEF Exit, procs, Active
<1>3. ASSUME NEW p \in Process, ProviderEnds(p) PROVE IInv'
  <2>1. CASE pc[p] = "write" /\ CutShort(p)
    BY <2>1, CutShortStep
  <2>2. CASE InstallFails(p)
    BY <2>2, InstallFailsStep
  <2>3. CASE /\ pc[p] = "ok"
             /\ pc' = [pc EXCEPT ![p] = "idle"]
             /\ UNCHANGED <<version, fd, next, chunk, tmp, dest, running,
                            history>>
    <3>1. /\ \A q \in Process : pc'[q] = "write" <=> pc[q] = "write"
          /\ \A q \in Active : pc'[q] = pc[q]
          /\ Active' = Active
      BY <2>3 DEF Active, TypeOK
    <3> QED
      BY <2>3, <3>1, IdleStep
  <2> QED
    BY <1>3, <2>1, <2>2, <2>3 DEF ProviderEnds
<1>4. CASE UNCHANGED vars
  BY <1>4, IdleStep DEF vars, procs, Active
<1>5. ASSUME NEW p \in Process, WriteFails(p) PROVE IInv'
  BY <1>5, CutShortStep DEF WriteFails
<1> QED
  BY <1>1, <1>2, <1>3, <1>4, <1>5, LaunchStep, WriteStep, InstallStep,
     InstallFailsStep DEF Next

LEMMA Inductive == Spec => [](TypeOK /\ IInv)
<1>1. TypeOK /\ IInv /\ [Next]_vars => (TypeOK /\ IInv)'
  BY TypeStep, InvStep DEF IInv
<1> QED
  BY <1>1, InitHolds, PTL DEF Spec

-----------------------------------------------------------------------------
(* The theorems.                                                           *)

\* The variables of every extraction and every file keep their types; no
\* writer passes the end of its data.
THEOREM TypeCorrect == Spec => []TypeOK
  BY Inductive, PTL

\* Without an overlap since the last extraction that was alone, the path holds
\* a release's whole binary or nothing, whatever crashed in between.
THEOREM InstallIsAtomic == Spec => []InstalledIsWhole
<1>1. TypeOK /\ IInv => InstalledIsWhole
  BY DEF IInv
<1> QED
  BY <1>1, Inductive, PTL

\* Overlapping extractions that all come to their end, none cut short, leave
\* one release's whole binary unless two releases are mixed in it; where all
\* that extract are of one release it is whole.
THEOREM OverlapHeals == Spec => []WholeUnlessMixed
<1>1. TypeOK /\ IInv => WholeUnlessMixed
  <2> SUFFICES ASSUME TypeOK, IInv, Active = {}, ~torn, dest # None,
                      \A j, k \in Position :
                         {chunk[dest][j], chunk[dest][k]} \subseteq Version
                            => chunk[dest][j] = chunk[dest][k]
               PROVE  \E v \in Version : chunk[dest] = Whole(v)
    BY DEF WholeUnlessMixed
  <2>1. Covered(dest) /\ \A k : Coming(dest, k) <=> chunk[dest][k] # None
    BY DEF IInv, CoverInv, Coming, Owes, Active
  <2>2. dest \in Inode /\ chunk[dest] \in [Position -> Version \cup {None}]
    BY DEF TypeOK
  <2>3. PICK v : v = chunk[dest][1]
    OBVIOUS
  <2>4. 1 \in Position /\ v \in Version
    BY <2>1, <2>2, <2>3 DEF Covered
  <2>5. Size[v] \in 1 .. MaxSize
    BY <2>4, SizeAssumption
  <2>6. \A k \in 1 .. Size[v] : k \in Position /\ chunk[dest][k] # None
    BY <2>1, <2>3, <2>4, <2>5, MaxSizeAssumption, VersionIsNotNone
       DEF Covered, Position
  <2>7. \A k \in Position : chunk[dest][k] # None => chunk[dest][k] = v
    BY <2>2, <2>3, <2>4
  <2>8. \A k \in Position : chunk[dest][k] # None => k <= Size[v]
    BY <2>1, <2>7 DEF Covered
  <2>9. \A k \in Position :
           chunk[dest][k] = IF k <= Size[v] THEN v ELSE None
    BY <2>5, <2>6, <2>7, <2>8, MaxSizeAssumption DEF Position
  <2> QED
    BY <2>2, <2>4, <2>9 DEF Whole
<1> QED
  BY <1>1, Inductive, PTL

\* An extraction that is alone installs the binary of its own release.
THEOREM SoleInstallsOwnBinary == Spec => SoleInstallsItsOwn
<1> DEFINE Own == \A p \in Process :
                     pc[p] # "ok" /\ pc'[p] = "ok" /\ p \notin overlapped
                        => dest' # None /\ chunk'[dest'] = Whole(version'[p])
<1>1. TypeOK /\ IInv /\ [Next]_vars => [Own]_vars
  <2> SUFFICES ASSUME TypeOK, IInv, [Next]_vars, NEW p \in Process,
                      pc[p] # "ok", pc'[p] = "ok", p \notin overlapped
               PROVE  dest' # None /\ chunk'[dest'] = Whole(version'[p])
    OBVIOUS
  <2>1. Install(p)
    <3> USE DEF TypeOK
    <3>1. ASSUME NEW q \in Process, NEW v \in Version, Launch(q, v)
          PROVE  FALSE
      BY <3>1 DEF Launch
    <3>2. ASSUME NEW q \in Process, WriteChunk(q) PROVE FALSE
      BY <3>2 DEF WriteChunk
    <3>3. ASSUME NEW q \in Process, CutShort(q) PROVE FALSE
      BY <3>3 DEF CutShort
    <3>4. ASSUME NEW q \in Process, InstallFails(q) PROVE FALSE
      BY <3>4 DEF InstallFails
    <3>5. ASSUME NEW q \in Process, Execute(q) PROVE FALSE
      BY <3>5 DEF Execute, procs
    <3>6. ASSUME NEW q \in Process, ProviderEnds(q) PROVE FALSE
      BY <3>6, <3>3, <3>4 DEF ProviderEnds
    <3>7. ASSUME NEW i \in Inode, Exit(i) PROVE FALSE
      BY <3>7 DEF Exit, procs
    <3>8. ASSUME NEW q \in Process, Install(q), q # p PROVE FALSE
      BY <3>8 DEF Install
    <3> QED
      BY <3>1, <3>2, <3>3, <3>4, <3>5, <3>6, <3>7, <3>8
         DEF Next, WriteFails, vars, procs
  <2>2. chunk[tmp] = Whole(version[p])
    BY <2>1, AloneInstalls
  <2> QED
    BY <2>1, <2>2 DEF Install
<1> QED
  BY <1>1, Inductive, PTL DEF Spec, SoleInstallsItsOwn

\* No step writes to a file that is being executed, unless extractions overlap.
Kept == \A i \in running : chunk'[i] # chunk[i] => raced

LEMMA RunningStep == TypeOK /\ IInv /\ [Next]_vars => Kept
<1> SUFFICES ASSUME TypeOK, IInv, [Next]_vars, ~raced, NEW i \in running
             PROVE  chunk'[i] = chunk[i]
  BY DEF Kept
<1>1. ASSUME NEW p \in Process, NEW v \in Version, Launch(p, v)
      PROVE  chunk'[i] = chunk[i]
  BY <1>1, LaunchFacts DEF IInv, TypeOK
<1>2. ASSUME NEW p \in Process, WriteChunk(p) PROVE chunk'[i] = chunk[i]
  <2>1. p \in Active \ overlapped /\ fd[p] \in Inode
    BY <1>2, ActiveWrites DEF IInv, RaceInv, LocalInv
  <2>2. fd[p] # i
    BY <2>1, InodeIsNotNone DEF IInv, AloneInv, NameInv
  <2> QED
    BY <1>2, <2>2 DEF WriteChunk, TypeOK
<1> QED
  BY <1>1, <1>2 DEF Next, WriteFails, CutShort, Install, InstallFails,
     Execute, ProviderEnds, Exit, vars

\* A binary that is being executed is not written to.
THEOREM RunningBinariesUntouched == Spec => RunningUntouched
<1>1. TypeOK /\ IInv /\ [Next]_vars
        => [\A i \in running : chunk'[i] # chunk[i] => raced]_vars
  BY RunningStep DEF Kept
<1> QED
  BY <1>1, Inductive, PTL DEF Spec, RunningUntouched

\* Every binary that is being executed is one release's, and whole.
RunningIsWhole == \A i \in running : \E v \in Version : chunk[i] = Whole(v)

\* Where no two extractions ever overlap, a runner executes the whole binary of
\* one release for as long as it lives, whatever upgrades and crashes come
\* meanwhile (networkrunner.go, extractEmbedded; provider.go, Configure).
THEOREM RunnersStayWhole == Spec => ([]~raced => []RunningIsWhole)
<1>1. Init => RunningIsWhole
  BY DEF Init, RunningIsWhole
<1>2. TypeOK /\ IInv /\ ~raced /\ RunningIsWhole /\ [Next]_vars
        => RunningIsWhole'
  <2> SUFFICES ASSUME TypeOK, IInv, ~raced, RunningIsWhole, [Next]_vars,
                      NEW i \in running'
               PROVE  \E v \in Version : chunk'[i] = Whole(v)
    BY DEF RunningIsWhole
  <2>1. CASE i \in running
    BY <2>1, RunningStep DEF Kept, RunningIsWhole
  <2>2. CASE i \notin running
    <3>1. \E p \in Process : Execute(p)
      BY <2>2 DEF Next, Launch, WriteChunk, WriteFails, CutShort, Install,
         InstallFails, ProviderEnds, Exit, vars
    <3>2. i = dest /\ dest # None /\ chunk' = chunk
      BY <2>2, <3>1 DEF Execute
    <3> QED
      BY <3>2 DEF IInv, InstalledIsWhole
  <2> QED
    BY <2>1, <2>2
<1> QED
  BY <1>1, <1>2, Inductive, PTL DEF Spec
=============================================================================
