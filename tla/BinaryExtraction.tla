--------------------------- MODULE BinaryExtraction ---------------------------
(***************************************************************************)
(* extractEmbedded, run by the Configure of every provider process on the  *)
(* same cache directory: the binary is written to a temporary file, which  *)
(* is then renamed to its destination. The temporary file has one name for *)
(* all processes, and they do not synchronise.                             *)
(*                                                                         *)
(* A file is an inode, which keeps its contents when its name moves; a     *)
(* descriptor refers to an inode, not to a name. Contents are chunks, each *)
(* written at the writer's own offset.                                     *)
(***************************************************************************)
EXTENDS Naturals

CONSTANTS
    Process,    \* provider processes
    Inode,      \* a bound on the files that exist at a time
    Version,    \* the binaries that releases of the provider embed
    MaxSize,    \* a bound on their size in chunks
    Size,       \* the size of each
    None

ASSUME MaxSizeAssumption == MaxSize \in Nat
ASSUME SizeAssumption == Size \in [Version -> 1 .. MaxSize]
ASSUME NoneAssumption == None \notin Inode \cup Version

VARIABLES
    pc,         \* of extractEmbedded; "ok" once its path was returned
    version,    \* the binary a process embeds
    fd,         \* the inode it opened
    next,       \* the chunk it writes next
    chunk,      \* the contents of an inode; None is a hole or beyond the end
    tmp,        \* the inode at destPath + ".tmp"
    dest,       \* the inode at destPath
    running,    \* inodes that are being executed
    overlapped, \* extractions that were not alone (history)
    raced,      \* extractions overlapped, and none alone installed since (history)
    torn        \* and one that overlapped was cut short (history)

procs == <<pc, version, fd, next>>
history == <<overlapped, raced, torn>>
vars == <<procs, chunk, tmp, dest, running, history>>

Position == 1 .. MaxSize
Active == {p \in Process : pc[p] \in {"write", "install"}}

Empty == [k \in Position |-> None]
Whole(v) == [k \in Position |-> IF k <= Size[v] THEN v ELSE None]

TypeOK ==
    /\ pc \in [Process -> {"idle", "write", "install", "ok"}]
    /\ version \in [Process -> Version \cup {None}]
    /\ fd \in [Process -> Inode \cup {None}]
    /\ next \in [Process -> 1 .. MaxSize + 1]
    /\ chunk \in [Inode -> [Position -> Version \cup {None}]]
    /\ tmp \in Inode \cup {None}
    /\ dest \in Inode \cup {None}
    /\ running \subseteq Inode
    /\ overlapped \subseteq Process
    /\ raced \in BOOLEAN
    /\ torn \in BOOLEAN

\* A new cache directory.
Init ==
    /\ pc = [p \in Process |-> "idle"]
    /\ version = [p \in Process |-> None]
    /\ fd = [p \in Process |-> None]
    /\ next = [p \in Process |-> 1]
    /\ chunk = [i \in Inode |-> Empty]
    /\ tmp = None
    /\ dest = None
    /\ running = {}
    /\ overlapped = {}
    /\ raced = FALSE
    /\ torn = FALSE

-----------------------------------------------------------------------------
(* os.WriteFile.                                                           *)

\* An inode without a name, a descriptor or a process that executes it.
Unused(i) ==
    /\ i \notin {tmp, dest} \cup running
    /\ \A p \in Process : pc[p] = "write" => fd[p] # i

\* Deviation: the binary is written to its destination in place.
OpenedInPlace(i) == i = dest \/ (dest = None /\ Unused(i))

\* O_CREATE: the file that has the name, or a new one.
Opened(i) == i = tmp \/ (tmp = None /\ Unused(i))

\* Deviation: the file is opened without O_TRUNC.
KeptAt(i) == chunk

\* O_TRUNC: what the file held is gone, whoever is writing it.
TruncatedAt(i) == [chunk EXCEPT ![i] = Empty]

\* Deviation: a destination that exists is taken as it is.
LaunchUnlessInstalled(p, v) ==
    /\ pc[p] = "idle"
    /\ version' = [version EXCEPT ![p] = v]
    /\ \/ /\ dest # None
          /\ pc' = [pc EXCEPT ![p] = "ok"]
          /\ UNCHANGED <<fd, next, chunk, tmp, history>>
       \/ /\ dest = None
          /\ \E i \in Inode :
                /\ Opened(i)
                /\ fd' = [fd EXCEPT ![p] = i]
                /\ chunk' = TruncatedAt(i)
                /\ tmp' = i
          /\ pc' = [pc EXCEPT ![p] = "write"]
          /\ next' = [next EXCEPT ![p] = 1]
          /\ overlapped' = IF Active = {} THEN {} ELSE Active \cup {p}
          /\ raced' = (raced \/ Active # {})
          /\ UNCHANGED torn
    /\ UNCHANGED <<dest, running>>

\* A provider process with binary v starts and opens the temporary file; the
\* destination is not looked at.
Launch(p, v) ==
    /\ pc[p] = "idle"
    /\ version' = [version EXCEPT ![p] = v]
    /\ \E i \in Inode :
          /\ Opened(i)
          /\ fd' = [fd EXCEPT ![p] = i]
          /\ chunk' = TruncatedAt(i)
          /\ tmp' = i
    /\ pc' = [pc EXCEPT ![p] = "write"]
    /\ next' = [next EXCEPT ![p] = 1]
    /\ overlapped' = IF Active = {} THEN {} ELSE Active \cup {p}
    /\ raced' = (raced \/ Active # {})
    /\ UNCHANGED <<dest, running, torn>>

\* Deviation: the end of the data is passed by one.
WriteChunkPastEnd(p) ==
    /\ pc[p] = "write"
    /\ chunk' = [chunk EXCEPT ![fd[p]][next[p]] = version[p]]
    /\ next' = [next EXCEPT ![p] = @ + 1]
    /\ pc' = [pc EXCEPT
                ![p] = IF next[p] > Size[version[p]] THEN "install" ELSE @]
    /\ UNCHANGED <<version, fd, tmp, dest, running, history>>

\* The last chunk is followed by the close.
WriteChunk(p) ==
    /\ pc[p] = "write"
    /\ chunk' = [chunk EXCEPT ![fd[p]][next[p]] = version[p]]
    /\ next' = [next EXCEPT ![p] = @ + 1]
    /\ pc' = [pc EXCEPT
                ![p] = IF next[p] = Size[version[p]] THEN "install" ELSE @]
    /\ UNCHANGED <<version, fd, tmp, dest, running, history>>

\* What remains when p stops before it has written everything.
CutShort(p) ==
    /\ pc' = [pc EXCEPT ![p] = "idle"]
    /\ torn' = (torn \/ p \in overlapped)
    /\ overlapped' = overlapped \ {p}
    /\ UNCHANGED <<version, fd, next, chunk, tmp, dest, running, raced>>

\* Deviation: a short write is taken for a complete one.
AcceptShortWrite(p) ==
    /\ pc[p] = "write"
    /\ pc' = [pc EXCEPT ![p] = "install"]
    /\ UNCHANGED <<version, fd, next, chunk, tmp, dest, running, history>>

\* No space, for example: an error, and the temporary file stays.
WriteFails(p) == pc[p] = "write" /\ CutShort(p)

-----------------------------------------------------------------------------
(* os.Rename.                                                              *)

\* Whatever has the temporary name gets the final one.
Install(p) ==
    /\ pc[p] = "install"
    /\ tmp # None
    /\ pc' = [pc EXCEPT ![p] = "ok"]
    /\ dest' = tmp
    /\ tmp' = None
    /\ overlapped' = overlapped \ {p}
    /\ raced' = (raced /\ p \in overlapped)
    /\ torn' = (torn /\ p \in overlapped)
    /\ UNCHANGED <<version, fd, next, chunk, running>>

\* The name is gone, another process having renamed it, or the call fails.
InstallFails(p) ==
    /\ pc[p] = "install"
    /\ pc' = [pc EXCEPT ![p] = "idle"]
    /\ overlapped' = overlapped \ {p}
    /\ UNCHANGED <<version, fd, next, chunk, tmp, dest, running, raced, torn>>

-----------------------------------------------------------------------------
(* Around the extraction.                                                  *)

\* A Create of the process starts the binary at the path it was given.
Execute(p) ==
    /\ pc[p] = "ok"
    /\ dest # None
    /\ running' = running \cup {dest}
    /\ UNCHANGED <<procs, chunk, tmp, dest, history>>

Exit(i) ==
    /\ i \in running
    /\ running' = running \ {i}
    /\ UNCHANGED <<procs, chunk, tmp, dest, history>>

\* The provider process ends: after the command, or killed anywhere.
ProviderEnds(p) ==
    \/ pc[p] = "write" /\ CutShort(p)
    \/ InstallFails(p)
    \/ /\ pc[p] = "ok"
       /\ pc' = [pc EXCEPT ![p] = "idle"]
       /\ UNCHANGED <<version, fd, next, chunk, tmp, dest, running, history>>

-----------------------------------------------------------------------------
Next ==
    \/ \E p \in Process :
          \/ \E v \in Version : Launch(p, v)
          \/ WriteChunk(p) \/ WriteFails(p)
          \/ Install(p) \/ InstallFails(p)
          \/ Execute(p) \/ ProviderEnds(p)
    \/ \E i \in Inode : Exit(i)

Spec == Init /\ [][Next]_vars

-----------------------------------------------------------------------------
(* Properties.                                                             *)

\* The path holds nothing or one release's whole binary at every moment, also
\* between the steps of an extraction and after one was cut short, as long as
\* no two extractions overlapped; and an extraction that is alone restores
\* this after others have overlapped.
InstalledIsWhole ==
    ~raced /\ dest # None => \E v \in Version : chunk[dest] = Whole(v)

\* An extraction that is alone and returns the path has put its own release's
\* binary there: an upgrade takes effect, whatever an earlier one left.
SoleInstallsItsOwn ==
    [][\A p \in Process :
          pc[p] # "ok" /\ pc'[p] = "ok" /\ p \notin overlapped
              => dest' # None /\ chunk'[dest'] = Whole(version'[p])]_vars

\* A binary that is being executed is not written to: an extraction leaves the
\* runners of earlier commands alone.
RunningUntouched ==
    [][\A i \in running : chunk'[i] # chunk[i] => raced]_vars

\* Extractions that overlapped heal: once all of them have ended, and none was
\* cut short, the path holds a whole binary or chunks of two releases. So
\* processes of one release may overlap as they like, and what they leave is
\* whole; nothing is promised where releases are mixed.
WholeUnlessMixed ==
    Active = {} /\ ~torn /\ dest # None
        => \/ \E v \in Version : chunk[dest] = Whole(v)
           \/ \E j, k \in Position :
                 {chunk[dest][j], chunk[dest][k]} \subseteq Version
                    /\ chunk[dest][j] # chunk[dest][k]

\* What is said of extractEmbedded's callers: the binary was extracted to the
\* path that is returned.
ReturnedIsWhole ==
    [][\A p \in Process :
          pc[p] # "ok" /\ pc'[p] = "ok"
              => \E v \in Version : chunk'[dest'] = Whole(v)]_vars
=============================================================================
