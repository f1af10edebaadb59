---------------------------- MODULE IndexPublish ----------------------------
(***************************************************************************)
(* How a persistent index comes to its path (src/qalsh.cc, the end of      *)
(* BPlusTreeIndex::Build and SortedArrayIndex::Build, PublishIndexFile)    *)
(* and how it is opened (PersistentIndex::Open).  Several builders and     *)
(* readers use one path at the same time; every system call may fail, a    *)
(* builder may be killed, and the machine may crash.                       *)
(*                                                                         *)
(* Every builder writes one file of its own, so a file is its builder.  It *)
(* has a temporary name that mkstemp found free; the name may be given     *)
(* again once it is free again.  A file is written in Chunks pieces:       *)
(* header, roots, projections, data.  The disk holds, of the directory,    *)
(* the state last synchronised or any later one; of a file that was not    *)
(* synchronised, any part.                                                 *)
(*                                                                         *)
(* An operator named Slip... is a plausible mistake in the definition that *)
(* follows it, kept to show that some property notices it.                 *)
(***************************************************************************)
EXTENDS Integers, Sequences, FiniteSets

CONSTANTS
    Builder, Reader,
    Name,           \* the names mkstemp may give
    Layout,         \* the layouts a file may have, told apart by its magic
    Chunks,         \* pieces a file is written in
    MaxCrashes,     \* bound: crashes of the machine
    NoFile

ASSUME IndexPublishAssumption ==
    /\ Chunks \in Nat \ {0} /\ MaxCrashes \in Nat
    /\ NoFile \notin Builder \cup Name

VARIABLES
    overwrite, layout,  \* what each builder was asked for
    pc,                 \* where each builder is
    chunks, flushed,    \* of each file: pieces present, fsync done
    name,               \* the temporary name each builder was given
    temp,               \* the file that has a name, if any
    dest,               \* the file at the path
    onDisk,             \* the files the path may have after a crash
    published,          \* history: the files that came to the path, in order
    stuck,              \* history: builders whose unlink has failed
    crashes,
    reader              \* of each reader: what it has seen and opened

options == <<overwrite, layout>>
files == <<name, chunks, flushed>>
path == <<dest, onDisk, published>>
vars == <<options, pc, files, temp, path, stuck, crashes, reader>>

NewReader == [pc |-> "idle", magic |-> NoFile, file |-> NoFile]

Init ==
    /\ overwrite \in [Builder -> BOOLEAN]
    /\ layout \in [Builder -> Layout]
    /\ pc = [b \in Builder |-> "idle"]
    /\ chunks = [b \in Builder |-> 0]
    /\ flushed = [b \in Builder |-> FALSE]
    /\ name = [b \in Builder |-> NoFile]
    /\ temp = [n \in Name |-> NoFile]
    /\ dest = NoFile /\ onDisk = {NoFile} /\ published = <<>>
    /\ stuck = {}
    /\ crashes = 0
    /\ reader = [r \in Reader |-> NewReader]

GoTo(b, place) == pc' = [pc EXCEPT ![b] = place]

-----------------------------------------------------------------------------
\* mkstemp, which takes a free name, fchmod, ftruncate.
CreateTemporary(b) ==
    /\ pc[b] = "idle"
    /\ GoTo(b, "writing")
    /\ \E n \in Name :
         /\ temp[n] = NoFile
         /\ name' = [name EXCEPT ![b] = n]
         /\ temp' = [temp EXCEPT ![n] = b]
    /\ UNCHANGED <<options, chunks, flushed, path, stuck, crashes, reader>>

MoreToWrite(b) == chunks[b] < Chunks

\* WriteAt
WriteChunk(b) ==
    /\ pc[b] = "writing"
    /\ MoreToWrite(b)
    /\ chunks' = [chunks EXCEPT ![b] = @ + 1]
    /\ UNCHANGED <<options, pc, name, flushed, temp, path, stuck, crashes, reader>>

\* Slip: the file is closed without fsync.
SlipNotFlushed(b) == flushed
Flushed(b) == [flushed EXCEPT ![b] = TRUE]

\* fsync and close of the temporary file.
FlushFile(b) ==
    /\ pc[b] = "writing"
    /\ ~MoreToWrite(b)
    /\ GoTo(b, "closed")
    /\ flushed' = Flushed(b)
    /\ UNCHANGED <<options, name, chunks, temp, path, stuck, crashes, reader>>

\* The file that has b's temporary name: b's own, unless that was removed and
\* the name given to another builder.
Named(b) == temp[name[b]]

ComesToPath(file) ==
    /\ file # NoFile
    /\ dest' = file
    /\ onDisk' = onDisk \cup {file}
    /\ published' = Append(published, file)

\* Slip: the temporary name is left to the operating system.
SlipNotRemoved(b) == temp
Removed(b) == [temp EXCEPT ![name[b]] = NoFile]

\* rename: the temporary name becomes the path.
Rename(b) ==
    /\ pc[b] = "closed" /\ overwrite[b]
    /\ ComesToPath(Named(b))
    /\ temp' = [temp EXCEPT ![name[b]] = NoFile]
    /\ GoTo(b, "published")
    /\ UNCHANGED <<options, files, stuck, crashes, reader>>

\* Slip: link replaces what is there.
SlipReplace == TRUE
PathIsFree == dest = NoFile

\* link: the file gets the path as a second name, if nothing has it.
Link(b) ==
    /\ pc[b] = "closed" /\ ~overwrite[b]
    /\ PathIsFree
    /\ ComesToPath(Named(b))
    /\ GoTo(b, "linked")
    /\ UNCHANGED <<options, files, temp, stuck, crashes, reader>>

\* unlink of the temporary name.
Unlink(b) ==
    /\ pc[b] = "linked"
    /\ Named(b) # NoFile
    /\ temp' = Removed(b)
    /\ GoTo(b, "published")
    /\ UNCHANGED <<options, files, path, stuck, crashes, reader>>

\* Slip: the directory is opened and closed, not synchronised.
SlipDirectoryNotFlushed == onDisk
DirectoryFlushed == {dest}

\* open, fsync and close of the directory; Build returns.
FlushDirectory(b) ==
    /\ pc[b] = "published"
    /\ onDisk' = DirectoryFlushed
    /\ GoTo(b, "succeeded")
    /\ UNCHANGED <<options, files, temp, dest, published, stuck, crashes, reader>>

\* A system call fails, of those made before the file has the path or of those
\* made after; a link fails also because the path is taken, and each of rename,
\* link and unlink because the name is gone.  fsync and close may fail with the
\* data on disk or not.
Fail(b) ==
    /\ pc[b] \in {"idle", "writing", "closed", "linked", "published"}
    /\ GoTo(b, IF pc[b] = "idle" THEN "failed" ELSE "cleanup")
    /\ onDisk' \in {onDisk} \cup (IF pc[b] = "published" THEN {{dest}} ELSE {})
    /\ UNCHANGED <<options, files, temp, dest, published, stuck, crashes, reader>>

\* The catch block: close, and unlink whose result is not looked at; it is tried
\* also when the rename has freed the name.  The exception goes on.
CleanUp(b) ==
    /\ pc[b] = "cleanup"
    /\ GoTo(b, "failed")
    /\ \/ temp' = Removed(b) /\ UNCHANGED stuck
       \/ stuck' = stuck \cup {b} /\ UNCHANGED temp
    /\ UNCHANGED <<options, files, path, crashes, reader>>

Ended == {"succeeded", "failed", "killed"}

Kill(b) ==
    /\ pc[b] \notin Ended \cup {"idle"}
    /\ GoTo(b, "killed")
    /\ UNCHANGED <<options, files, temp, path, stuck, crashes, reader>>

\* The machine crashes and comes back: every process is gone, the directory and
\* the files are what the disk has of them.
Crash ==
    /\ crashes < MaxCrashes
    /\ crashes' = crashes + 1
    /\ dest' \in onDisk
    /\ onDisk' = {dest'}
    /\ pc' = [b \in Builder |-> IF pc[b] \in {"idle", "succeeded"} THEN pc[b] ELSE "killed"]
    /\ chunks' \in [Builder -> 0 .. Chunks]
    /\ \A b \in Builder : /\ chunks'[b] <= chunks[b]
                          /\ flushed[b] => chunks'[b] = chunks[b]
    /\ reader' = [r \in Reader |-> NewReader]
    /\ UNCHANGED <<options, name, flushed, temp, published, stuck>>

\* PersistentIndex::Open opens the path for its magic, closes it, and opens it
\* again as the layout it found; that layout's Open looks at the magic again.
ReadMagic(r) ==
    /\ reader[r].pc = "idle"
    /\ reader' = [reader EXCEPT ![r] =
                    IF dest = NoFile THEN [@ EXCEPT !.pc = "failed"]
                    ELSE [@ EXCEPT !.pc = "opening", !.magic = layout[dest]]]
    /\ UNCHANGED <<options, pc, files, temp, path, stuck, crashes>>

\* Slip: the magic is looked at only once.
SlipTrustMagic(r) == TRUE
MagicMatches(r) == layout[dest] = reader[r].magic

OpenLayout(r) ==
    /\ reader[r].pc = "opening"
    /\ reader' = [reader EXCEPT ![r] =
                    IF dest # NoFile /\ MagicMatches(r)
                      THEN [@ EXCEPT !.pc = "open", !.file = dest]
                      ELSE [@ EXCEPT !.pc = "failed"]]
    /\ UNCHANGED <<options, pc, files, temp, path, stuck, crashes>>

\* The reader lets go of what it has.
CloseIndex(r) ==
    /\ reader[r].pc \in {"open", "failed"}
    /\ reader' = [reader EXCEPT ![r] = NewReader]
    /\ UNCHANGED <<options, pc, files, temp, path, stuck, crashes>>

BuilderStep(b) ==
    \/ CreateTemporary(b) \/ WriteChunk(b) \/ FlushFile(b)
    \/ Rename(b) \/ Link(b) \/ Unlink(b) \/ FlushDirectory(b)
    \/ Fail(b) \/ CleanUp(b) \/ Kill(b)

ReaderStep(r) == ReadMagic(r) \/ OpenLayout(r) \/ CloseIndex(r)

Next ==
    \/ \E b \in Builder : BuilderStep(b)
    \/ \E r \in Reader : ReaderStep(r)
    \/ Crash

Spec == Init /\ [][Next]_vars

-----------------------------------------------------------------------------
Whole(b) == chunks[b] = Chunks /\ flushed[b]

\* Whatever fails, whoever is killed, and after a crash too: the path never
\* leads to a part of an index.
PathLeadsToWholeIndex == \A b \in onDisk \ {NoFile} : Whole(b)

\* An open index is whole and is used as the layout it has, though the path was
\* looked up twice and may have changed in between.
OpenedIndexIsWhole ==
    \A r \in Reader : reader[r].pc = "open" =>
        Whole(reader[r].file) /\ layout[reader[r].file] = reader[r].magic

\* An index at the path is replaced only by a builder that was asked to
\* overwrite; a crash apart, it never disappears.
NeverClobbered ==
    [][ dest # NoFile /\ dest' # dest /\ crashes' = crashes =>
          dest' # NoFile /\ \E b \in Builder : overwrite[b] /\ pc'[b] # pc[b] ]_vars

PublishedBefore(a, b) ==
    \E i, j \in DOMAIN published : i < j /\ published[i] = a /\ published[j] = b

\* When Build has returned, no crash takes the index back: the path leads to it
\* or to one that came later.
SuccessIsDurable ==
    \A b \in Builder : pc[b] = "succeeded" =>
        \A d \in onDisk : d = b \/ PublishedBefore(b, d)

\* However a build ends, its temporary file is gone, unless unlink itself
\* failed or the process died.
TemporaryIsRemoved ==
    \A b \in Builder : pc[b] \in {"succeeded", "failed"} =>
        b \in stuck \/ \A n \in Name : temp[n] # b
=============================================================================
