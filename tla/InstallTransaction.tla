------------------------- MODULE InstallTransaction -------------------------
(***************************************************************************)
(* The transaction of scripts/install.py: every write or removal first     *)
(* keeps a copy of the original, and an exception at any point puts the    *)
(* originals back.  What is written is left to the module that uses it.    *)
(*                                                                         *)
(* A step is one call of write, remove_file or record_directory with the   *)
(* mkdir it is for, or one turn of a loop of _rollback.  Each may fail half *)
(* way.  Other programs may replace a file by a dangling symbolic link or  *)
(* by a directory meanwhile, and leave files in a directory; the process   *)
(* may be killed.                                                          *)
(***************************************************************************)
EXTENDS Naturals, Sequences

CONSTANTS
    File,           \* paths the installer writes
    Dir,            \* directories that may have to be made for them
    DirOf,          \* File -> Dir, path.parent
    Above,          \* Dir -> the directory and all of its parents in Dir
    Content,        \* what a regular file can hold
    NoFile,         \* nothing at the path
    Torn,           \* a regular file cut short while it was written
    Symlink, Folder \* what another program may put in its place

ASSUME TransactionConstants ==
    /\ DirOf \in [File -> Dir]
    /\ Above \in [Dir -> SUBSET Dir]
    /\ \A d \in Dir : d \in Above[d]
    /\ \A d \in Dir : \A e \in Above[d] : Above[e] \subseteq Above[d]
    /\ {NoFile, Symlink, Folder} \cap Content = {}
    /\ Torn \notin {NoFile, Symlink, Folder}
    /\ NoFile # Symlink /\ NoFile # Folder /\ Symlink # Folder

VARIABLES
    file,       \* what is at each path
    dirs,       \* the directories there are
    litter,     \* directories another program left something in
    phase,      \* idle, open, undo_files or undo_dirs
    log,        \* _files, in the order of recording
    missing,    \* _missing_directories
    todo,       \* how many entries of log _rollback still has before it
    failed,     \* has _rollback collected a failure?
    result,     \* how the last transaction ended
    before, beforeDirs,     \* the tree when the transaction began
    meddled     \* paths other programs have replaced since

disk == <<file, dirs, litter>>
txVars == <<file, dirs, litter, phase, log, missing, todo, failed, result,
            before, beforeDirs, meddled>>

Node == Content \cup {NoFile, Torn, Symlink, Folder}
Regular(x) == x \notin {NoFile, Symlink, Folder}

\* An entry of _files: the path and the copy of what was there.
Entry == [path : File, backup : Node]

TypeOK ==
    /\ file \in [File -> Node] /\ before \in [File -> Node]
    /\ dirs \subseteq Dir /\ beforeDirs \subseteq Dir
    /\ litter \subseteq Dir /\ missing \subseteq Dir
    /\ phase \in {"idle", "open", "undo_files", "undo_dirs"}
    /\ log \in Seq(Entry)
    /\ todo \in 0..Len(log)
    /\ failed \in BOOLEAN
    /\ result \in {"none", "refused", "verified", "installed", "rolled_back",
                   "rollback_failed", "killed"}
    /\ meddled \subseteq File

TxInit ==
    /\ file \in [File -> Node]
    /\ dirs \in SUBSET Dir
    /\ litter = {}
    /\ phase = "idle" /\ result = "none"
    /\ log = <<>> /\ missing = {} /\ todo = 0 /\ failed = FALSE
    /\ before = file /\ beforeDirs = dirs /\ meddled = {}

-----------------------------------------------------------------------------
(* Recording.                                                              *)

Recorded == {log[i].path : i \in DOMAIN log}

\* _record_missing_directories walks up to the first parent there is.
MissingDirs(d) == Above[d] \ dirs

\* Mutant: a file that is recorded again has its copy replaced by what the
\* installer has written in the meantime.
RecordFileAgain(f) ==
    /\ log' = IF f \in Recorded
              THEN [i \in DOMAIN log |-> IF log[i].path = f
                                         THEN [path |-> f, backup |-> file[f]] ELSE log[i]]
              ELSE Append(log, [path |-> f, backup |-> file[f]])
    /\ missing' = missing \cup MissingDirs(DirOf[f])

\* record_file: the first time, the directories to be made and the original.
RecordFile(f) ==
    IF f \in Recorded
    THEN UNCHANGED <<log, missing>>
    ELSE /\ log' = Append(log, [path |-> f, backup |-> file[f]])
         /\ missing' = missing \cup MissingDirs(DirOf[f])

-----------------------------------------------------------------------------
(* The transaction.                                                        *)

Begin ==
    /\ phase = "idle"
    /\ phase' = "open"
    /\ result' = "none"
    /\ UNCHANGED <<disk, log, missing, todo, failed, before, beforeDirs, meddled>>

\* write, where the text differs from what is there.
Write(f, c) ==
    /\ phase = "open"
    /\ Regular(file[f]) \/ file[f] = NoFile
    /\ RecordFile(f)
    /\ dirs' = dirs \cup Above[DirOf[f]]
    /\ file' = [file EXCEPT ![f] = c]
    /\ UNCHANGED <<litter, phase, todo, failed, result, before, beforeDirs, meddled>>

\* remove_file of a regular file.
Remove(f) ==
    /\ phase = "open"
    /\ Regular(file[f])
    /\ RecordFile(f)
    /\ file' = [file EXCEPT ![f] = NoFile]
    /\ UNCHANGED <<dirs, litter, phase, todo, failed, result, before, beforeDirs, meddled>>

\* record_directory and the mkdir that follows it.
MakeDir(d) ==
    /\ phase = "open"
    /\ missing' = missing \cup MissingDirs(d)
    /\ dirs' = dirs \cup Above[d]
    /\ UNCHANGED <<file, litter, phase, log, todo, failed, result, before, beforeDirs, meddled>>

\* An exception leaves the with statement: __exit__ calls _rollback.
Rollback ==
    /\ phase' = "undo_files"
    /\ todo' = Len(log')
    /\ UNCHANGED <<litter, failed, result, before, beforeDirs, meddled>>

\* An InstallError or a failed read: nothing is written.
Raise ==
    /\ phase = "open"
    /\ UNCHANGED <<file, dirs, log, missing>>
    /\ Rollback

\* What a mkdir(parents=True) that fails can leave behind.
PartialDirs(d) ==
    {dirs \cup E : E \in {S \in SUBSET MissingDirs(d) :
                            \A e \in S : Above[e] \subseteq dirs \cup S}}

\* write fails: at the backup, at the mkdir, or in write_text, which has
\* truncated the file by then.
WriteFails(f) ==
    /\ phase = "open"
    /\ Regular(file[f]) \/ file[f] = NoFile
    /\ \/ /\ f \notin Recorded
          /\ missing' = missing \cup MissingDirs(DirOf[f])
          /\ UNCHANGED <<log, file, dirs>>
       \/ /\ RecordFile(f)
          /\ dirs' \in PartialDirs(DirOf[f])
          /\ UNCHANGED file
       \/ /\ RecordFile(f)
          /\ dirs' = dirs \cup Above[DirOf[f]]
          /\ file' = [file EXCEPT ![f] = Torn]
    /\ Rollback

\* remove_file fails: at the backup or at the unlink.
RemoveFails(f) ==
    /\ phase = "open"
    /\ Regular(file[f])
    /\ UNCHANGED <<log, missing>> \/ RecordFile(f)
    /\ UNCHANGED <<file, dirs>>
    /\ Rollback

MakeDirFails(d) ==
    /\ phase = "open"
    /\ missing' = missing \cup MissingDirs(d)
    /\ dirs' \in PartialDirs(d)
    /\ UNCHANGED <<log, file>>
    /\ Rollback

\* __exit__ clears the active transaction and deletes the backups, whatever
\* the outcome.
End(r) ==
    /\ phase' = "idle"
    /\ result' = r
    /\ log' = <<>> /\ missing' = {} /\ todo' = 0 /\ failed' = FALSE
    /\ before' = file' /\ beforeDirs' = dirs' /\ meddled' = {}

Commit ==
    /\ phase = "open"
    /\ UNCHANGED disk
    /\ End("installed")

-----------------------------------------------------------------------------
(* _rollback: files in reverse order, then directories, deepest first.     *)

Undoing(i) == phase = "undo_files" /\ todo = i /\ i > 0

\* Mutant: a file the installer created is left where it is.
UndoFileOldOnly(i) ==
    /\ Undoing(i)
    /\ file[log[i].path] # Folder
    /\ IF log[i].backup = NoFile
       THEN UNCHANGED <<file, dirs>>
       ELSE /\ file' = [file EXCEPT ![log[i].path] = log[i].backup]
            /\ dirs' = dirs \cup Above[DirOf[log[i].path]]
    /\ todo' = i - 1
    /\ UNCHANGED <<litter, phase, log, missing, failed, result, before, beforeDirs, meddled>>

\* A new file or a link is unlinked, the original copied back.
UndoFile(i) ==
    /\ Undoing(i)
    /\ file[log[i].path] # Folder
    /\ file' = [file EXCEPT ![log[i].path] = log[i].backup]
    /\ dirs' = IF log[i].backup = NoFile THEN dirs
               ELSE dirs \cup Above[DirOf[log[i].path]]
    /\ todo' = i - 1
    /\ UNCHANGED <<litter, phase, log, missing, failed, result, before, beforeDirs, meddled>>

\* What a failure to restore f from b can leave there.
UndoLeaves(f, b) ==
    {file[f]} \cup (IF file[f] = Folder \/ b = NoFile THEN {}
                    ELSE IF file[f] = Symlink THEN {NoFile, Torn} ELSE {Torn})

\* A directory in the way, or an OSError: noted, and the loop goes on.
UndoFileFails(i) ==
    /\ Undoing(i)
    /\ \E x \in UndoLeaves(log[i].path, log[i].backup) :
            file' = [file EXCEPT ![log[i].path] = x]
    /\ failed' = TRUE
    /\ todo' = i - 1
    /\ UNCHANGED <<dirs, litter, phase, log, missing, result, before, beforeDirs, meddled>>

UndoFilesDone ==
    /\ phase = "undo_files" /\ todo = 0
    /\ phase' = "undo_dirs"
    /\ UNCHANGED <<disk, log, missing, todo, failed, result, before, beforeDirs, meddled>>

Empty(d) ==
    /\ d \notin litter
    /\ \A f \in File : DirOf[f] = d => file[f] = NoFile
    /\ \A e \in dirs \ {d} : d \notin Above[e]

Deepest(d) == d \in missing /\ \A e \in missing \ {d} : d \notin Above[e]

\* rmdir, with FileNotFoundError passed over.
UndoDir(d) ==
    /\ phase = "undo_dirs" /\ Deepest(d)
    /\ d \in dirs => Empty(d)
    /\ dirs' = dirs \ {d}
    /\ missing' = missing \ {d}
    /\ UNCHANGED <<file, litter, phase, log, todo, failed, result, before, beforeDirs, meddled>>

UndoDirFails(d) ==
    /\ phase = "undo_dirs" /\ Deepest(d)
    /\ d \in dirs
    /\ missing' = missing \ {d}
    /\ failed' = TRUE
    /\ UNCHANGED <<disk, phase, log, todo, result, before, beforeDirs, meddled>>

Undone ==
    /\ phase = "undo_dirs" /\ missing = {}
    /\ UNCHANGED disk
    /\ End(IF failed THEN "rollback_failed" ELSE "rolled_back")

-----------------------------------------------------------------------------
(* External: what else can happen.                                         *)

\* SIGKILL or a crash; an interrupt during _rollback, which it does not catch,
\* has the same effect.
Kill ==
    /\ phase # "idle"
    /\ UNCHANGED disk
    /\ End("killed")

\* ... in the middle of write_text.
KillInWrite(f) ==
    /\ phase = "open"
    /\ Regular(file[f]) \/ file[f] = NoFile
    /\ dirs' = dirs \cup Above[DirOf[f]]
    /\ file' = [file EXCEPT ![f] = Torn]
    /\ UNCHANGED litter
    /\ End("killed")

Meddle(f, x) ==
    /\ phase # "idle"
    /\ DirOf[f] \in dirs
    /\ file' = [file EXCEPT ![f] = x]
    /\ meddled' = meddled \cup {f}
    /\ UNCHANGED <<dirs, litter, phase, log, missing, todo, failed, result, before, beforeDirs>>

Litter(d) ==
    /\ d \in dirs
    /\ litter' = litter \cup {d}
    /\ UNCHANGED <<file, dirs, phase, log, missing, todo, failed, result, before, beforeDirs, meddled>>

Undo ==
    \/ \E i \in DOMAIN log : UndoFile(i) \/ UndoFileFails(i)
    \/ UndoFilesDone
    \/ \E d \in Dir : UndoDir(d) \/ UndoDirFails(d)
    \/ Undone

\* Between transactions the tree is everybody's.
Outside ==
    /\ phase = "idle"
    /\ file' \in [File -> Node]
    /\ dirs' \in SUBSET Dir
    /\ result' \in {"none", "refused", "verified"}
    /\ before' = file' /\ beforeDirs' = dirs'
    /\ UNCHANGED <<litter, phase, log, missing, todo, failed, meddled>>

\* write is called with whatever text the patches come to.
WriteSome(f) == file'[f] \in Content /\ Write(f, file'[f])

TxNext ==
    \/ Begin \/ Commit \/ Raise \/ Undo \/ Kill \/ Outside
    \/ \E f \in File : \/ WriteSome(f) \/ Remove(f) \/ WriteFails(f) \/ RemoveFails(f) \/ KillInWrite(f)
                       \/ \E x \in {Symlink, Folder} : Meddle(f, x)
    \/ \E d \in Dir : MakeDir(d) \/ MakeDirFails(d) \/ Litter(d)

TxSpec == TxInit /\ [][TxNext]_txVars

-----------------------------------------------------------------------------
(* Properties.                                                             *)

\* While a transaction is open or being rolled back, whatever it has changed
\* can be put back: the copy kept for the path is the one from before the
\* transaction, however often the file was written, and every directory made
\* is on the list.
ChangedHasBackup ==
    phase # "idle" =>
        /\ \A f \in File \ meddled :
              \/ file[f] = before[f]
              \/ \E i \in DOMAIN log : log[i].path = f /\ log[i].backup = before[f]
        /\ dirs \ beforeDirs \subseteq missing \/ failed

\* "installation rolled back" is only said of a tree that is what it was: all
\* files and directories, wherever the installation failed, except the paths
\* other programs have replaced; otherwise the failure is reported.
RollbackRestores ==
    [][ phase # "idle" /\ result' = "rolled_back" =>
            /\ \A f \in File \ meddled : file'[f] = before[f]
            /\ dirs' = beforeDirs ]_txVars
=============================================================================
