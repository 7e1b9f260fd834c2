-------------------------- MODULE Installer_proofs --------------------------
(***************************************************************************)
(* The transaction first, for any set of files, directories and texts: the *)
(* copies suffice at every moment, and a rollback that reports success has *)
(* put everything back.  What the runs check is not inductive: that a copy *)
(* is the original is true because a file without a copy has not been      *)
(* touched yet, that a restore makes no directory that stays because the   *)
(* parents of every recorded path are on the list.  TxInv collects what    *)
(* the steps need of each other.                                           *)
(*                                                                         *)
(* Then the installer as a whole, for any trees, environments and number   *)
(* of faults: every step of it is a step of the transaction, so what is    *)
(* shown of the transaction holds of the installer; a tree that verify     *)
(* accepts has every hook in its place; installing into such a tree again  *)
(* changes nothing of it; no object file lies next to sources it was not   *)
(* made from; and an installation that ends well leaves what verify        *)
(* accepts.                                                                *)
(*                                                                         *)
(* The refinement needs that every patch makes a text of a text (the       *)
(* lemmas on SourcePatches), and that no patch is applied to a file cut    *)
(* short, which holds while a transaction is open.                         *)
(*                                                                         *)
(* The object file is removed before its first source is written, and in a *)
(* rollback it comes back after the last of them: the log is undone from   *)
(* its end (ObjectFirst).                                                  *)
(*                                                                         *)
(* That an installation leaves what verify accepts rests on two things:    *)
(* what a patch has put in passes its check (InPlace), and no later step   *)
(* of the program undoes it (StepOrder, LaterKeeps).                       *)
(***************************************************************************)
EXTENDS Installer, TLAPS

\* Between transactions nothing is left of the last one.
IdleClean ==
    phase = "idle" =>
        /\ log = <<>> /\ missing = {} /\ todo = 0 /\ meddled = {}
        /\ before = file /\ beforeDirs = dirs

\* A failure is noted by _rollback only, and nothing is said before the end.
Underway ==
    /\ phase \in {"idle", "open"} => ~failed
    /\ phase # "idle" => result = "none"
    /\ phase = "undo_dirs" => todo = 0

\* A file without a copy is as it was.
Untouched == \A f \in File \ meddled : f \notin Recorded => file[f] = before[f]

\* The copies are the originals.
CopiesOf(l) == \A i \in DOMAIN l : l[i].path \notin meddled => l[i].backup = before[l[i].path]

\* What _rollback has been through is as it was.
Restored ==
    phase \in {"undo_files", "undo_dirs"} /\ ~failed =>
        \A i \in DOMAIN log :
            i > todo /\ log[i].path \notin meddled => file[log[i].path] = before[log[i].path]

\* Directories there were are there, and are not on the list; new ones are.
DirsKept == beforeDirs \subseteq dirs /\ missing \cap beforeDirs = {}
DirsListed == failed \/ dirs \subseteq beforeDirs \cup missing

\* The parents of every recorded path were there or are on the list.
ParentsListed(l, m) == \A i \in DOMAIN l : Above[DirOf[l[i].path]] \subseteq beforeDirs \cup m

TxInv ==
    /\ TypeOK
    /\ IdleClean
    /\ Underway
    /\ Untouched
    /\ CopiesOf(log)
    /\ Restored
    /\ DirsKept
    /\ DirsListed
    /\ phase # "undo_dirs" => ParentsListed(log, missing)

-----------------------------------------------------------------------------
(* Recording.                                                              *)

LEMMA EntryTyped ==
    ASSUME TypeOK, NEW i \in DOMAIN log
    PROVE  log[i].path \in File /\ log[i].backup \in Node
<1>1. log[i] \in Entry
  BY DEF TypeOK
<1> QED
  BY <1>1 DEF Entry

\* After record_file(f) the path has a copy, which is the original.
LEMMA RecordFileKeeps ==
    ASSUME TxInv, phase = "open", NEW f \in File, RecordFile(f)
    PROVE  /\ log' \in Seq(Entry)
           /\ DOMAIN log \subseteq DOMAIN log'
           /\ {log'[i].path : i \in DOMAIN log'} = Recorded \cup {f}
           /\ CopiesOf(log')
           /\ missing' \in SUBSET Dir /\ missing \subseteq missing'
           /\ missing' \cap beforeDirs = {}
           /\ Above[DirOf[f]] \subseteq beforeDirs \cup missing'
           /\ ParentsListed(log', missing')
<1> DEFINE e == [path |-> f, backup |-> file[f]]
<1>1. /\ log \in Seq(Entry) /\ file \in [File -> Node] /\ ~failed
      /\ DirOf[f] \in Dir /\ Above[DirOf[f]] \subseteq Dir
      /\ dirs \subseteq beforeDirs \cup missing /\ missing \subseteq Dir
      /\ beforeDirs \subseteq dirs /\ missing \cap beforeDirs = {}
  BY TransactionConstants DEF TxInv, TypeOK, DirsListed, DirsKept, Underway
<1>2. CASE f \in Recorded
  <2>1. log' = log /\ missing' = missing
    BY <1>2 DEF RecordFile
  <2>2. PICK i \in DOMAIN log : log[i].path = f
    BY <1>2 DEF Recorded
  <2>3. CopiesOf(log) /\ ParentsListed(log, missing)
    BY DEF TxInv
  <2>4. Above[DirOf[f]] \subseteq beforeDirs \cup missing
    BY <2>2, <2>3 DEF ParentsListed
  <2> QED
    BY <1>1, <1>2, <2>1, <2>3, <2>4 DEF Recorded
<1>3. CASE f \notin Recorded
  <2>1. log' = Append(log, e) /\ missing' = missing \cup MissingDirs(DirOf[f])
    BY <1>3 DEF RecordFile
  <2>2. e \in Entry
    BY <1>1 DEF Entry
  <2>3. /\ log' \in Seq(Entry) /\ Len(log') = Len(log) + 1
        /\ DOMAIN log' = 1..(Len(log) + 1) /\ DOMAIN log = 1..Len(log)
        /\ \A i \in DOMAIN log : log'[i] = log[i]
        /\ log'[Len(log) + 1] = e
    BY <1>1, <2>1, <2>2
  <2>4. Len(log) \in Nat
    BY <1>1
  <2>5. \A i \in DOMAIN log' : i \in DOMAIN log \/ i = Len(log) + 1
    BY <2>3, <2>4
  <2>6. DOMAIN log \subseteq DOMAIN log'
    BY <2>3, <2>4
  <2>7. {log'[i].path : i \in DOMAIN log'} = Recorded \cup {f}
    <3>1. Len(log) + 1 \in DOMAIN log'
      BY <2>3, <2>4
    <3> QED
      BY <2>3, <2>5, <2>6, <3>1 DEF Recorded
  <2>8. CopiesOf(log')
    <3>1. f \notin meddled => file[f] = before[f]
      BY <1>3 DEF TxInv, Untouched
    <3>2. CopiesOf(log)
      BY DEF TxInv
    <3> QED
      BY <2>3, <2>5, <3>1, <3>2 DEF CopiesOf
  <2>9. /\ missing' \subseteq Dir /\ missing \subseteq missing'
        /\ missing' \cap beforeDirs = {}
        /\ Above[DirOf[f]] \subseteq beforeDirs \cup missing'
    BY <1>1, <2>1 DEF MissingDirs
  <2>10. ParentsListed(log', missing')
    <3>1. ParentsListed(log, missing)
      BY DEF TxInv
    <3> QED
      BY <2>3, <2>5, <2>9, <3>1 DEF ParentsListed
  <2> QED
    BY <2>3, <2>6, <2>7, <2>8, <2>9, <2>10
<1> QED
  BY <1>2, <1>3

-----------------------------------------------------------------------------
(* The parts of the invariant under a step of an open transaction.         *)

\* Whatever a step writes to f after record_file(f), and whichever of the
\* parents of f it makes, the invariant holds while the transaction is open
\* and when the exception that ends the step has started _rollback.
LEMMA RecordedWriteKeeps ==
    ASSUME TxInv, phase = "open", NEW f \in File, NEW x \in Node, RecordFile(f),
           file' = [file EXCEPT ![f] = x],
           dirs \subseteq dirs', dirs' \subseteq dirs \cup Above[DirOf[f]],
           UNCHANGED <<litter, failed, result, before, beforeDirs, meddled>>,
           \/ phase' = "open" /\ todo' = todo
           \/ phase' = "undo_files" /\ todo' = Len(log')
    PROVE  TxInv'
<1>1. /\ log' \in Seq(Entry)
      /\ DOMAIN log \subseteq DOMAIN log'
      /\ {log'[i].path : i \in DOMAIN log'} = Recorded \cup {f}
      /\ CopiesOf(log')
      /\ missing' \in SUBSET Dir /\ missing \subseteq missing'
      /\ missing' \cap beforeDirs = {}
      /\ Above[DirOf[f]] \subseteq beforeDirs \cup missing'
      /\ ParentsListed(log', missing')
  BY RecordFileKeeps
<1>2. TypeOK /\ DirOf[f] \in Dir /\ Above[DirOf[f]] \subseteq Dir
  BY TransactionConstants DEF TxInv
<1>3. Len(log) \in Nat /\ Len(log') \in Nat /\ DOMAIN log = 1..Len(log)
      /\ DOMAIN log' = 1..Len(log') /\ todo \in 0..Len(log)
  BY <1>1, <1>2 DEF TypeOK
<1>4. Len(log) <= Len(log')
  <2>1. Len(log) = 0 \/ Len(log) \in 1..Len(log')
    BY <1>1, <1>3
  <2> QED
    BY <2>1, <1>3
<1>5. TypeOK'
  <2>1. todo' \in 0..Len(log')
    BY <1>3, <1>4
  <2>2. file' \in [File -> Node] /\ dirs' \subseteq Dir
    BY <1>2 DEF TypeOK
  <2> QED
    BY <1>1, <1>2, <2>1, <2>2 DEF TypeOK
<1>6. Untouched'
  BY <1>1, <1>2 DEF TxInv, Untouched, Recorded, TypeOK
<1>7. CopiesOf(log)'
  BY <1>1 DEF CopiesOf
<1>8. Restored'
  BY <1>3 DEF Restored
<1>9. ~failed /\ result = "none" /\ DirsKept /\ DirsListed
  BY DEF TxInv, Underway
<1>10. DirsKept' /\ DirsListed'
  BY <1>1, <1>9 DEF DirsKept, DirsListed
<1>11. IdleClean' /\ Underway'
  BY <1>9 DEF IdleClean, Underway
<1>12. ParentsListed(log, missing)'
  BY <1>1 DEF ParentsListed
<1> QED
  BY <1>5, <1>6, <1>7, <1>8, <1>10, <1>11, <1>12 DEF TxInv

\* The same of a step that changes no file and records none.
LEMMA DirStepKeeps ==
    ASSUME TxInv, phase = "open", NEW D \in SUBSET Dir,
           missing' = missing \cup (D \ dirs),
           dirs \subseteq dirs', dirs' \subseteq dirs \cup (missing' \cap D),
           UNCHANGED <<file, log, litter, failed, result, before, beforeDirs, meddled>>,
           \/ phase' = "open" /\ todo' = todo
           \/ phase' = "undo_files" /\ todo' = Len(log')
    PROVE  TxInv'
<1>1. TypeOK /\ DirsKept /\ DirsListed /\ ~failed /\ result = "none"
  BY DEF TxInv, Underway
<1>2. Len(log) \in Nat /\ DOMAIN log = 1..Len(log)
  BY <1>1 DEF TypeOK
<1>3. TypeOK'
  <2>1. todo' \in 0..Len(log')
    BY <1>1, <1>2 DEF TypeOK
  <2> QED
    BY <1>1, <2>1 DEF TypeOK
<1>4. Untouched' /\ CopiesOf(log)'
  BY DEF TxInv, Untouched, CopiesOf, Recorded
<1>5. Restored'
  BY <1>2 DEF Restored
<1>6. DirsKept' /\ DirsListed'
  BY <1>1 DEF DirsKept, DirsListed
<1>7. IdleClean' /\ Underway'
  BY <1>1 DEF IdleClean, Underway
<1>8. ParentsListed(log, missing)'
  BY DEF TxInv, ParentsListed
<1> QED
  BY <1>3, <1>4, <1>5, <1>6, <1>7, <1>8 DEF TxInv

\* The end of a transaction, whatever the outcome, leaves nothing of it.
LEMMA EndKeeps ==
    ASSUME TxInv, NEW r, End(r), file' \in [File -> Node], dirs' \in SUBSET Dir, litter' = litter,
           r \in {"installed", "rolled_back", "rollback_failed", "killed"}
    PROVE  TxInv'
<1>1. TypeOK
  BY DEF TxInv
<1>2. log' = <<>> /\ DOMAIN log' = {} /\ Len(log') = 0 /\ log' \in Seq(Entry)
  BY DEF End
<1>3. TypeOK'
  <2>1. todo' \in 0..Len(log') /\ meddled' \subseteq File /\ missing' \subseteq Dir
    BY <1>2 DEF End
  <2>2. /\ before' \in [File -> Node] /\ beforeDirs' \subseteq Dir /\ litter' \subseteq Dir
        /\ phase' \in {"idle", "open", "undo_files", "undo_dirs"} /\ failed' \in BOOLEAN
        /\ result' \in {"none", "refused", "verified", "installed", "rolled_back",
                        "rollback_failed", "killed"}
    BY <1>1 DEF TypeOK, End
  <2> QED
    BY <1>2, <2>1, <2>2 DEF TypeOK
<1>4. IdleClean' /\ Underway' /\ Untouched' /\ Restored' /\ DirsKept' /\ DirsListed'
  BY DEF End, IdleClean, Underway, Untouched, Restored, DirsKept, DirsListed
<1>5. CopiesOf(log)' /\ ParentsListed(log, missing)'
  BY <1>2 DEF CopiesOf, ParentsListed
<1> QED
  BY <1>3, <1>4, <1>5 DEF TxInv

\* An error before or in recording a path: the lists stay as they are, or
\* have the parents of the path as well.
LEMMA OpenStepKeeps ==
    ASSUME TxInv, NEW f \in File,
           WriteSome(f) \/ Remove(f) \/ WriteFails(f) \/ RemoveFails(f)
    PROVE  TxInv'
<1>1. /\ file \in [File -> Node] /\ DirOf[f] \in Dir /\ Above[DirOf[f]] \in SUBSET Dir
      /\ {Torn, NoFile} \subseteq Node /\ Content \subseteq Node
      /\ phase = "open"
  BY TransactionConstants DEF TxInv, TypeOK, Node, WriteSome, Write, Remove, WriteFails, RemoveFails
<1>2. file[f] \in Node /\ file = [file EXCEPT ![f] = file[f]]
  BY <1>1
<1>3. CASE WriteSome(f)
  BY <1>1, <1>3, RecordedWriteKeeps DEF WriteSome, Write
<1>4. CASE Remove(f)
  BY <1>1, <1>4, RecordedWriteKeeps DEF Remove
<1>5. CASE WriteFails(f)
  <2>1. /\ phase' = "undo_files" /\ todo' = Len(log')
        /\ UNCHANGED <<litter, failed, result, before, beforeDirs, meddled>>
    BY <1>5 DEF WriteFails, Rollback
  <2>2. CASE /\ f \notin Recorded
             /\ missing' = missing \cup MissingDirs(DirOf[f])
             /\ UNCHANGED <<log, file, dirs>>
    BY <1>1, <2>1, <2>2, DirStepKeeps DEF MissingDirs
  <2>3. CASE /\ RecordFile(f)
             /\ dirs' \in PartialDirs(DirOf[f])
             /\ UNCHANGED file
    <3>1. dirs \subseteq dirs' /\ dirs' \subseteq dirs \cup Above[DirOf[f]]
      BY <2>3 DEF PartialDirs, MissingDirs
    <3>2. file' = [file EXCEPT ![f] = file[f]]
      BY <1>2, <2>3
    <3> QED
      BY <1>1, <1>2, <2>1, <2>3, <3>1, <3>2, RecordedWriteKeeps
  <2>4. CASE /\ RecordFile(f)
             /\ dirs' = dirs \cup Above[DirOf[f]]
             /\ file' = [file EXCEPT ![f] = Torn]
    BY <1>1, <2>1, <2>4, RecordedWriteKeeps
  <2> QED
    BY <1>5, <2>2, <2>3, <2>4 DEF WriteFails
<1>6. CASE RemoveFails(f)
  <2>1. /\ phase' = "undo_files" /\ todo' = Len(log')
        /\ UNCHANGED <<file, dirs, litter, failed, result, before, beforeDirs, meddled>>
    BY <1>6 DEF RemoveFails, Rollback
  <2>2. CASE UNCHANGED <<log, missing>>
    <3> DEFINE D == {}
    <3>1. missing' = missing \cup (D \ dirs) /\ dirs' \subseteq dirs \cup (missing' \cap D)
          /\ D \in SUBSET Dir
      BY <2>1, <2>2
    <3> HIDE DEF D
    <3> QED
      BY <1>1, <2>1, <2>2, <3>1, DirStepKeeps
  <2>3. CASE RecordFile(f)
    <3>1. file' = [file EXCEPT ![f] = file[f]]
      BY <1>2, <2>1
    <3> QED
      BY <1>1, <1>2, <2>1, <2>3, <3>1, RecordedWriteKeeps
  <2> QED
    BY <1>6, <2>2, <2>3 DEF RemoveFails
<1> QED
  BY <1>3, <1>4, <1>5, <1>6

\* record_directory with its mkdir, and an exception that touches nothing.
LEMMA DirectoryStepKeeps ==
    ASSUME TxInv,
           Raise \/ \E d \in Dir : MakeDir(d) \/ MakeDirFails(d)
    PROVE  TxInv'
<1>1. CASE Raise
  <2> DEFINE D == {}
  <2>1. missing' = missing \cup (D \ dirs) /\ dirs' \subseteq dirs \cup (missing' \cap D)
        /\ D \in SUBSET Dir
    BY <1>1 DEF Raise
  <2> HIDE DEF D
  <2> QED
    BY <1>1, <2>1, DirStepKeeps DEF Raise, Rollback
<1>2. ASSUME NEW d \in Dir, MakeDir(d) \/ MakeDirFails(d)
      PROVE  TxInv'
  <2> DEFINE D == Above[d]
  <2>1. D \in SUBSET Dir
    BY TransactionConstants
  <2>2. /\ missing' = missing \cup (D \ dirs)
        /\ dirs \subseteq dirs' /\ dirs' \subseteq dirs \cup (D \ dirs)
    BY <1>2 DEF MakeDir, MakeDirFails, MissingDirs, PartialDirs
  <2>3. dirs' \subseteq dirs \cup (missing' \cap D)
    BY <2>2
  <2>4. /\ phase = "open"
        /\ UNCHANGED <<file, log, litter, failed, result, before, beforeDirs, meddled>>
        /\ \/ phase' = "open" /\ todo' = todo
           \/ phase' = "undo_files" /\ todo' = Len(log')
    BY <1>2 DEF MakeDir, MakeDirFails, Rollback
  <2> HIDE DEF D
  <2> QED
    BY <2>1, <2>2, <2>3, <2>4, DirStepKeeps
<1> QED
  BY <1>1, <1>2

-----------------------------------------------------------------------------
(* The steps of _rollback.                                                 *)

\* A restored file is as it was; the directories made for it are on the list.
LEMMA UndoFileKeeps ==
    ASSUME TxInv, NEW i \in DOMAIN log, UndoFile(i)
    PROVE  TxInv'
<1> DEFINE f == log[i].path
           b == log[i].backup
<1>1. TypeOK /\ Len(log) \in Nat /\ DOMAIN log = 1..Len(log) /\ log[i] \in Entry
  BY DEF TxInv, TypeOK
<1>2. f \in File /\ b \in Node
  BY <1>1 DEF Entry
<1>3. /\ phase = "undo_files" /\ todo = i /\ todo' = i - 1
      /\ file' = [file EXCEPT ![f] = b]
      /\ dirs \subseteq dirs' /\ dirs' \subseteq dirs \cup Above[DirOf[f]]
      /\ UNCHANGED <<litter, phase, log, missing, failed, result, before, beforeDirs, meddled>>
  BY DEF UndoFile, Undoing
<1>4. ParentsListed(log, missing) /\ CopiesOf(log) /\ DirsKept /\ DirsListed /\ Restored
      /\ Untouched /\ Underway
  BY <1>3 DEF TxInv
<1>5. Above[DirOf[f]] \subseteq beforeDirs \cup missing
  BY <1>4 DEF ParentsListed
<1>6. f \notin meddled => b = before[f]
  BY <1>4 DEF CopiesOf
<1>7. f \in Recorded
  BY DEF Recorded
<1> HIDE DEF f, b
<1>8. TypeOK'
  <2>1. todo' \in 0..Len(log')
    BY <1>1, <1>3 DEF TypeOK
  <2>2. file' \in [File -> Node]
    BY <1>1, <1>2, <1>3 DEF TypeOK
  <2>3. dirs' \subseteq Dir
    BY <1>1, <1>3, <1>5 DEF TypeOK
  <2> QED
    BY <1>1, <1>3, <2>1, <2>2, <2>3 DEF TypeOK
<1>9. Untouched'
  BY <1>1, <1>2, <1>3, <1>4, <1>7 DEF Untouched, Recorded, TypeOK
<1>10. CopiesOf(log)' /\ ParentsListed(log, missing)'
  BY <1>3, <1>4 DEF CopiesOf, ParentsListed
<1>11. Restored'
  <2>1. \A j \in DOMAIN log : log[j].path \in File
    BY <1>1, EntryTyped
  <2>2. \A j \in DOMAIN log : j > i - 1 => j = i \/ j > i
    BY <1>1
  <2>3. file \in [File -> Node]
    BY <1>1 DEF TypeOK
  <2>4. SUFFICES ASSUME ~failed, NEW j \in DOMAIN log, j > i - 1, log[j].path \notin meddled
                 PROVE  file'[log[j].path] = before[log[j].path]
    BY <1>3 DEF Restored
  <2>5. CASE log[j].path = f
    BY <1>2, <1>3, <1>6, <2>3, <2>4, <2>5
  <2>6. CASE log[j].path # f
    <3>1. j > i
      BY <2>2, <2>4, <2>6 DEF f
    <3>2. file[log[j].path] = before[log[j].path]
      BY <1>3, <1>4, <2>4, <3>1 DEF Restored
    <3> QED
      BY <1>3, <2>1, <2>3, <2>6, <3>2
  <2> QED
    BY <2>5, <2>6
<1>12. DirsKept' /\ DirsListed'
  BY <1>3, <1>4, <1>5 DEF DirsKept, DirsListed
<1>13. IdleClean' /\ Underway'
  BY <1>3, <1>4 DEF IdleClean, Underway
<1> QED
  BY <1>8, <1>9, <1>10, <1>11, <1>12, <1>13 DEF TxInv

\* A restore that fails is noted.
LEMMA UndoFileFailsKeeps ==
    ASSUME TxInv, NEW i \in DOMAIN log, UndoFileFails(i)
    PROVE  TxInv'
<1> DEFINE f == log[i].path
           b == log[i].backup
<1>1. TypeOK /\ Len(log) \in Nat /\ DOMAIN log = 1..Len(log) /\ log[i] \in Entry
  BY DEF TxInv, TypeOK
<1>2. f \in File /\ b \in Node /\ f \in Recorded
  BY <1>1 DEF Entry, Recorded
<1>3. PICK x \in UndoLeaves(f, b) : file' = [file EXCEPT ![f] = x]
  BY DEF UndoFileFails
<1>4. x \in Node
  BY <1>1, <1>2, <1>3 DEF UndoLeaves, Node, TypeOK
<1>5. /\ phase = "undo_files" /\ todo = i /\ todo' = i - 1 /\ failed'
      /\ UNCHANGED <<dirs, litter, phase, log, missing, result, before, beforeDirs, meddled>>
  BY DEF UndoFileFails, Undoing
<1> HIDE DEF f, b
<1>6. TypeOK'
  <2>1. todo' \in 0..Len(log')
    BY <1>1, <1>5
  <2>2. file' \in [File -> Node]
    BY <1>1, <1>2, <1>3, <1>4 DEF TypeOK
  <2>3. failed' \in BOOLEAN
    BY DEF UndoFileFails
  <2> QED
    BY <1>1, <1>5, <2>1, <2>2, <2>3 DEF TypeOK
<1>7. Untouched'
  BY <1>1, <1>2, <1>3, <1>5 DEF TxInv, Untouched, Recorded, TypeOK
<1>8. CopiesOf(log)' /\ ParentsListed(log, missing)'
  BY <1>5 DEF TxInv, CopiesOf, ParentsListed
<1>9. Restored' /\ DirsKept' /\ DirsListed' /\ IdleClean' /\ Underway'
  BY <1>5 DEF TxInv, Restored, DirsKept, DirsListed, IdleClean, Underway
<1> QED
  BY <1>6, <1>7, <1>8, <1>9 DEF TxInv

\* The loop over the directories: only ones that were made go.
LEMMA UndoDirKeeps ==
    ASSUME TxInv, UndoFilesDone \/ \E d \in Dir : UndoDir(d) \/ UndoDirFails(d)
    PROVE  TxInv'
<1>1. TypeOK /\ UNCHANGED <<file, litter, log, todo, result, before, beforeDirs, meddled>>
  BY DEF TxInv, UndoFilesDone, UndoDir, UndoDirFails, disk
<1>2. /\ phase \in {"undo_files", "undo_dirs"} /\ phase' = "undo_dirs" /\ todo = 0
      /\ failed' \in BOOLEAN
      /\ failed => failed'
  BY <1>1 DEF TxInv, Underway, UndoFilesDone, UndoDir, UndoDirFails, TypeOK
<1>3. dirs' \subseteq dirs /\ missing' \subseteq missing
  BY DEF UndoFilesDone, UndoDir, UndoDirFails, disk
<1>4. TypeOK'
  <2>1. todo' \in 0..Len(log') /\ log' \in Seq(Entry)
    BY <1>1 DEF TypeOK
  <2>2. dirs' \subseteq Dir /\ missing' \subseteq Dir
    BY <1>1, <1>3 DEF TypeOK
  <2> QED
    BY <1>1, <1>2, <2>1, <2>2 DEF TypeOK
<1>5. Untouched' /\ CopiesOf(log)'
  BY <1>1 DEF TxInv, Untouched, Recorded, CopiesOf
<1>6. Restored'
  BY <1>1, <1>2 DEF TxInv, Restored
<1>7. IdleClean' /\ Underway'
  BY <1>1, <1>2 DEF TxInv, IdleClean, Underway
<1>8. DirsKept' /\ DirsListed'
  <2>1. DirsKept /\ DirsListed
    BY DEF TxInv
  <2>2. CASE UndoFilesDone
    BY <1>1, <2>1, <2>2 DEF UndoFilesDone, disk, DirsKept, DirsListed
  <2>3. ASSUME NEW d \in Dir, UndoDir(d)
        PROVE  DirsKept' /\ DirsListed'
    BY <1>1, <2>1, <2>3 DEF UndoDir, Deepest, DirsKept, DirsListed
  <2>4. ASSUME NEW d \in Dir, UndoDirFails(d)
        PROVE  DirsKept' /\ DirsListed'
    BY <1>1, <2>1, <2>4 DEF UndoDirFails, disk, DirsKept, DirsListed
  <2> QED
    BY <2>2, <2>3, <2>4
<1> QED
  BY <1>2, <1>4, <1>5, <1>6, <1>7, <1>8 DEF TxInv

-----------------------------------------------------------------------------
(* The invariant.                                                          *)

\* The begin of a transaction and what the rest of the world does.
LEMMA OtherStepKeeps ==
    ASSUME TxInv,
           Begin \/ Outside \/ (\E f \in File, x \in {Symlink, Folder} : Meddle(f, x))
             \/ (\E d \in Dir : Litter(d)) \/ UNCHANGED txVars
    PROVE  TxInv'
<1>1. TypeOK
  BY DEF TxInv
<1>2. CASE Begin
  <2>1. /\ phase = "idle" /\ phase' = "open" /\ result' = "none"
        /\ UNCHANGED <<file, dirs, litter, log, missing, todo, failed, before, beforeDirs, meddled>>
    BY <1>2 DEF Begin, disk
  <2>2. TypeOK' /\ IdleClean' /\ Underway' /\ Restored'
    BY <1>1, <2>1 DEF TxInv, TypeOK, IdleClean, Underway, Restored
  <2>3. Untouched' /\ CopiesOf(log)' /\ DirsKept' /\ DirsListed' /\ ParentsListed(log, missing)'
    BY <2>1 DEF TxInv, Untouched, Recorded, CopiesOf, DirsKept, DirsListed, ParentsListed
  <2> QED
    BY <2>2, <2>3 DEF TxInv
<1>3. CASE Outside
  <2>1. /\ phase = "idle" /\ log = <<>> /\ missing = {} /\ meddled = {} /\ DOMAIN log = {}
        /\ UNCHANGED <<litter, phase, log, missing, todo, failed, meddled>>
        /\ before' = file' /\ beforeDirs' = dirs'
    BY <1>3 DEF TxInv, IdleClean, Outside
  <2>2. TypeOK'
    BY <1>1, <1>3 DEF TypeOK, Outside
  <2>3. IdleClean' /\ Underway' /\ Restored'
    BY <2>1 DEF TxInv, IdleClean, Underway, Restored
  <2>4. Untouched' /\ CopiesOf(log)' /\ DirsKept' /\ DirsListed' /\ ParentsListed(log, missing)'
    BY <2>1 DEF TxInv, Untouched, Recorded, CopiesOf, DirsKept, DirsListed, ParentsListed
  <2> QED
    BY <2>2, <2>3, <2>4 DEF TxInv
<1>4. ASSUME NEW f \in File, NEW x \in {Symlink, Folder}, Meddle(f, x)
      PROVE  TxInv'
  <2>1. /\ phase # "idle" /\ file' = [file EXCEPT ![f] = x] /\ meddled' = meddled \cup {f}
        /\ UNCHANGED <<dirs, litter, phase, log, missing, todo, failed, result, before, beforeDirs>>
    BY <1>4 DEF Meddle
  <2>2. file' \in [File -> Node] /\ \A g \in File \ {f} : file'[g] = file[g]
    BY <1>1, <2>1 DEF TypeOK, Node
  <2>3. TypeOK'
    BY <1>1, <2>1, <2>2 DEF TypeOK
  <2>4. IdleClean' /\ Underway' /\ DirsKept' /\ DirsListed'
    BY <2>1 DEF TxInv, IdleClean, Underway, DirsKept, DirsListed
  <2>5. Untouched' /\ CopiesOf(log)'
    BY <2>1, <2>2 DEF TxInv, Untouched, Recorded, CopiesOf
  <2>6. Restored'
    <3>1. \A j \in DOMAIN log : log[j].path \in File
      BY <1>1, EntryTyped
    <3> QED
      BY <2>1, <2>2, <3>1 DEF TxInv, Restored
  <2>7. phase # "undo_dirs" => ParentsListed(log, missing)'
    BY <2>1 DEF TxInv, ParentsListed
  <2> QED
    BY <2>1, <2>3, <2>4, <2>5, <2>6, <2>7 DEF TxInv
<1>5. ASSUME (\E d \in Dir : Litter(d)) \/ UNCHANGED txVars
      PROVE  TxInv'
  <2>1. /\ litter' \subseteq Dir
        /\ UNCHANGED <<file, dirs, phase, log, missing, todo, failed, result, before, beforeDirs, meddled>>
    BY <1>1, <1>5 DEF Litter, txVars, TypeOK
  <2>2. TypeOK' /\ IdleClean' /\ Underway' /\ Restored' /\ DirsKept' /\ DirsListed'
    BY <1>1, <2>1 DEF TxInv, TypeOK, IdleClean, Underway, Restored, DirsKept, DirsListed
  <2>3. Untouched' /\ CopiesOf(log)' /\ (phase # "undo_dirs" => ParentsListed(log, missing))'
    BY <2>1 DEF TxInv, Untouched, Recorded, CopiesOf, ParentsListed
  <2> QED
    BY <2>2, <2>3 DEF TxInv
<1> QED
  BY <1>2, <1>3, <1>4, <1>5

LEMMA InitTxInv == TxInit => TxInv
<1> SUFFICES ASSUME TxInit PROVE TxInv
  OBVIOUS
<1>1. DOMAIN log = {} /\ Len(log) = 0 /\ log \in Seq(Entry)
  BY DEF TxInit
<1>2. todo \in 0..Len(log)
  BY <1>1 DEF TxInit
<1>3. TypeOK
  BY <1>1, <1>2 DEF TxInit, TypeOK
<1> QED
  BY <1>1, <1>3 DEF TxInit, TxInv, IdleClean, Underway, Untouched, CopiesOf, Restored,
                    DirsKept, DirsListed, ParentsListed

LEMMA NextTxInv == TxInv /\ [TxNext]_txVars => TxInv'
<1> SUFFICES ASSUME TxInv, [TxNext]_txVars PROVE TxInv'
  OBVIOUS
<1>1. file \in [File -> Node] /\ dirs \in SUBSET Dir
  BY DEF TxInv, TypeOK
<1>2. CASE Commit \/ Undone \/ Kill
  BY <1>1, <1>2, EndKeeps DEF Commit, Undone, Kill, disk
<1>3. ASSUME NEW f \in File, KillInWrite(f)
      PROVE  TxInv'
  <2>1. file' \in [File -> Node] /\ dirs' \in SUBSET Dir
    BY <1>1, <1>3, TransactionConstants DEF KillInWrite, Node
  <2> QED
    BY <1>3, <2>1, EndKeeps DEF KillInWrite
<1>4. CASE Undo
  BY <1>2, <1>4, UndoFileKeeps, UndoFileFailsKeeps, UndoDirKeeps DEF Undo
<1>5. CASE Raise \/ \E d \in Dir : MakeDir(d) \/ MakeDirFails(d)
  BY <1>5, DirectoryStepKeeps
<1>6. ASSUME NEW f \in File, WriteSome(f) \/ Remove(f) \/ WriteFails(f) \/ RemoveFails(f)
      PROVE  TxInv'
  BY <1>6, OpenStepKeeps
<1>7. CASE Begin \/ Outside \/ (\E f \in File, x \in {Symlink, Folder} : Meddle(f, x))
             \/ (\E d \in Dir : Litter(d)) \/ UNCHANGED txVars
  BY <1>7, OtherStepKeeps
<1> QED
  BY <1>2, <1>3, <1>4, <1>5, <1>6, <1>7 DEF TxNext

\* The transaction keeps its types.
THEOREM TransactionTypeCorrect == TxSpec => []TypeOK
<1>1. TxInv => TypeOK
  BY DEF TxInv
<1> QED
  BY <1>1, InitTxInv, NextTxInv, PTL DEF TxSpec

\* At every moment of a transaction and of its rollback, whatever it has
\* changed can be put back: write, remove_file and mkdir come after the copy.
THEOREM ChangesCanBeUndone == TxSpec => []ChangedHasBackup
<1>1. TxInv => ChangedHasBackup
  <2> SUFFICES ASSUME TxInv PROVE ChangedHasBackup
    OBVIOUS
  <2>1. ASSUME NEW f \in File \ meddled, file[f] # before[f]
        PROVE  \E i \in DOMAIN log : log[i].path = f /\ log[i].backup = before[f]
    BY <2>1 DEF TxInv, Untouched, Recorded, CopiesOf
  <2>2. dirs \ beforeDirs \subseteq missing \/ failed
    BY DEF TxInv, DirsListed
  <2> QED
    BY <2>1, <2>2 DEF ChangedHasBackup
<1> QED
  BY <1>1, InitTxInv, NextTxInv, PTL DEF TxSpec

\* A rollback that reports success has put back every file and directory that
\* no other program has replaced, wherever the installation failed.
THEOREM RollbackIsComplete == TxSpec => RollbackRestores
<1>1. TxInv /\ [TxNext]_txVars =>
        [ phase # "idle" /\ result' = "rolled_back" =>
            /\ \A f \in File \ meddled : file'[f] = before[f]
            /\ dirs' = beforeDirs ]_txVars
  <2> SUFFICES ASSUME TxInv, TxNext, phase # "idle", result' = "rolled_back"
               PROVE  /\ \A f \in File \ meddled : file'[f] = before[f]
                      /\ dirs' = beforeDirs
    OBVIOUS
  <2>1. result = "none"
    BY DEF TxInv, Underway
  <2>2. Undone
    <3>1. ~Begin /\ ~Commit /\ ~Kill /\ ~Outside /\ ~Raise
      BY <2>1 DEF Begin, Commit, Kill, Outside, Raise, Rollback, End
    <3>2. \A f \in File : ~WriteSome(f) /\ ~Remove(f) /\ ~WriteFails(f)
                            /\ ~RemoveFails(f) /\ ~KillInWrite(f)
      BY <2>1 DEF WriteSome, Write, Remove, WriteFails, RemoveFails, KillInWrite, Rollback, End
    <3>3. \A f \in File, x \in {Symlink, Folder} : ~Meddle(f, x)
      BY <2>1 DEF Meddle
    <3>4. \A d \in Dir : ~MakeDir(d) /\ ~MakeDirFails(d) /\ ~Litter(d)
                           /\ ~UndoDir(d) /\ ~UndoDirFails(d)
      BY <2>1 DEF MakeDir, MakeDirFails, Litter, UndoDir, UndoDirFails, Rollback
    <3>5. ~UndoFilesDone /\ \A i \in DOMAIN log : ~UndoFile(i) /\ ~UndoFileFails(i)
      BY <2>1 DEF UndoFilesDone, UndoFile, UndoFileFails
    <3> QED
      BY <3>1, <3>2, <3>3, <3>4, <3>5 DEF TxNext, Undo
  <2>3. /\ phase = "undo_dirs" /\ missing = {} /\ ~failed /\ todo = 0
        /\ file' = file /\ dirs' = dirs
    BY <2>2 DEF TxInv, Underway, Undone, End, disk
  <2>4. dirs' = beforeDirs
    BY <2>3 DEF TxInv, DirsKept, DirsListed
  <2>5. ASSUME NEW f \in File \ meddled
        PROVE  file[f] = before[f]
    <3>1. CASE f \notin Recorded
      BY <3>1 DEF TxInv, Untouched
    <3>2. CASE f \in Recorded
      <4>1. PICK i \in DOMAIN log : log[i].path = f
        BY <3>2 DEF Recorded
      <4>2. i > todo
        BY <2>3 DEF TxInv, TypeOK
      <4> QED
        BY <2>3, <4>1, <4>2 DEF TxInv, Restored
    <3> QED
      BY <3>1, <3>2
  <2> QED
    BY <2>3, <2>4, <2>5
<1> QED
  BY <1>1, InitTxInv, NextTxInv, PTL DEF TxSpec, RollbackRestores

-----------------------------------------------------------------------------
(* The installer.                                                          *)

\* What can be at the path of f.
NodeOf(f) == TextOf(f) \cup {NoFile, Torn, Symlink, Folder}

\* The tree holds texts of the right kind, and no file is cut short.
Readable(tree) == \A f \in File : tree[f] \in NodeOf(f) /\ tree[f] # Torn

-----------------------------------------------------------------------------
(* The tables of the model.                                                *)

LEMMA CFiles ==
    /\ CFile = {"app_profile", "dispatch", "allowlist", "rules", "sucompat", "lsm_count",
                "seccomp", "namespace", "ptrace", "signal"}
    /\ HooksIn["app_profile"] = {"escape"} /\ HooksIn["dispatch"] = {"supercall"}
    /\ HooksIn["allowlist"] = {"revoke", "prune"} /\ HooksIn["rules"] = {"lock", "reapply"}
    /\ HooksIn["sucompat"] = {"sucompat", "manual"} /\ HooksIn["lsm_count"] = {"lsm_count"}
    /\ HooksIn["seccomp"] = {"seccomp"}
    /\ HooksIn["namespace"] =
            {"mount_privilege", "bind", "umount_privilege", "mount_result", "umount"}
    /\ HooksIn["ptrace"] = {"ptrace"} /\ HooksIn["signal"] = {"signal"}
BY DEF CFile, HooksIn

LEMMA FileOfHook ==
    ASSUME NEW h \in Hook
    PROVE  FileOf(h) \in CFile /\ h \in HooksIn[FileOf(h)]
<1>1. \E f \in CFile : h \in HooksIn[f]
  BY CFiles DEF Hook
<1> QED
  BY <1>1 DEF FileOf

\* The steps of install() that write one file.
FileStep == {"scan", "legacy_api", "core", "lsm", "kbuild", "kconfig", "allowlist", "header",
             "inc_seccomp", "inc_namespace", "inc_ptrace", "inc_signal", "bind_upgrade"}
            \cup (Hook \ {"revoke", "prune"})

LEMMA ProgramSteps ==
    \A i \in DOMAIN Program : Program[i] \in FileStep \cup {"make_target"}
BY DEF Program, CopySources, Patches, KernelHooks, FileStep, Hook

LEMMA StepTarget ==
    ASSUME NEW s \in FileStep
    PROVE  /\ TargetOf(s) \in File
           /\ s \in Hook => TargetOf(s) \in CFile /\ s \in HooksIn[TargetOf(s)]
           /\ s \in SourceFile \cup {"legacy_api", "kbuild", "kconfig", "allowlist", "header"} =>
                TargetOf(s) = s
           /\ s = "scan" => TargetOf(s) = "object"
           /\ s = "inc_seccomp" => TargetOf(s) = "seccomp"
           /\ s \in {"inc_namespace", "bind_upgrade"} => TargetOf(s) = "namespace"
           /\ s = "inc_ptrace" => TargetOf(s) = "ptrace"
           /\ s = "inc_signal" => TargetOf(s) = "signal"
<1>1. File = FileNames
  BY InstallerConstants
<1>2. CASE s \in Hook
  <2>1. TargetOf(s) = FileOf(s)
    BY <1>2 DEF TargetOf, Hook, SourceFile
  <2>2. FileOf(s) \in CFile /\ s \in HooksIn[FileOf(s)]
    BY <1>2, FileOfHook
  <2> QED
    BY <1>1, <1>2, <2>1, <2>2 DEF FileNames, Hook, SourceFile
<1>3. CASE s \notin Hook
  BY <1>1, <1>3, CFiles DEF TargetOf, FileStep, Hook, SourceFile, FileNames
<1> QED
  BY <1>2, <1>3

-----------------------------------------------------------------------------
(* The patches make texts of texts.                                        *)

CTextWith(H) == [inc : Include, sites : [H -> Condition]]

LEMMA RefusedIsNoText ==
    /\ \A f \in File : Refused \notin NodeOf(f) /\ Torn \notin TextOf(f)
    /\ \A f \in File : \A t \in TextOf(f) : Regular(t)
<1>1. \A f \in File : TextOf(f) \subseteq Content
  BY InstallerConstants
<1> QED
  BY <1>1, InstallerConstants, TransactionConstants DEF NodeOf, Regular

LEMMA PatchHookTyped ==
    ASSUME NEW H, NEW h \in H, NEW t \in CTextWith(H)
    PROVE  PatchHook(t, h) \in CTextWith(H) \cup {Refused}
<1>1. t.sites \in [H -> Condition] /\ t.inc \in Include
  BY DEF CTextWith
<1>2. ASSUME NEW c \in Condition
      PROVE  [t EXCEPT !.sites[h] = c] \in CTextWith(H)
  BY <1>1, <1>2 DEF CTextWith
<1>3. Inserted(t.sites[h]) \in Condition \cup {Refused}
  BY DEF Inserted, Condition
<1>4. SetSite(t, h, Inserted(t.sites[h])) \in CTextWith(H) \cup {Refused}
  BY <1>2, <1>3 DEF SetSite
<1> QED
  BY <1>4 DEF PatchHook

LEMMA PatchWithIncludeTyped ==
    ASSUME NEW H, NEW h \in H, NEW t \in CTextWith(H)
    PROVE  PatchWithInclude(t, h) \in CTextWith(H) \cup {Refused}
<1> DEFINE p == PatchHook(t, h)
<1>1. p \in CTextWith(H) \cup {Refused}
  BY PatchHookTyped
<1> HIDE DEF p
<1>2. p \in CTextWith(H) => [p EXCEPT !.inc = "placed"] \in CTextWith(H)
  BY DEF CTextWith, Include
<1> QED
  BY <1>1, <1>2 DEF PatchWithInclude, p

LEMMA OtherPatchesTyped ==
    ASSUME NEW H, NEW t \in CTextWith(H)
    PROVE  /\ NormalizeInclude(t) \in CTextWith(H) \cup {Refused}
           /\ "bind" \in H => UpgradeBind(t) \in CTextWith(H)
           /\ {"revoke", "prune"} \subseteq H => PatchAllowlist(t) \in CTextWith(H) \cup {Refused}
<1>1. t.sites \in [H -> Condition] /\ t.inc \in Include
  BY DEF CTextWith
<1>2. NormalizeInclude(t) \in CTextWith(H) \cup {Refused}
  BY <1>1 DEF NormalizeInclude, CTextWith, Include
<1>3. "bind" \in H => UpgradeBind(t) \in CTextWith(H)
  BY <1>1 DEF UpgradeBind, CTextWith, Condition
<1>4. ASSUME {"revoke", "prune"} \subseteq H
      PROVE  PatchAllowlist(t) \in CTextWith(H) \cup {Refused}
  <2> DEFINE r == Inserted(t.sites["revoke"])
             p == Inserted(t.sites["prune"])
  <2>1. r \in Condition \cup {Refused} /\ p \in Condition \cup {Refused}
    BY DEF Inserted, Condition
  <2> HIDE DEF r, p
  <2>2. r \in Condition /\ p \in Condition =>
            [t EXCEPT !.inc = "placed", !.sites["revoke"] = r, !.sites["prune"] = p] \in CTextWith(H)
    BY <1>1 DEF CTextWith, Include
  <2>3. \/ PatchAllowlist(t) \in {t, Refused}
        \/ /\ Refused \notin {r, p}
           /\ PatchAllowlist(t) =
                [t EXCEPT !.inc = "placed", !.sites["revoke"] = r, !.sites["prune"] = p]
    BY DEF PatchAllowlist, r, p
  <2> QED
    BY <2>1, <2>2, <2>3
<1> QED
  BY <1>2, <1>3, <1>4

\* A step that patches a C file.
CStep == FileStep \ {"scan", "legacy_api", "core", "lsm", "header", "kbuild", "kconfig"}

LEMMA PatchedCTyped ==
    ASSUME NEW s \in CStep, NEW t \in TextOf(TargetOf(s))
    PROVE  PatchedC(s, t) \in TextOf(TargetOf(s)) \cup {Refused}
<1> DEFINE H == HooksIn[TargetOf(s)]
<1>1. /\ TargetOf(s) \in CFile
      /\ s \in Hook => s \in H
      /\ s = "allowlist" => {"revoke", "prune"} \subseteq H
      /\ s = "bind_upgrade" => "bind" \in H
  BY StepTarget, CFiles DEF CStep, FileStep
<1>2. TextOf(TargetOf(s)) = CTextWith(H)
  BY <1>1, CFiles DEF TextOf, CText, CTextWith
<1> HIDE DEF H
<1>3. t \in CTextWith(H)
  BY <1>2
<1>4. CASE s \in Hook
  <2>1. PatchHook(t, s) \in CTextWith(H) \cup {Refused}
    BY <1>1, <1>3, <1>4, PatchHookTyped
  <2>2. PatchWithInclude(t, s) \in CTextWith(H) \cup {Refused}
    BY <1>1, <1>3, <1>4, PatchWithIncludeTyped
  <2>3. PatchedC(s, t) \in {PatchHook(t, s), PatchWithInclude(t, s)}
    BY <1>4 DEF Hook, CStep, FileStep, PatchedC, PatchEscape, PatchSupercallDispatch,
                PatchPolicyLockOrder, PatchPolicyReapply, PatchSucompatFailClosed,
                PatchManualFailClosed, PatchLsmCount, PatchSeccomp, PatchMountPrivilege, PatchBind,
                PatchUmountPrivilege, PatchMountResult, PatchUmount, PatchPtrace, PatchSignal
  <2> QED
    BY <1>2, <2>1, <2>2, <2>3
<1>5. CASE s \notin Hook
  <2>1. \/ s = "allowlist" /\ PatchedC(s, t) = PatchAllowlist(t)
        \/ s = "bind_upgrade" /\ PatchedC(s, t) = UpgradeBind(t)
        \/ PatchedC(s, t) = NormalizeInclude(t)
    BY <1>5 DEF Hook, CStep, FileStep, PatchedC
  <2> QED
    BY <1>1, <1>2, <1>3, <2>1, OtherPatchesTyped
<1> QED
  BY <1>4, <1>5

LEMMA TailPolicyTyped == TailPolicy \in {"never", "resukisu", Refused}
BY DEF TailPolicy

\* A step makes a text of its file, removes it, leaves it or refuses.
LEMMA PatchedTyped ==
    ASSUME NEW s \in FileStep, NEW tree, Readable(tree), TailPolicy # Refused
    PROVE  Patched(s, tree) \in TextOf(TargetOf(s)) \cup {Refused, NoFile, tree[TargetOf(s)]}
<1> DEFINE f == TargetOf(s)
           t == tree[f]
<1>1. f \in File /\ t \in NodeOf(f) /\ t # Torn
  BY StepTarget DEF Readable
<1>2. Regular(t) => t \in TextOf(f)
  BY <1>1 DEF Regular, NodeOf
<1>3. CASE s \in CStep
  <2>1. Regular(t) => PatchedC(s, t) \in TextOf(f) \cup {Refused}
    BY <1>2, <1>3, PatchedCTyped
  <2>2. Patched(s, tree) \in {t, Refused} \/ (Regular(t) /\ Patched(s, tree) = PatchedC(s, t))
    BY <1>3 DEF Patched, CStep, SourceFile
  <2> QED
    BY <2>1, <2>2
<1>4. CASE s \in {"core", "lsm", "header"}
  <2>1. TextOf(f) = OwnedText
    BY <1>4, StepTarget, CFiles DEF TextOf, SourceFile
  <2>2. Current \in OwnedText
    BY DEF Current, OwnedText
  <2>3. Patched(s, tree) \in {Refused, Current}
    BY <1>4 DEF Patched, SourceFile
  <2> QED
    BY <2>1, <2>2, <2>3
<1>5. CASE s = "scan"
  BY <1>5, StepTarget DEF Patched, Scanned
<1>6. CASE s = "legacy_api"
  BY <1>6 DEF Patched, SourceFile
<1>7. CASE s = "kbuild"
  <2>1. f = "kbuild" /\ TextOf(f) = KbuildText
    BY <1>7, StepTarget, CFiles DEF TextOf, SourceFile
  <2>2. Patched(s, tree) = IF Regular(t) THEN InstallKbuild(t, TailPolicy) ELSE Refused
    BY <1>7 DEF Patched, SourceFile
  <2>3. t \in KbuildText => InstallKbuild(t, TailPolicy) \in KbuildText \cup {Refused}
    BY TailPolicyTyped DEF InstallKbuild, KbuildText, KbuildBlock
  <2> QED
    BY <1>2, <2>1, <2>2, <2>3
<1>8. CASE s = "kconfig"
  <2>1. TextOf(f) = KconfigText
    BY <1>8, StepTarget, CFiles DEF TextOf, SourceFile
  <2>2. Patched(s, tree) \in {Refused, InstallKconfig(t)}
    BY <1>8 DEF Patched, SourceFile
  <2>3. InstallKconfig(t) \in KconfigText \cup {Refused}
    BY DEF InstallKconfig, KconfigText
  <2> QED
    BY <2>1, <2>2, <2>3
<1> QED
  BY <1>3, <1>4, <1>5, <1>6, <1>7, <1>8 DEF CStep

-----------------------------------------------------------------------------
(* The invariant of the refinement.                                        *)

FilesTyped == \A f \in File : file[f] \in NodeOf(f)
CopiesTyped(l) == \A i \in DOMAIN l : l[i].backup \in NodeOf(l[i].path)

InstInv ==
    /\ TxInv
    /\ layout \in Layout
    /\ FilesTyped
    /\ CopiesTyped(log)
    /\ phase = "open" => Intact
    /\ phase # "idle" => MayInstall

\* What an idle installer does, and what is done to the tree meanwhile.
IdleStep ==
    \/ StartRefused \/ Verify \/ VerifyRefused \/ Build \/ Reconfigure
    \/ \E f \in File : Tamper(f) \/ Restore(f)

\* The step the installation is at.
FileSteps == \E s \in FileStep : Step(s)

LEMMA NextCases ==
    ASSUME Next
    PROVE  \/ Start \/ IdleStep \/ MakeTarget \/ Finish \/ FileSteps
           \/ StepFails("make_target") \/ RollsBack \/ RollbackFails \/ Killed \/ Interfere
<1>1. ASSUME NEW i \in DOMAIN Program, Step(Program[i])
      PROVE  FileSteps \/ StepFails("make_target")
  <2>1. Program[i] \in FileStep \cup {"make_target"}
    BY ProgramSteps
  <2>2. Step("make_target") => StepFails("make_target")
    BY DEF Step, StepSame, StepWrites, StepRemoves, StepRaises
  <2> QED
    BY <1>1, <2>1, <2>2 DEF FileSteps
<1> QED
  BY <1>1 DEF Next, IdleStep

\* The texts that someone else may put into a file are texts.
LEMMA EditsTyped ==
    ASSUME NEW f \in File, file[f] \in NodeOf(f), NEW t \in Edits(f)
    PROVE  t \in NodeOf(f)
<1> DEFINE x == file[f]
<1>1. Regular(x) /\ x # Torn
  BY DEF Edits
<1>2. x \in TextOf(f)
  BY <1>1 DEF Regular, NodeOf
<1>3. f \in FileNames
  BY InstallerConstants
<1>4. CASE f \in CFile
  <2>1. TextOf(f) = CTextWith(HooksIn[f])
    BY <1>4, CFiles DEF TextOf, CText, CTextWith
  <2>2. x.sites \in [HooksIn[f] -> Condition] /\ x.inc \in Include
    BY <1>2, <2>1 DEF CTextWith
  <2>3. \/ \E h \in HooksIn[f], c \in Condition \ {"legacy"} : t = [x EXCEPT !.sites[h] = c]
        \/ \E i \in Include : t = [x EXCEPT !.inc = i]
    BY <1>1, <1>4, CFiles DEF Edits, SourceFile
  <2>4. t \in CTextWith(HooksIn[f])
    BY <1>2, <2>1, <2>2, <2>3 DEF CTextWith
  <2> QED
    BY <2>1, <2>4 DEF NodeOf
<1>5. CASE f = "kbuild"
  <2>1. TextOf(f) = KbuildText
    BY <1>5, CFiles DEF TextOf
  <2>2. t \in {[x EXCEPT !.flaw = y] : y \in {"override", "trailing", "altered"}}
    BY <1>1, <1>5, CFiles DEF Edits, SourceFile
  <2>3. t \in KbuildText
    BY <1>2, <2>1, <2>2 DEF KbuildText
  <2> QED
    BY <2>1, <2>3 DEF NodeOf
<1>6. CASE f = "kconfig"
  <2>1. TextOf(f) = KconfigText
    BY <1>6, CFiles DEF TextOf
  <2>2. t \in {[menu |-> m] : m \in {"altered", "no_anchor", "nested"}}
    BY <1>1, <1>6, CFiles DEF Edits, SourceFile
  <2> QED
    BY <2>1, <2>2 DEF NodeOf, KconfigText
<1>7. CASE f \in SourceFile \cup {"header", "legacy_api"}
  <2>1. TextOf(f) = OwnedText
    BY <1>7, CFiles DEF TextOf, SourceFile
  <2>2. t \in {NoFile, [text |-> "foreign"]}
    BY <1>1, <1>7, CFiles DEF Edits, SourceFile
  <2> QED
    BY <2>1, <2>2 DEF NodeOf, OwnedText
<1>8. CASE f = "object"
  BY <1>1, <1>8, CFiles DEF Edits, SourceFile
<1> QED
  BY <1>3, <1>4, <1>5, <1>6, <1>7, <1>8 DEF FileNames

\* Between transactions: one file is edited, or none.
LEMMA IdleStepShape ==
    ASSUME InstInv, IdleStep
    PROVE  /\ phase = "idle" /\ UNCHANGED <<dirs, litter, phase, log, missing, todo, failed, beforeDirs, meddled>>
           /\ result' \in {"none", "refused", "verified"}
           /\ before' = file'
           /\ \/ file' = file
              \/ result' = "none" /\ \E f \in File : \E t \in NodeOf(f) : file' = [file EXCEPT ![f] = t]
           /\ layout' \in Layout
           /\ layout' = layout \/ result' = "none"
<1>1. /\ FilesTyped /\ TypeOK /\ (phase = "idle" => before = file) /\ layout \in Layout
  BY DEF InstInv, TxInv, IdleClean
<1>2. CASE StartRefused \/ Verify \/ VerifyRefused
  BY <1>1, <1>2 DEF StartRefused, Verify, VerifyRefused, Reject, instVars, disk
<1>3. CASE Build
  <2>1. /\ Edited("object", [from |-> [f \in SourceFile |-> file[f]]]) /\ layout' = layout
        /\ \A f \in SourceFile : file[f] \in OwnedText
    BY <1>3 DEF Build, instVars
  <2>2. "object" \in File /\ TextOf("object") = ObjectText
    BY InstallerConstants, CFiles DEF FileNames, TextOf
  <2>3. [from |-> [f \in SourceFile |-> file[f]]] \in NodeOf("object")
    BY <2>1, <2>2 DEF NodeOf, ObjectText, SourceNode
  <2> QED
    BY <1>1, <2>1, <2>2, <2>3 DEF Edited
<1>4. CASE Reconfigure
  <2>1. layout' \in Layout
    <3> DEFINE L(l) == l \in Layout
    <3>1. L([layout EXCEPT !.lkm = TRUE]) /\ L([layout EXCEPT !.supported = FALSE])
          /\ L([layout EXCEPT !.auto = TRUE])
      BY <1>1 DEF Layout
    <3>2. L([layout EXCEPT !.trees = 2])
      BY <1>1 DEF Layout
    <3>3. L([layout EXCEPT !.audit = {"branch"}]) /\ L([layout EXCEPT !.audit = {"elsewhere"}])
      BY <1>1 DEF Layout
    <3>4. L([layout EXCEPT !.modes = {"manual"}]) /\ L([layout EXCEPT !.modes = {"tracepoint", "susfs"}])
      BY <1>1 DEF Layout
    <3> QED
      BY <1>4, <3>1, <3>2, <3>3, <3>4 DEF Reconfigure
  <2> QED
    BY <1>1, <1>4, <2>1 DEF Reconfigure, disk
<1>5. ASSUME NEW f \in File, Tamper(f)
      PROVE  /\ \E t \in NodeOf(f) : Edited(f, t)
             /\ layout' = layout
  BY <1>1, <1>5, EditsTyped DEF Tamper, FilesTyped
<1>6. ASSUME NEW f \in File, Restore(f)
      PROVE  /\ \E t \in NodeOf(f) : Edited(f, t)
             /\ layout' = layout
  <2>1. PICK l \in Layouts : l.name = layout.name
    BY <1>1 DEF Layout
  <2>2. TreeOf[layout.name][f] \in NodeOf(f) /\ NoFile \in NodeOf(f)
    BY <2>1, InstallerConstants DEF NodeOf
  <2> QED
    BY <1>6, <2>2 DEF Restore, instVars
<1>7. ASSUME NEW f \in File, NEW t \in NodeOf(f), Edited(f, t), layout' = layout
      PROVE  /\ phase = "idle" /\ UNCHANGED <<dirs, litter, phase, log, missing, todo, failed, beforeDirs, meddled>>
             /\ result' = "none" /\ before' = file' /\ file' = [file EXCEPT ![f] = t]
             /\ layout' \in Layout
  BY <1>1, <1>7 DEF Edited
<1> QED
  BY <1>2, <1>3, <1>4, <1>5, <1>6, <1>7 DEF IdleStep

LEMMA NodeOfIsNode == \A f \in File : NodeOf(f) \subseteq Node
BY InstallerConstants DEF NodeOf, Node

\* What a step of an open installation writes is a text of its file.
LEMMA StepWritesText ==
    ASSUME InstInv, NEW s \in FileStep, At(s),
           Patched(s, file) \notin {Refused, NoFile, file[TargetOf(s)]}
    PROVE  TargetOf(s) \in File /\ Patched(s, file) \in TextOf(TargetOf(s))
<1>1. phase = "open" /\ Readable(file) /\ TailPolicy # Refused
  BY DEF At, InstInv, FilesTyped, Readable, Intact, MayInstall
<1> QED
  BY <1>1, StepTarget, PatchedTyped

\* Every step of the installer is a step of the transaction or none.
LEMMA Simulates ==
    ASSUME InstInv, [Next]_vars
    PROVE  [TxNext]_txVars
<1>1. CASE UNCHANGED vars
  BY <1>1 DEF vars
<1>2. CASE Start
  BY <1>2 DEF Start, TxNext
<1>3. CASE IdleStep
  <2>1. /\ phase = "idle" /\ UNCHANGED <<dirs, litter, phase, log, missing, todo, failed, beforeDirs, meddled>>
        /\ result' \in {"none", "refused", "verified"}
        /\ before' = file'
        /\ \/ file' = file
           \/ \E f \in File : \E t \in NodeOf(f) : file' = [file EXCEPT ![f] = t]
    BY <1>3, IdleStepShape
  <2>2. file' \in [File -> Node] /\ dirs' \in SUBSET Dir /\ beforeDirs' = dirs'
    BY <2>1, NodeOfIsNode DEF InstInv, TxInv, TypeOK, IdleClean
  <2>3. Outside
    BY <2>1, <2>2 DEF Outside
  <2> QED
    BY <2>3 DEF TxNext
<1>4. CASE MakeTarget
  BY <1>4, InstallerConstants DEF MakeTarget, TxNext
<1>5. CASE Finish
  BY <1>5 DEF Finish, TxNext
<1>6. ASSUME NEW s \in FileStep, Step(s)
      PROVE  [TxNext]_txVars
  <2>1. TargetOf(s) \in File
    BY StepTarget
  <2>2. CASE StepSame(s)
    BY <2>2 DEF StepSame
  <2>3. CASE StepWrites(s)
    <3>1. Patched(s, file) \in Content
      BY <2>3, StepWritesText, InstallerConstants DEF StepWrites
    <3>2. file \in [File -> Node]
      BY DEF InstInv, TxInv, TypeOK
    <3>3. file'[TargetOf(s)] = Patched(s, file) /\ Write(TargetOf(s), Patched(s, file))
      BY <2>1, <2>3, <3>2 DEF StepWrites, Write
    <3>4. WriteSome(TargetOf(s))
      BY <3>1, <3>3 DEF WriteSome
    <3> QED
      BY <2>1, <3>4 DEF TxNext
  <2>4. CASE StepRemoves(s)
    BY <2>1, <2>4 DEF StepRemoves, TxNext
  <2>5. CASE StepRaises(s)
    BY <2>5 DEF StepRaises, TxNext
  <2>6. CASE StepFails(s)
    BY <2>1, <2>6, InstallerConstants DEF StepFails, TxNext
  <2> QED
    BY <1>6, <2>2, <2>3, <2>4, <2>5, <2>6 DEF Step
<1>7. CASE StepFails("make_target")
  BY <1>7, InstallerConstants DEF StepFails, TxNext
<1>8. CASE RollsBack
  BY <1>8 DEF RollsBack, Undo, TxNext
<1>9. CASE RollbackFails
  BY <1>9 DEF RollbackFails, Undo, TxNext
<1>10. CASE Killed
  <2>1. ASSUME NEW i \in DOMAIN Program, Program[i] # "make_target"
        PROVE  TargetOf(Program[i]) \in File
    BY <2>1, ProgramSteps, StepTarget
  <2>2. CASE Kill
    BY <2>2 DEF TxNext
  <2>3. CASE \E f \in File : KillInWrite(f)
    BY <2>3 DEF TxNext
  <2> QED
    BY <1>10, <2>1, <2>2, <2>3 DEF Killed
<1>11. CASE Interfere
  BY <1>11, InstallerConstants DEF Interfere, TxNext
<1> QED
  BY <1>1, <1>2, <1>3, <1>4, <1>5, <1>6, <1>7, <1>8, <1>9, <1>10, <1>11, NextCases DEF FileSteps

\* The copies are texts of their files.
LEMMA RecordFileTyped ==
    ASSUME TypeOK, FilesTyped, CopiesTyped(log), NEW f \in File, RecordFile(f)
    PROVE  CopiesTyped(log')
<1>1. CASE f \in Recorded
  BY <1>1 DEF RecordFile
<1>2. CASE f \notin Recorded
  <2> DEFINE e == [path |-> f, backup |-> file[f]]
  <2>1. log' = Append(log, e) /\ log \in Seq(Entry) /\ e \in Entry
    BY <1>2 DEF RecordFile, TypeOK, Entry
  <2>2. /\ DOMAIN log' = 1..(Len(log) + 1) /\ DOMAIN log = 1..Len(log) /\ Len(log) \in Nat
        /\ \A i \in DOMAIN log : log'[i] = log[i]
        /\ log'[Len(log) + 1] = e
    BY <2>1
  <2>3. \A i \in DOMAIN log' : i \in DOMAIN log \/ i = Len(log) + 1
    BY <2>2
  <2>4. e.backup \in NodeOf(e.path)
    BY DEF FilesTyped
  <2> QED
    BY <2>2, <2>3, <2>4 DEF CopiesTyped
<1> QED
  BY <1>1, <1>2

LEMMA MayInstallSame == layout' = layout => (MayInstall' <=> MayInstall) /\ TailPolicy' = TailPolicy
BY DEF MayInstall, Discovered, TailPolicy, Audited, RegisteredOnce, TailConfigAccepted

\* A step that writes texts only, and cuts a file short only as the
\* transaction fails.
LEMMA WritesKeep ==
    ASSUME InstInv, TxInv', layout' = layout, phase # "idle",
           NEW f \in File, NEW x \in NodeOf(f), file' = [file EXCEPT ![f] = x],
           log' \in {log, <<>>} \/ RecordFile(f),
           phase' = "open" => phase = "open" /\ x # Torn
    PROVE  InstInv'
<1>1. TypeOK /\ FilesTyped /\ CopiesTyped(log) /\ MayInstall /\ layout \in Layout
  BY DEF InstInv, TxInv
<1>2. file \in [File -> Node]
  BY <1>1 DEF TypeOK
<1>3. FilesTyped'
  BY <1>1, <1>2 DEF FilesTyped
<1>4. CopiesTyped(log')
  BY <1>1, RecordFileTyped DEF CopiesTyped
<1>5. phase' = "open" => Intact'
  BY <1>2 DEF InstInv, Intact
<1> QED
  BY <1>1, <1>3, <1>4, <1>5, MayInstallSame DEF InstInv, CopiesTyped

LEMMA SameFilesKeep ==
    ASSUME InstInv, TxInv', layout' = layout, file' = file,
           log' \in {log, <<>>} \/ \E f \in File : RecordFile(f),
           phase' = "open" => Intact,
           phase' = "idle" \/ MayInstall
    PROVE  InstInv'
<1>1. TypeOK /\ FilesTyped /\ CopiesTyped(log) /\ layout \in Layout
  BY DEF InstInv, TxInv
<1>2. CopiesTyped(log')
  BY <1>1, RecordFileTyped DEF CopiesTyped
<1>3. FilesTyped' /\ (phase' = "open" => Intact')
  BY <1>1 DEF FilesTyped, Intact
<1> QED
  BY <1>1, <1>2, <1>3, MayInstallSame DEF InstInv, CopiesTyped

LEMMA InitInstInv == Init => InstInv /\ TxInit
<1> SUFFICES ASSUME Init PROVE InstInv /\ TxInit
  OBVIOUS
<1>1. /\ layout \in Layouts /\ file = TreeOf[layout.name] /\ dirs = DirsOf[layout.name]
      /\ phase = "idle" /\ log = <<>>
  BY DEF Init
<1>2. /\ layout \in Layout /\ file \in [File -> Content \cup {NoFile}]
      /\ \A f \in File : file[f] \in TextOf(f) \cup {NoFile}
      /\ dirs \in SUBSET Dir
  BY <1>1, InstallerConstants
<1>3. file \in [File -> Node]
  BY <1>2 DEF Node
<1>4. TxInit
  BY <1>2, <1>3 DEF Init, TxInit
<1>5. TxInv
  BY <1>4, InitTxInv
<1>6. FilesTyped /\ CopiesTyped(log)
  BY <1>1, <1>2 DEF FilesTyped, CopiesTyped, NodeOf
<1> QED
  BY <1>1, <1>2, <1>4, <1>5, <1>6 DEF InstInv

LEMMA NextInstInv == InstInv /\ [Next]_vars => InstInv'
<1> SUFFICES ASSUME InstInv, [Next]_vars PROVE InstInv'
  OBVIOUS
<1>1. TxInv'
  BY Simulates, NextTxInv DEF InstInv
<1>2. TypeOK /\ FilesTyped /\ CopiesTyped(log) /\ (phase # "idle" => MayInstall)
      /\ (phase = "open" => Intact)
  BY DEF InstInv, TxInv
<1>3. \A f \in File : /\ {NoFile, Torn, Symlink, Folder} \subseteq NodeOf(f)
                      /\ TextOf(f) \subseteq NodeOf(f)
                      /\ Torn \notin TextOf(f) \cup {NoFile, Symlink, Folder}
  BY RefusedIsNoText, TransactionConstants DEF NodeOf
<1>4. CASE UNCHANGED vars
  BY <1>1, <1>2, <1>4, SameFilesKeep DEF vars, txVars, instVars
<1>5. CASE Start
  BY <1>1, <1>2, <1>5, SameFilesKeep DEF Start, Begin, disk
<1>6. CASE IdleStep
  <2>1. /\ phase' = "idle" /\ log' = log /\ layout' \in Layout
        /\ \/ file' = file
           \/ \E f \in File : \E t \in NodeOf(f) : file' = [file EXCEPT ![f] = t]
    BY <1>6, IdleStepShape
  <2>2. FilesTyped'
    BY <1>2, <2>1 DEF FilesTyped, TypeOK
  <2> QED
    BY <1>1, <1>2, <2>1, <2>2 DEF InstInv, CopiesTyped
<1>7. CASE MakeTarget \/ Finish \/ StepFails("make_target")
  <2>1. file' = file /\ layout' = layout /\ log' \in {log, <<>>} /\ phase = "open"
    BY <1>7 DEF MakeTarget, Finish, StepFails, MakeDir, Advance, Commit, End, MakeDirFails, Faulty,
                instVars, disk, At
  <2> QED
    BY <1>1, <1>2, <2>1, SameFilesKeep
<1>8. ASSUME NEW s \in FileStep, Step(s)
      PROVE  InstInv'
  <2> DEFINE f == TargetOf(s)
  <2>1. f \in File /\ phase = "open" /\ layout' = layout
    BY <1>8, StepTarget DEF Step, StepSame, StepWrites, StepRemoves, StepRaises, StepFails, At,
                            Advance, Faulty, instVars
  <2>2. file \in [File -> Node]
    BY <1>2 DEF TypeOK
  <2>3. CASE StepSame(s) \/ StepRaises(s)
    <3>1. file' = file /\ log' = log
      BY <2>3 DEF StepSame, StepRaises, Raise, txVars
    <3> QED
      BY <1>1, <1>2, <2>1, <3>1, SameFilesKeep
  <2>4. CASE StepWrites(s)
    <3>1. Patched(s, file) \in TextOf(f)
      BY <2>4, StepWritesText DEF StepWrites
    <3>2. file' = [file EXCEPT ![f] = Patched(s, file)] /\ RecordFile(f)
      BY <2>4 DEF StepWrites, Write
    <3> QED
      BY <1>1, <1>3, <2>1, <3>1, <3>2, WritesKeep
  <2>5. CASE StepRemoves(s)
    <3>1. file' = [file EXCEPT ![f] = NoFile] /\ RecordFile(f)
      BY <2>5 DEF StepRemoves, Remove
    <3> QED
      BY <1>1, <1>3, <2>1, <3>1, WritesKeep
  <2>6. CASE StepFails(s)
    <3>1. RemoveFails(f) \/ WriteFails(f) \/ MakeDirFails("abk_sandbox")
      BY <2>6 DEF StepFails
    <3>2. /\ phase' = "undo_files"
          /\ log' = log \/ RecordFile(f)
          /\ file' = file \/ file' = [file EXCEPT ![f] = Torn]
      BY <3>1 DEF RemoveFails, WriteFails, MakeDirFails, Rollback
    <3>3. CASE file' = file
      BY <1>1, <1>2, <2>1, <3>2, <3>3, SameFilesKeep
    <3>4. CASE file' = [file EXCEPT ![f] = Torn]
      BY <1>1, <1>3, <2>1, <3>2, <3>4, WritesKeep
    <3> QED
      BY <3>2, <3>3, <3>4
  <2> QED
    BY <1>8, <2>3, <2>4, <2>5, <2>6 DEF Step
<1>9. CASE RollsBack \/ RollbackFails
  <2>1. layout' = layout
    BY <1>9 DEF RollsBack, RollbackFails, instVars
  <2>2. ASSUME NEW i \in DOMAIN log, UndoFile(i) \/ UndoFileFails(i)
        PROVE  InstInv'
    <3>1. log[i].path \in File /\ log[i].backup \in NodeOf(log[i].path)
      BY <1>2, <2>2, EntryTyped DEF CopiesTyped
    <3>2. PICK x \in NodeOf(log[i].path) : file' = [file EXCEPT ![log[i].path] = x]
      BY <1>2, <1>3, <2>2, <3>1 DEF UndoFile, UndoFileFails, UndoLeaves, FilesTyped
    <3>3. phase = "undo_files" /\ phase' = phase /\ log' = log
      BY <2>2 DEF UndoFile, UndoFileFails, Undoing
    <3> QED
      BY <1>1, <2>1, <3>1, <3>2, <3>3, WritesKeep
  <2>3. CASE UndoFilesDone \/ Undone \/ \E d \in Dir : UndoDir(d) \/ UndoDirFails(d)
    <3>1. file' = file /\ log' \in {log, <<>>} /\ phase # "idle" /\ phase' # "open"
      BY <2>3 DEF UndoFilesDone, Undone, UndoDir, UndoDirFails, End, disk
    <3> QED
      BY <1>1, <1>2, <2>1, <3>1, SameFilesKeep
  <2> QED
    BY <1>9, <2>2, <2>3 DEF RollsBack, RollbackFails
<1>10. CASE Killed
  <2>1. layout' = layout
    BY <1>10 DEF Killed, Faulty
  <2>2. CASE Kill
    <3>1. file' = file /\ log' = <<>> /\ phase' = "idle"
      BY <2>2 DEF Kill, End, disk
    <3> QED
      BY <1>1, <2>1, <3>1, SameFilesKeep
  <2>3. ASSUME NEW f \in File, KillInWrite(f)
        PROVE  InstInv'
    <3>1. file' = [file EXCEPT ![f] = Torn] /\ log' = <<>> /\ phase = "open" /\ phase' = "idle"
      BY <2>3 DEF KillInWrite, End
    <3> QED
      BY <1>1, <1>3, <2>1, <3>1, WritesKeep
  <2>4. ASSUME NEW i \in DOMAIN Program, Program[i] # "make_target"
        PROVE  TargetOf(Program[i]) \in File
    BY <2>4, ProgramSteps, StepTarget
  <2> QED
    BY <1>10, <2>2, <2>3, <2>4 DEF Killed
<1>11. CASE Interfere
  <2>1. layout' = layout
    BY <1>11 DEF Interfere, Faulty
  <2>2. ASSUME NEW f \in File, NEW x \in {Symlink, Folder}, Meddle(f, x)
        PROVE  InstInv'
    <3>1. file' = [file EXCEPT ![f] = x] /\ log' = log /\ phase' = phase /\ phase # "idle"
      BY <2>2 DEF Meddle
    <3> QED
      BY <1>1, <1>3, <2>1, <3>1, WritesKeep
  <2>3. CASE Litter("abk_sandbox")
    <3>1. file' = file /\ log' = log /\ phase' = phase
      BY <2>3 DEF Litter
    <3> QED
      BY <1>1, <1>2, <2>1, <3>1, SameFilesKeep
  <2> QED
    BY <1>11, <2>2, <2>3, InstallerConstants DEF Interfere
<1> QED
  BY <1>4, <1>5, <1>6, <1>7, <1>8, <1>9, <1>10, <1>11, NextCases DEF FileSteps

\* The installer implements the transaction.
THEOREM InstallerRefinesTransaction == Spec => ImplementsTransaction
<1>1. InstInv /\ [Next]_vars => [TxNext]_txVars
  BY Simulates
<1> QED
  BY <1>1, InitInstInv, NextInstInv, PTL DEF Spec, TxSpec, ImplementsTransaction

\* So at every moment of an installation all of it can be undone, ...
THEOREM InstallCanBeUndone == Spec => []ChangedHasBackup
BY InstallerRefinesTransaction, ChangesCanBeUndone, PTL DEF ImplementsTransaction

\* ... and one that reports "rolled back" has left the tree as it was.
THEOREM InstallRollsBack == Spec => RollbackRestores
BY InstallerRefinesTransaction, RollbackIsComplete, PTL DEF ImplementsTransaction

-----------------------------------------------------------------------------
(* What verify accepts.                                                    *)

\* The program of patches has a step for every file hook and for the header.
LEMMA PatchesList ==
    /\ DOMAIN Patches = 1..22
    /\ Patches[1] = "escape" /\ Patches[2] = "supercall" /\ Patches[3] = "allowlist"
    /\ Patches[4] = "lock" /\ Patches[5] = "reapply" /\ Patches[6] = "sucompat"
    /\ Patches[7] = "manual" /\ Patches[8] = "header" /\ Patches[9] = "lsm_count"
    /\ Patches[10] = "inc_seccomp" /\ Patches[11] = "seccomp" /\ Patches[12] = "inc_namespace"
    /\ Patches[13] = "mount_privilege" /\ Patches[14] = "bind_upgrade" /\ Patches[15] = "bind"
    /\ Patches[16] = "umount_privilege" /\ Patches[17] = "mount_result" /\ Patches[18] = "umount"
    /\ Patches[19] = "inc_ptrace" /\ Patches[20] = "ptrace" /\ Patches[21] = "inc_signal"
    /\ Patches[22] = "signal"
BY DEF Patches, KernelHooks

LEMMA PatchSteps ==
    /\ \A s \in CStep \cup {"header"} : \E i \in DOMAIN Patches : Patches[i] = s
    /\ \A i \in DOMAIN Patches : Patches[i] \in CStep \cup {"header"}
<1>1. \A i \in 1..22 : \/ i = 1 \/ i = 2 \/ i = 3 \/ i = 4 \/ i = 5 \/ i = 6 \/ i = 7 \/ i = 8
                       \/ i = 9 \/ i = 10 \/ i = 11 \/ i = 12 \/ i = 13 \/ i = 14 \/ i = 15
                       \/ i = 16 \/ i = 17 \/ i = 18 \/ i = 19 \/ i = 20 \/ i = 21 \/ i = 22
  OBVIOUS
<1>2. \A i \in DOMAIN Patches : Patches[i] \in CStep \cup {"header"}
  BY <1>1, PatchesList DEF CStep, FileStep, Hook
<1>3. \A s \in CStep \cup {"header"} : \E i \in DOMAIN Patches : Patches[i] = s
  BY PatchesList DEF CStep, FileStep, Hook
<1> QED
  BY <1>2, <1>3

\* A patch reads its own file only.
LEMMA PatchReadsOwnFile ==
    ASSUME NEW s \in FileStep \ {"scan"}, NEW tree, NEW other,
           other[TargetOf(s)] = tree[TargetOf(s)]
    PROVE  Patched(s, other) = Patched(s, tree)
BY DEF Patched, FileStep, Hook, SourceFile

\* What verify says depends on the tree and the environment only.
LEMMA VerifiesSame ==
    ASSUME layout' = layout, NEW tree
    PROVE  Verifies(tree)' <=> Verifies(tree)
<1>1. MayInstall' <=> MayInstall
  BY MayInstallSame
<1>2. TailPolicy' = TailPolicy
  BY MayInstallSame
<1>3. \A s : Skipped(s)' <=> Skipped(s)
  BY DEF Skipped
<1>4. NeedlesFound(tree)' <=> NeedlesFound(tree)
  BY <1>3 DEF NeedlesFound, NeededHooks
<1>5. ASSUME NEW s \in CStep \cup {"header"}
      PROVE  Patched(s, tree)' = Patched(s, tree)
  BY <1>2, <1>3 DEF Patched, CStep, FileStep, Hook, SourceFile
<1>6. PatchesSettled(tree)' <=> PatchesSettled(tree)
  BY <1>5, PatchSteps DEF PatchesSettled
<1> QED
  BY <1>1, <1>2, <1>4, <1>6 DEF Verifies

\* The conditions under which a marked hook passes its check.
LEMMA CheckedHook ==
    ASSUME NEW h, NEW c \in Condition, NEW inc, Marked(c),
           ExactInjectionInstalled(h, c, inc) # Refused
    PROVE  /\ c \in {"hooked", "extra_call", "anchor_back"}
           /\ h \in Including => inc \in {"placed", "elsewhere"}
BY DEF ExactInjectionInstalled, Marked, Condition

\* A marked hook whose patch leaves the file as it is passes its check.
LEMMA SettledHook ==
    ASSUME NEW H, NEW h \in H, NEW t \in CTextWith(H), t # Refused, Marked(t.sites[h]),
           t \in {PatchHook(t, h), PatchWithInclude(t, h)}
    PROVE  ExactInjectionInstalled(h, t.sites[h], t.inc) # Refused
<1>1. ExactInjectionInstalled(h, t.sites[h], t.inc) = Refused => PatchHook(t, h) = Refused
  BY DEF PatchHook
<1> QED
  BY <1>1 DEF PatchWithInclude

LEMMA SettledAllowlist ==
    ASSUME NEW t \in CTextWith({"revoke", "prune"}), t # Refused, t = PatchAllowlist(t),
           Marked(t.sites["revoke"]), Marked(t.sites["prune"])
    PROVE  /\ ExactInjectionInstalled("revoke", t.sites["revoke"], t.inc) # Refused
           /\ ExactInjectionInstalled("prune", t.sites["prune"], t.inc) # Refused
BY DEF PatchAllowlist

\* The patch step that installs h.
StepOf(h) == IF h \in {"revoke", "prune"} THEN "allowlist" ELSE h

LEMMA HookStep ==
    ASSUME NEW h \in Hook
    PROVE  /\ StepOf(h) \in CStep /\ TargetOf(StepOf(h)) = FileOf(h)
           /\ FileOf(h) \in File /\ TextOf(FileOf(h)) = CTextWith(HooksIn[FileOf(h)])
           /\ h \in HooksIn[FileOf(h)]
           /\ h \in {"revoke", "prune"} => FileOf(h) = "allowlist"
<1>1. FileOf(h) \in CFile /\ h \in HooksIn[FileOf(h)]
  BY FileOfHook
<1>2. StepOf(h) \in CStep
  BY DEF StepOf, CStep, FileStep, Hook
<1>3. h \in {"revoke", "prune"} => FileOf(h) = "allowlist"
  BY <1>1, CFiles
<1>4. TargetOf(StepOf(h)) = FileOf(h)
  BY <1>3 DEF StepOf, TargetOf, Hook, SourceFile
<1>5. FileOf(h) \in File
  BY <1>1, InstallerConstants DEF FileNames
<1>6. TextOf(FileOf(h)) = CTextWith(HooksIn[FileOf(h)])
  BY <1>1, CFiles DEF TextOf, CText, CTextWith
<1> QED
  BY <1>1, <1>2, <1>3, <1>4, <1>5, <1>6

\* verify accepts complete trees only.
LEMMA VerifiesImpliesComplete ==
    ASSUME NEW tree, Readable(tree), Verifies(tree)
    PROVE  /\ Complete(tree)
           /\ tree["kbuild"].block = "resukisu" =>
                layout.variant = "resukisu" /\ layout.kernel # "6.12" /\ Audited
<1>1. \A s \in CStep : Patched(s, tree) = tree[TargetOf(s)]
  BY PatchSteps DEF Verifies, PatchesSettled
<1>2. ASSUME NEW h \in NeededHooks
      PROVE  /\ Live(tree, h)
             /\ h \in Including => tree[FileOf(h)].inc \in {"placed", "elsewhere"}
  <2> DEFINE f == FileOf(h)
             H == HooksIn[f]
             t == tree[f]
  <2>1. h \in Hook /\ ~Skipped(h) /\ Marked(t.sites[h])
    BY DEF NeededHooks, Verifies, NeedlesFound
  <2>2. /\ StepOf(h) \in CStep /\ TargetOf(StepOf(h)) = f /\ f \in File
        /\ TextOf(f) = CTextWith(H) /\ h \in H
        /\ h \in {"revoke", "prune"} => f = "allowlist"
    BY <2>1, HookStep
  <2>3. /\ Patched(StepOf(h), tree) = t
        /\ t \in NodeOf(f) /\ t # Torn /\ t # Refused
    BY <1>1, <2>2, RefusedIsNoText DEF Readable
  <2>4. ~Skipped(StepOf(h))
    BY <2>1 DEF StepOf, Skipped
  <2>5. Patched(StepOf(h), tree) = IF Regular(t) THEN PatchedC(StepOf(h), t) ELSE Refused
    BY <2>2, <2>4 DEF Patched, CStep, SourceFile
  <2>6. Regular(t) /\ t = PatchedC(StepOf(h), t)
    BY <2>3, <2>5
  <2>7. t \in CTextWith(H)
    BY <2>2, <2>3, <2>6 DEF Regular, NodeOf
  <2>8. ExactInjectionInstalled(h, t.sites[h], t.inc) # Refused
    <3>1. CASE h \in {"revoke", "prune"}
      <4>1. H = {"revoke", "prune"}
        BY <2>2, <3>1, CFiles
      <4>2. t = PatchAllowlist(t)
        BY <2>6, <3>1 DEF StepOf, PatchedC
      <4>3. FileOf("revoke") = f /\ FileOf("prune") = f
        BY <2>2, <3>1, HookStep DEF Hook
      <4>4. {"revoke", "prune"} \subseteq NeededHooks
        BY DEF NeededHooks, Skipped, Hook
      <4>5. Marked(t.sites["revoke"]) /\ Marked(t.sites["prune"])
        BY <4>3, <4>4 DEF Verifies, NeedlesFound
      <4> QED
        BY <2>3, <2>7, <3>1, <4>1, <4>2, <4>5, SettledAllowlist
    <3>2. CASE h \notin {"revoke", "prune"}
      <4>1. PatchedC(h, t) \in {PatchHook(t, h), PatchWithInclude(t, h)}
        BY <2>1, <3>2 DEF Hook, PatchedC, PatchEscape, PatchSupercallDispatch,
                PatchPolicyLockOrder, PatchPolicyReapply, PatchSucompatFailClosed,
                PatchManualFailClosed, PatchLsmCount, PatchSeccomp, PatchMountPrivilege, PatchBind,
                PatchUmountPrivilege, PatchMountResult, PatchUmount, PatchPtrace, PatchSignal
      <4>2. t \in {PatchHook(t, h), PatchWithInclude(t, h)}
        BY <2>6, <3>2, <4>1 DEF StepOf
      <4> QED
        BY <2>1, <2>2, <2>3, <2>7, <4>2, SettledHook
    <3> QED
      BY <3>1, <3>2
  <2>9. t.sites[h] \in Condition
    BY <2>2, <2>7 DEF CTextWith
  <2>10. /\ t.sites[h] \in {"hooked", "extra_call", "anchor_back"}
         /\ h \in Including => t.inc \in {"placed", "elsewhere"}
    BY <2>1, <2>8, <2>9, CheckedHook
  <2> QED
    BY <2>10 DEF Live
<1>3. /\ tree["kconfig"].menu = "installed"
      /\ \A f \in SourceFile \cup {"header"} : tree[f] = Current
  BY DEF Verifies
<1>4. TailPolicy # Refused /\ InstalledKbuildBlock(tree["kbuild"]) = TailPolicy
  BY DEF Verifies, MayInstall
<1>5. tree["kbuild"].flaw = "none" /\ tree["kbuild"].block = TailPolicy
  BY <1>4 DEF InstalledKbuildBlock
<1>6. TailPolicy = "resukisu" =>
        layout.variant = "resukisu" /\ layout.kernel # "6.12" /\ Audited
  BY <1>4 DEF TailPolicy
<1> QED
  BY <1>2, <1>3, <1>5, <1>6 DEF Complete

\* The last word of verify still holds of the tree.
Accepted == result = "verified" => Intact /\ Verifies(file)

LEMMA NextAccepted == InstInv /\ Accepted /\ [Next]_vars => Accepted'
<1> SUFFICES ASSUME InstInv, Accepted, [Next]_vars, result' = "verified"
             PROVE  Intact' /\ Verifies(file)'
  BY DEF Accepted
<1>1. phase # "idle" => result = "none"
  BY DEF InstInv, TxInv, Underway
<1>2. file' = file /\ layout' = layout /\ Intact /\ Verifies(file)
  <2>1. CASE UNCHANGED vars
    BY <2>1 DEF vars, txVars, instVars, Accepted
  <2>2. CASE IdleStep
    <3>1. Verify
      BY <2>2 DEF IdleStep, StartRefused, VerifyRefused, Reject, Build, Reconfigure, Tamper, Restore,
                  Edited
    <3> QED
      BY <3>1 DEF Verify, disk, instVars
  <2>3. CASE Interfere
    <3>1. result = "verified" /\ phase = "idle"
      BY <1>1, <2>3 DEF Interfere, Meddle, Litter
    <3>2. Litter("abk_sandbox") /\ layout' = layout
      BY <2>3, <3>1 DEF Interfere, Meddle, Faulty
    <3> QED
      BY <3>1, <3>2 DEF Litter, Accepted
  <2>4. ~Start /\ ~MakeTarget /\ ~Finish /\ ~StepFails("make_target")
    BY <1>1 DEF Start, Begin, MakeTarget, MakeDir, Finish, Commit, End, StepFails, MakeDirFails,
                Rollback
  <2>5. ASSUME NEW s \in FileStep
        PROVE  ~Step(s)
    BY <1>1 DEF Step, At, StepSame, txVars, StepWrites, Write, StepRemoves, Remove, StepRaises,
                Raise, StepFails, MakeDirFails, RemoveFails, WriteFails, Rollback
  <2>6. ~RollsBack /\ ~RollbackFails /\ ~Killed
    BY <1>1 DEF RollsBack, RollbackFails, Killed, UndoFile, UndoFileFails, Undoing, UndoFilesDone,
                UndoDir, UndoDirFails, Undone, Kill, KillInWrite, End
  <2> QED
    BY <2>1, <2>2, <2>3, <2>4, <2>5, <2>6, NextCases DEF FileSteps
<1>3. Intact'
  BY <1>2 DEF Intact
<1> QED
  BY <1>2, <1>3, VerifiesSame

\* A tree that verify accepts has every hook in its place and compiled in, the
\* module's sources and configuration, and names a checked KernelSU LSM only
\* where the audit has passed.
THEOREM VerifyIsSound == Spec => []VerifiedMeansComplete
<1>1. InstInv /\ Accepted => VerifiedMeansComplete
  <2> SUFFICES ASSUME InstInv, Accepted, result = "verified"
               PROVE  /\ Complete(file)
                      /\ file["kbuild"].block = "resukisu" =>
                            layout.variant = "resukisu" /\ layout.kernel # "6.12" /\ Audited
    BY DEF VerifiedMeansComplete
  <2>1. Readable(file) /\ Verifies(file)
    BY DEF InstInv, FilesTyped, Accepted, Intact, Readable
  <2> QED
    BY <2>1, VerifiesImpliesComplete
<1>2. Init => Accepted
  BY DEF Init, Accepted
<1> QED
  BY <1>1, <1>2, InitInstInv, NextInstInv, NextAccepted, PTL DEF Spec

-----------------------------------------------------------------------------
(* Installing again.                                                       *)

\* While a transaction is open, what it began with is readable, a replaced
\* file stays replaced, and an accepted tree is as it was.
Rerun ==
    phase = "open" =>
        /\ Readable(before)
        /\ \A f \in meddled : file[f] \in {Symlink, Folder}
        /\ Verifies(before) => \A f \in File \ ({"legacy_api"} \cup meddled) : file[f] = before[f]

\* A step finds nothing to do in an accepted tree, or stops at a file someone
\* has replaced.
LEMMA NothingToDo ==
    ASSUME InstInv, Rerun, Verifies(before), phase = "open", NEW s \in FileStep,
           TargetOf(s) \notin {"legacy_api"} \cup meddled
    PROVE  Patched(s, file) \in {Refused, file[TargetOf(s)]}
<1> DEFINE f == TargetOf(s)
<1>1. f \in File /\ file[f] = before[f] /\ before[f] \in NodeOf(f) /\ before[f] # Torn
  BY StepTarget DEF Rerun, Readable
<1>2. \A g \in SourceFile : g \in File /\ before[g] = Current
  BY InstallerConstants DEF Verifies, FileNames
<1>3. CASE s \in CStep \cup {"header"}
  <2>1. Patched(s, before) = before[f]
    BY <1>3, PatchSteps DEF Verifies, PatchesSettled
  <2>2. Patched(s, file) = Patched(s, before)
    BY <1>1, <1>3, PatchReadsOwnFile DEF CStep
  <2> QED
    BY <1>1, <2>1, <2>2
<1>4. CASE s = "scan"
  <2>1. ASSUME TargetAcceptable(file)
        PROVE  \A g \in SourceFile : file[g] = Current
    <3>1. \A g \in SourceFile : file[g] \notin {Symlink, Folder}
      <4>1. OwnedText \cap {Symlink, Folder} = {} /\ NoFile \notin {Symlink, Folder}
        <5>1. TextOf("core") = OwnedText /\ "core" \in File
          BY CFiles, InstallerConstants DEF TextOf, FileNames, SourceFile
        <5> QED
          BY <5>1, InstallerConstants, TransactionConstants
      <4> QED
        BY <2>1, <4>1 DEF TargetAcceptable
    <3>2. \A g \in SourceFile : g \notin meddled
      BY <3>1 DEF Rerun
    <3> QED
      BY <1>2, <3>2 DEF Rerun, SourceFile
  <2>2. f = "object"
    BY <1>4, StepTarget
  <2> QED
    <3>1. Patched(s, file) = Scanned(file)
      BY <1>4 DEF Patched, SourceFile
    <3>2. CASE TargetAcceptable(file)
      <4>1. ~ SourcesChanged(file)
        BY <2>1, <3>2 DEF SourcesChanged
      <4> QED
        BY <2>2, <3>1, <3>2, <4>1 DEF Scanned
    <3>3. CASE ~ TargetAcceptable(file)
      BY <3>1, <3>3 DEF Scanned
    <3> QED
      BY <3>2, <3>3
<1>5. CASE s \in SourceFile
  <2>1. f = s
    BY <1>5, StepTarget
  <2> QED
    BY <1>1, <1>2, <1>5, <2>1 DEF Patched, SourceFile
<1>6. CASE s = "kbuild"
  <2>1. f = "kbuild"
    BY <1>6, StepTarget
  <2>2. /\ before[f] \in KbuildText /\ InstalledKbuildBlock(before[f]) = TailPolicy
        /\ TailPolicy # Refused
    BY <2>1 DEF Verifies, MayInstall
  <2>3. before[f].flaw = "none" /\ before[f].block = TailPolicy /\ TailPolicy # "none"
    BY <2>2 DEF InstalledKbuildBlock
  <2>4. [before[f] EXCEPT !.block = TailPolicy] = before[f]
    BY <2>2, <2>3 DEF KbuildText
  <2>5. InstallKbuild(before[f], TailPolicy) = before[f]
    BY <2>2, <2>3, <2>4 DEF InstallKbuild
  <2> QED
    BY <1>1, <1>6, <2>5 DEF Patched, SourceFile
<1>7. CASE s = "kconfig"
  <2>1. f = "kconfig"
    BY <1>7, StepTarget
  <2>2. before[f] = [menu |-> "installed"]
    BY <2>1 DEF Verifies
  <2>3. InstallKconfig(before[f]) = before[f]
    BY <2>2 DEF InstallKconfig
  <2> QED
    BY <1>1, <1>7, <2>3 DEF Patched, SourceFile
<1>8. s # "legacy_api"
  BY StepTarget
<1> QED
  BY <1>3, <1>4, <1>5, <1>6, <1>7, <1>8 DEF CStep, SourceFile

\* A step of the program that goes on leaves an accepted tree alone.
LEMMA OpenStepLeaves ==
    ASSUME InstInv, Rerun, [Next]_vars, phase = "open", phase' = "open"
    PROVE  /\ layout' = layout /\ before' = before /\ meddled \subseteq meddled'
           /\ \A f \in meddled' : file'[f] \in {Symlink, Folder}
           /\ Verifies(before) =>
                \A f \in File \ {"legacy_api"} : file'[f] = file[f] \/ f \in meddled'
<1>1. file \in [File -> Node] /\ meddled \subseteq File
  BY DEF InstInv, TxInv, TypeOK
<1>2. \A f \in meddled : file[f] \in {Symlink, Folder}
  BY DEF Rerun
<1>3. CASE UNCHANGED vars
  BY <1>2, <1>3 DEF vars, txVars, instVars
<1>4. CASE MakeTarget
  BY <1>2, <1>4 DEF MakeTarget, MakeDir, Advance
<1>5. ASSUME NEW s \in FileStep, Step(s)
      PROVE  /\ layout' = layout /\ before' = before /\ meddled' = meddled
             /\ \A f \in meddled' : file'[f] \in {Symlink, Folder}
             /\ Verifies(before) =>
                  \A f \in File \ {"legacy_api"} : file'[f] = file[f] \/ f \in meddled'
  <2> DEFINE f == TargetOf(s)
  <2>1. f \in File
    BY StepTarget
  <2>2. StepSame(s) \/ StepWrites(s) \/ StepRemoves(s)
    BY <1>5 DEF Step, StepRaises, Raise, StepFails, RemoveFails, WriteFails, MakeDirFails, Rollback
  <2>3. layout' = layout /\ before' = before /\ meddled' = meddled
    BY <2>2 DEF StepSame, StepWrites, StepRemoves, Write, Remove, Advance, txVars
  <2>4. CASE StepSame(s)
    BY <1>2, <2>3, <2>4 DEF StepSame, txVars
  <2>5. CASE StepWrites(s) \/ StepRemoves(s)
    <3>1. /\ Regular(file[f]) \/ file[f] = NoFile
          /\ Patched(s, file) \notin {Refused, file[f]}
          /\ \A g \in File \ {f} : file'[g] = file[g]
      <4>1. CASE StepWrites(s)
        BY <1>1, <4>1 DEF StepWrites, Write
      <4>2. CASE StepRemoves(s)
        <5>1. Refused # NoFile
          BY InstallerConstants
        <5> QED
          BY <1>1, <4>2, <5>1 DEF StepRemoves, Remove, Regular
      <4> QED
        BY <2>5, <4>1, <4>2
    <3>2. f \notin meddled
      BY <1>2, <3>1, TransactionConstants DEF Regular
    <3>3. Verifies(before) => f = "legacy_api"
      BY <3>1, <3>2, NothingToDo
    <3> QED
      BY <1>1, <1>2, <2>3, <3>1, <3>2, <3>3
  <2> QED
    BY <2>2, <2>3, <2>4, <2>5
<1>6. CASE Interfere
  <2>1. layout' = layout /\ before' = before
    BY <1>6 DEF Interfere, Faulty, Meddle, Litter
  <2>2. ASSUME NEW f \in File, NEW x \in {Symlink, Folder}, Meddle(f, x)
        PROVE  /\ meddled' = meddled \cup {f} /\ file'[f] = x
               /\ \A g \in File \ {f} : file'[g] = file[g]
    BY <1>1, <2>2 DEF Meddle
  <2>3. CASE Litter("abk_sandbox")
    BY <1>2, <2>1, <2>3 DEF Litter
  <2>4. CASE \E f \in File, x \in {Symlink, Folder} : Meddle(f, x)
    BY <1>1, <1>2, <2>1, <2>2, <2>4
  <2> QED
    BY <1>6, <2>3, <2>4, InstallerConstants DEF Interfere
<1>7. ~Start /\ ~IdleStep /\ ~Finish /\ ~StepFails("make_target") /\ ~Killed
  <2>1. ~IdleStep
    BY IdleStepShape
  <2> QED
    BY <2>1 DEF Start, Begin, Finish, Commit, End, StepFails, MakeDirFails, Rollback, Killed, Kill,
                KillInWrite
<1>8. ~RollsBack /\ ~RollbackFails
  BY DEF RollsBack, RollbackFails, UndoFile, UndoFileFails, Undoing, UndoFilesDone, UndoDir,
         UndoDirFails, Undone
<1> QED
  BY <1>3, <1>4, <1>5, <1>6, <1>7, <1>8, NextCases DEF FileSteps

LEMMA NextRerun == InstInv /\ Rerun /\ [Next]_vars => Rerun'
<1> SUFFICES ASSUME InstInv, Rerun, [Next]_vars, phase' = "open" PROVE Rerun'
  BY DEF Rerun
<1>1. CASE phase = "open"
  <2>1. /\ layout' = layout /\ before' = before /\ meddled \subseteq meddled'
        /\ \A f \in meddled' : file'[f] \in {Symlink, Folder}
        /\ Verifies(before) =>
             \A f \in File \ {"legacy_api"} : file'[f] = file[f] \/ f \in meddled'
    BY <1>1, OpenStepLeaves
  <2>2. Verifies(before)' <=> Verifies(before)
    BY <2>1, VerifiesSame
  <2>3. Readable(before)'
    BY <1>1, <2>1 DEF Rerun, Readable
  <2> QED
    BY <1>1, <2>1, <2>2, <2>3 DEF Rerun
<1>2. CASE phase # "open"
  <2>1. phase = "idle" /\ phase' = "open" => before = file /\ meddled = {} /\ FilesTyped
    BY DEF InstInv, TxInv, IdleClean
  <2>2. Start
    <3>1. CASE IdleStep
      BY <1>2, <3>1, IdleStepShape
    <3>2. \A s \in FileStep : ~Step(s)
      BY <1>2 DEF Step, StepSame, StepWrites, StepRemoves, StepRaises, StepFails, At
    <3>3. ~MakeTarget /\ ~Finish /\ ~StepFails("make_target") /\ ~Killed /\ ~UNCHANGED vars
      BY <1>2 DEF MakeTarget, At, Finish, Commit, StepFails, Killed, Kill, KillInWrite, End, vars,
                  txVars
    <3>4. ~RollsBack /\ ~RollbackFails
      BY DEF RollsBack, RollbackFails, UndoFile, UndoFileFails, Undoing, UndoFilesDone, UndoDir,
             UndoDirFails, Undone, End
    <3>5. ~Interfere
      BY <1>2 DEF Interfere, Meddle, Litter
    <3> QED
      BY <3>1, <3>2, <3>3, <3>4, <3>5, NextCases DEF FileSteps
  <2>3. /\ before' = before /\ file' = file /\ meddled' = meddled /\ Intact /\ phase = "idle"
    BY <2>2 DEF Start, Begin, disk
  <2>4. Readable(before)'
    BY <2>1, <2>3 DEF Readable, FilesTyped, Intact
  <2> QED
    BY <2>1, <2>3, <2>4 DEF Rerun
<1> QED
  BY <1>1, <1>2

\* An installation into a tree that verify accepts changes no file but a
\* header left over from an old version.
THEOREM RerunChangesNothing == Spec => AcceptedTreeUnchanged
<1>1. InstInv /\ Rerun /\ [Next]_vars =>
        [ phase = "open" /\ phase' = "open" /\ Verifies(before) =>
            \A f \in File \ {"legacy_api"} : file'[f] = file[f] \/ f \in meddled' ]_vars
  BY OpenStepLeaves
<1>2. Init => Rerun
  BY DEF Init, Rerun
<1> QED
  BY <1>1, <1>2, InitInstInv, NextInstInv, NextRerun, PTL DEF Spec, AcceptedTreeUnchanged

-----------------------------------------------------------------------------
(* Object files.                                                           *)

Whole(x) == Regular(x) /\ x # Torn

\* The object file of a tree was made from the sources next to it.
ObjectFits(tree) ==
    Whole(tree["object"]) =>
        /\ \A g \in SourceFile : tree[g] \notin {Torn, Symlink, Folder}
        /\ tree["object"].from = [g \in SourceFile |-> tree[g]]

\* The scan comes first, so that sources are written next to no object file.
ScanDone == phase = "open" /\ pc # 1 =>
    file["object"] = NoFile \/ \A g \in SourceFile : file[g] = Current

\* The object file was recorded before any source, so that it comes back last.
ObjectFirst == \A i, j \in DOMAIN log :
    log[i].path = "object" /\ log[j].path \in SourceFile => i < j

\* There is no object file while a source is still to be restored.
ObjectAway == \A j \in DOMAIN log :
    log[j].path \in SourceFile /\ (phase = "open" \/ (phase = "undo_files" /\ j <= todo)) =>
        file["object"] = NoFile

ObjectInv ==
    ~tampered =>
        /\ meddled = {} /\ ~failed
        /\ ObjectFits(file)
        /\ phase # "idle" => ObjectFits(before)
        /\ ScanDone /\ ObjectFirst /\ ObjectAway

LEMMA ObjectFiles ==
    "object" \in File /\ SourceFile \subseteq File /\ "object" \notin SourceFile
BY InstallerConstants DEF FileNames, SourceFile

LEMMA FitsSame ==
    ASSUME NEW t, NEW u, t["object"] = u["object"], \A g \in SourceFile : t[g] = u[g], ObjectFits(t)
    PROVE  ObjectFits(u)
<1>1. [g \in SourceFile |-> t[g]] = [g \in SourceFile |-> u[g]]
  OBVIOUS
<1> QED
  BY <1>1 DEF ObjectFits

LEMMA NoObjectFits == \A t : t["object"] = NoFile => ObjectFits(t)
BY DEF ObjectFits, Whole, Regular

\* A step that changes a source finds no object file, and one that changes the
\* object file removes it.
LEMMA ObjectStep ==
    ASSUME InstInv, ScanDone, NEW s \in FileStep, At(s),
           Patched(s, file) \notin {Refused, file[TargetOf(s)]}
    PROVE  /\ TargetOf(s) \in SourceFile => file["object"] = NoFile
           /\ TargetOf(s) = "object" => Patched(s, file) = NoFile /\ Regular(file["object"])
<1>1. ASSUME TargetOf(s) \in SourceFile
      PROVE  file["object"] = NoFile
  <2>1. s \in SourceFile /\ TargetOf(s) = s
    BY <1>1, StepTarget, CFiles DEF FileStep, SourceFile
  <2>2. Patched(s, file) = Current /\ file[s] # Current
    BY <2>1 DEF Patched, SourceFile
  <2>3. Program[1] = "scan"
    BY DEF Program, CopySources
  <2>4. phase = "open" /\ pc # 1
    BY <2>1, <2>3 DEF At, SourceFile
  <2> QED
    BY <2>1, <2>2, <2>4 DEF ScanDone
<1>2. ASSUME TargetOf(s) = "object"
      PROVE  Patched(s, file) = NoFile /\ Regular(file["object"])
  <2>1. s = "scan"
    BY <1>2, StepTarget, CFiles DEF FileStep, SourceFile
  <2>2. Patched(s, file) = Scanned(file)
    BY <2>1 DEF Patched, SourceFile
  <2>3. TargetAcceptable(file) /\ Patched(s, file) = NoFile
    BY <1>2, <2>2 DEF Scanned
  <2> QED
    BY <1>2, <2>3 DEF TargetAcceptable, Regular
<1> QED
  BY <1>1, <1>2

\* Recording a file keeps the object file first.
LEMMA RecordKeepsOrder ==
    ASSUME TypeOK, ObjectFirst, ObjectAway, phase = "open", NEW f \in File, RecordFile(f),
           f = "object" => Regular(file["object"])
    PROVE  /\ ObjectFirst'
           /\ \A j \in DOMAIN log' : log'[j].path \in SourceFile =>
                f \in SourceFile \/ file["object"] = NoFile
<1>1. CASE f \in Recorded
  <2>1. log' = log
    BY <1>1 DEF RecordFile
  <2> QED
    BY <2>1 DEF ObjectFirst, ObjectAway
<1>2. CASE f \notin Recorded
  <2> DEFINE e == [path |-> f, backup |-> file[f]]
  <2>1. log' = Append(log, e) /\ log \in Seq(Entry) /\ e \in Entry
    BY <1>2 DEF RecordFile, TypeOK, Entry
  <2>2. /\ DOMAIN log' = 1..(Len(log) + 1) /\ DOMAIN log = 1..Len(log) /\ Len(log) \in Nat
        /\ \A i \in DOMAIN log : log'[i] = log[i]
        /\ log'[Len(log) + 1] = e
    BY <2>1
  <2>3. \A i \in DOMAIN log' : i \in DOMAIN log \/ i = Len(log) + 1
    BY <2>2
  <2>4. \A j \in DOMAIN log : log[j].path \in SourceFile => f # "object" /\ file["object"] = NoFile
    BY DEF ObjectAway, Regular
  <2>5. e.path = f /\ (f = "object" => f \notin SourceFile)
    BY ObjectFiles
  <2>6. ASSUME NEW i \in DOMAIN log', NEW j \in DOMAIN log',
               log'[i].path = "object", log'[j].path \in SourceFile
        PROVE  i < j
    <3>1. CASE i \in DOMAIN log /\ j \in DOMAIN log
      BY <2>2, <2>6, <3>1 DEF ObjectFirst
    <3>2. CASE i = Len(log) + 1
      BY <2>2, <2>3, <2>4, <2>5, <2>6, <3>2
    <3>3. CASE i \in DOMAIN log /\ j = Len(log) + 1
      BY <2>2, <3>3
    <3> QED
      BY <2>3, <3>1, <3>2, <3>3
  <2> QED
    BY <2>2, <2>3, <2>4, <2>5, <2>6 DEF ObjectFirst
<1> QED
  BY <1>1, <1>2

\* A step of an open transaction that records and changes one file.
LEMMA ChangeKeepsObject ==
    ASSUME InstInv, ObjectInv, ~tampered, phase = "open",
           UNCHANGED <<meddled, failed, before>>,
           NEW f \in File, NEW x, file' = [file EXCEPT ![f] = x],
           RecordFile(f) \/ (log' = log /\ x = file[f]),
           f \in SourceFile => file["object"] = NoFile,
           f = "object" => x \in {NoFile, file["object"]} /\ Regular(file["object"]),
           phase' \in {"open", "undo_files"},
           ScanDone'
    PROVE  ObjectInv'
<1>1. /\ TypeOK /\ meddled = {} /\ ~failed /\ ObjectFits(file) /\ ObjectFits(before)
      /\ ObjectFirst /\ ObjectAway
  BY DEF InstInv, TxInv, ObjectInv
<1>2. file \in [File -> Node]
  BY <1>1 DEF TypeOK
<1>3. /\ ObjectFirst'
      /\ \A j \in DOMAIN log' : log'[j].path \in SourceFile =>
                f \in SourceFile \/ file["object"] = NoFile
  <2>1. CASE RecordFile(f)
    BY <1>1, <2>1, RecordKeepsOrder
  <2>2. CASE log' = log
    BY <1>1, <2>2 DEF ObjectFirst, ObjectAway
  <2> QED
    BY <2>1, <2>2
<1>4. file["object"] = NoFile => file'["object"] = NoFile
  BY <1>2, ObjectFiles
<1>5. ObjectAway'
  BY <1>3, <1>4 DEF ObjectAway
<1>6. ObjectFits(file')
  <2>1. CASE file'["object"] = NoFile
    BY <2>1, NoObjectFits
  <2>2. CASE file'["object"] # NoFile
    <3>1. f \notin SourceFile /\ file'["object"] = file["object"]
      BY <1>2, <1>4, <2>2, ObjectFiles
    <3>2. \A g \in SourceFile : file'[g] = file[g]
      BY <1>2, <3>1, ObjectFiles
    <3> QED
      BY <1>1, <3>1, <3>2, FitsSame
  <2> QED
    BY <2>1, <2>2
<1> QED
  BY <1>1, <1>3, <1>5, <1>6 DEF ObjectInv, ObjectFits

\* A step that leaves the object file and the sources where they are, and ends
\* the transaction or changes nothing of it.
LEMMA EndKeepsObject ==
    ASSUME InstInv, InstInv', ObjectInv, ~tampered, phase' = "idle", ~failed',
           ObjectFits(file')
    PROVE  ObjectInv'
<1>1. log' = <<>> /\ meddled' = {}
  BY DEF InstInv, TxInv, IdleClean
<1> QED
  BY <1>1 DEF ObjectInv, ObjectFits, ScanDone, ObjectFirst, ObjectAway

\* _rollback puts the sources back before the object file.
LEMMA UndoKeepsObject ==
    ASSUME InstInv, ObjectInv, ~tampered, NEW i \in DOMAIN log, UndoFile(i)
    PROVE  ObjectInv'
<1>1. /\ TypeOK /\ meddled = {} /\ ~failed /\ ObjectFits(file) /\ ObjectFits(before)
      /\ ObjectFirst /\ ObjectAway /\ Untouched /\ CopiesOf(log) /\ Restored
      /\ phase = "undo_files" /\ todo = i
  BY DEF InstInv, TxInv, ObjectInv, UndoFile, Undoing
<1>2. /\ file' = [file EXCEPT ![log[i].path] = log[i].backup] /\ todo' = i - 1
      /\ UNCHANGED <<phase, log, failed, before, meddled>>
  BY DEF UndoFile
<1>3. /\ file \in [File -> Node] /\ log[i].path \in File /\ log[i].backup = before[log[i].path]
      /\ DOMAIN log \subseteq Nat
  BY <1>1, EntryTyped DEF TypeOK, CopiesOf
<1>4. CASE log[i].path = "object"
  <2>1. ASSUME NEW g \in SourceFile
        PROVE  file'[g] = before[g]
    <3>1. g \in File /\ file'[g] = file[g]
      BY <1>2, <1>3, <1>4, ObjectFiles
    <3>2. CASE g \in Recorded
      <4>1. PICK j \in DOMAIN log : log[j].path = g
        BY <3>2 DEF Recorded
      <4>2. i < j
        BY <1>1, <1>4, <4>1 DEF ObjectFirst
      <4> QED
        BY <1>1, <1>3, <3>1, <4>1, <4>2 DEF Restored
    <3>3. CASE g \notin Recorded
      BY <1>1, <3>1, <3>3 DEF Untouched
    <3> QED
      BY <3>2, <3>3
  <2>2. file'["object"] = before["object"]
    BY <1>2, <1>3, <1>4
  <2>3. ObjectFits(file')
    BY <1>1, <2>1, <2>2, FitsSame
  <2>4. ObjectAway'
    <3> SUFFICES ASSUME NEW j \in DOMAIN log, log[j].path \in SourceFile, j <= i - 1
                 PROVE  FALSE
      BY <1>1, <1>2 DEF ObjectAway
    <3>1. i < j
      BY <1>1, <1>4 DEF ObjectFirst
    <3> QED
      BY <1>3, <3>1
  <2> QED
    BY <1>1, <1>2, <2>3, <2>4 DEF ObjectInv, ObjectFits, ScanDone, ObjectFirst
<1>5. CASE log[i].path # "object"
  <2>1. file'["object"] = file["object"]
    BY <1>2, <1>3, <1>5, ObjectFiles
  <2>2. ObjectFits(file')
    <3>1. CASE log[i].path \in SourceFile
      <4>1. file["object"] = NoFile
        BY <1>1, <1>3, <3>1 DEF ObjectAway
      <4> QED
        BY <2>1, <4>1, NoObjectFits
    <3>2. CASE log[i].path \notin SourceFile
      <4>1. \A g \in SourceFile : file'[g] = file[g]
        BY <1>2, <1>3, <3>2, ObjectFiles
      <4> QED
        BY <1>1, <2>1, <4>1, FitsSame
    <3> QED
      BY <3>1, <3>2
  <2>3. ObjectAway'
    <3>1. \A j \in DOMAIN log : j <= i - 1 => j <= i
      BY <1>3
    <3> QED
      BY <1>1, <1>2, <2>1, <3>1 DEF ObjectAway
  <2> QED
    BY <1>1, <1>2, <2>2, <2>3 DEF ObjectInv, ObjectFits, ScanDone, ObjectFirst
<1> QED
  BY <1>4, <1>5

\* One step of install().
LEMMA FileStepKeepsObject ==
    ASSUME InstInv, ObjectInv, ~tampered, NEW s \in FileStep, Step(s)
    PROVE  ObjectInv'
<1> DEFINE f == TargetOf(s)
<1>1. /\ f \in File /\ phase = "open" /\ file \in [File -> Node] /\ ScanDone
      /\ s # "make_target" /\ At(s)
  <2>1. At(s)
    BY DEF Step, StepSame, StepWrites, StepRemoves, StepRaises, StepFails
  <2>2. "make_target" \notin FileStep
    BY DEF FileStep, Hook
  <2> QED
    BY <2>1, <2>2, StepTarget DEF At, ObjectInv, InstInv, TxInv, TypeOK
<1>2. ASSUME s # "scan"
      PROVE  file["object"] = NoFile \/ \A g \in SourceFile : file[g] = Current
  <2>1. Program[1] = "scan"
    BY DEF Program, CopySources
  <2> QED
    BY <1>1, <1>2, <2>1 DEF At, ScanDone
<1>3. s = "scan" => f = "object" /\ Patched(s, file) = Scanned(file)
  BY StepTarget DEF Patched, SourceFile
<1>4. CASE StepSame(s)
  <2>1. file["object"] = NoFile \/ \A g \in SourceFile : file[g] = Current
    <3>1. CASE s = "scan"
      <4>1. Refused # file["object"]
        BY <1>1, <1>3, <3>1, RefusedIsNoText DEF InstInv, FilesTyped
      <4>2. Scanned(file) = file["object"]
        BY <1>3, <1>4, <3>1 DEF StepSame
      <4> QED
        BY <4>1, <4>2 DEF Scanned, SourcesChanged
    <3> QED
      BY <1>2, <3>1
  <2>2. UNCHANGED txVars /\ tampered' = tampered
    BY <1>4 DEF StepSame, Advance
  <2> QED
    BY <2>1, <2>2 DEF txVars, ObjectInv, ObjectFits, ScanDone, ObjectFirst, ObjectAway
<1>5. ASSUME Patched(s, file) \notin {Refused, file[f]}
      PROVE  /\ f \in SourceFile => file["object"] = NoFile
             /\ f = "object" => Patched(s, file) = NoFile /\ Regular(file["object"])
  BY <1>1, <1>5, ObjectStep
<1>6. ASSUME NEW x, file' = [file EXCEPT ![f] = x],
             x = Patched(s, file), x # Refused, x # file[f]
      PROVE  ScanDone'
  <2>1. CASE f = "object"
    BY <1>1, <1>5, <1>6, <2>1 DEF ScanDone
  <2>2. CASE f # "object"
    <3>1. s # "scan" /\ file'["object"] = file["object"]
      BY <1>1, <1>3, <1>6, <2>2, ObjectFiles
    <3>2. CASE f \in SourceFile
      BY <1>5, <1>6, <3>1, <3>2 DEF ScanDone
    <3>3. CASE f \notin SourceFile
      <4>1. \A g \in SourceFile : file'[g] = file[g]
        BY <1>1, <1>6, <3>3, ObjectFiles
      <4> QED
        BY <1>2, <3>1, <4>1 DEF ScanDone
    <3> QED
      BY <3>2, <3>3
  <2> QED
    BY <2>1, <2>2
<1>7. CASE StepWrites(s) \/ StepRemoves(s)
  <2>1. /\ Patched(s, file) \notin {Refused, file[f]} /\ RecordFile(f)
        /\ file' = [file EXCEPT ![f] = Patched(s, file)]
        /\ UNCHANGED <<phase, meddled, failed, before>>
    <3>1. CASE StepWrites(s)
      BY <3>1 DEF StepWrites, Write
    <3>2. CASE StepRemoves(s)
      <4>1. Refused # NoFile
        BY InstallerConstants
      <4> QED
        BY <3>2, <4>1 DEF StepRemoves, Remove, Regular
    <3> QED
      BY <1>7, <3>1, <3>2
  <2>2. ScanDone'
    BY <1>6, <2>1
  <2> QED
    BY <1>1, <1>5, <2>1, <2>2, ChangeKeepsObject
<1>8. CASE StepRaises(s)
  <2>1. /\ file' = file /\ log' = log /\ phase' = "undo_files"
        /\ UNCHANGED <<meddled, failed, before>>
    BY <1>8 DEF StepRaises, Raise, Rollback
  <2> QED
    BY <1>1, <2>1 DEF ObjectInv, ObjectFits, ScanDone, ObjectFirst, ObjectAway
<1>9. CASE StepFails(s)
  <2>1. /\ Patched(s, file) \notin {Refused, file[f]}
        /\ IF Patched(s, file) = NoFile THEN RemoveFails(f) ELSE WriteFails(f)
    BY <1>1, <1>9 DEF StepFails
  <2>2. PICK x : /\ file' = [file EXCEPT ![f] = x] /\ (RecordFile(f) \/ (log' = log /\ x = file[f]))
                 /\ x # file[f] => Patched(s, file) # NoFile
    <3>1. file = [file EXCEPT ![f] = file[f]]
      BY <1>1
    <3>2. \/ file' = file /\ (RecordFile(f) \/ log' = log)
          \/ file' = [file EXCEPT ![f] = Torn] /\ RecordFile(f) /\ Patched(s, file) # NoFile
      BY <2>1 DEF RemoveFails, WriteFails
    <3> QED
      BY <3>1, <3>2
  <2>3. phase' = "undo_files" /\ UNCHANGED <<meddled, failed, before>>
    BY <2>1 DEF RemoveFails, WriteFails, Rollback
  <2>4. ScanDone'
    BY <2>3 DEF ScanDone
  <2>5. /\ f \in SourceFile => file["object"] = NoFile
        /\ f = "object" => x \in {NoFile, file["object"]} /\ Regular(file["object"])
    BY <1>5, <2>1, <2>2
  <2> QED
    BY <1>1, <2>2, <2>3, <2>4, <2>5, ChangeKeepsObject
<1> QED
  BY <1>4, <1>7, <1>8, <1>9 DEF Step

\* A tree that was tampered with stays so.
LEMMA TamperedStays ==
    ASSUME [Next]_vars, ~tampered'
    PROVE  ~tampered
<1>1. CASE UNCHANGED vars
  BY <1>1 DEF vars, instVars
<1>2. CASE IdleStep
  BY <1>2 DEF IdleStep, StartRefused, Verify, VerifyRefused, Reject, Build, Reconfigure, Tamper,
              Restore, instVars
<1>3. CASE Start \/ MakeTarget \/ Finish \/ StepFails("make_target")
  BY <1>3 DEF Start, MakeTarget, Finish, StepFails, Advance, instVars
<1>4. ASSUME NEW s \in FileStep, Step(s)
      PROVE  ~tampered
  BY <1>4 DEF Step, StepSame, StepWrites, StepRemoves, StepRaises, StepFails, Advance, instVars
<1>5. CASE RollsBack \/ RollbackFails \/ Killed \/ Interfere
  BY <1>5 DEF RollsBack, RollbackFails, Killed, Interfere, instVars
<1> QED
  BY <1>1, <1>2, <1>3, <1>4, <1>5, NextCases DEF FileSteps

\* What happens between two runs, without tampering: builds and restores.
LEMMA IdleKeepsObject ==
    ASSUME InstInv, InstInv', ObjectInv, ~tampered, ~tampered', IdleStep
    PROVE  ObjectInv'
<1>1. /\ phase' = "idle" /\ failed' = failed /\ ~failed /\ ObjectFits(file)
      /\ file \in [File -> Node]
  BY IdleStepShape DEF ObjectInv, InstInv, TxInv, TypeOK
<1>2. ObjectFits(file')
  <2>1. CASE StartRefused \/ Verify \/ VerifyRefused
    <3>1. file' = file
      BY <2>1 DEF StartRefused, Verify, VerifyRefused, Reject, disk
    <3> QED
      BY <1>1, <3>1
  <2>2. CASE Build
    <3> DEFINE o == [from |-> [g \in SourceFile |-> file[g]]]
    <3>1. /\ file' = [file EXCEPT !["object"] = o]
          /\ \A g \in SourceFile : file[g] \in OwnedText
      BY <2>2 DEF Build, Edited
    <3>2. file'["object"] = o /\ \A g \in SourceFile : file'[g] = file[g]
      BY <1>1, <3>1, ObjectFiles
    <3>3. \A g \in SourceFile : file[g] \notin {Torn, Symlink, Folder}
      <4>1. \A g \in SourceFile : TextOf(g) = OwnedText
        BY CFiles DEF TextOf, SourceFile
      <4>2. \A g \in SourceFile : OwnedText \subseteq Content
        BY <4>1, InstallerConstants, ObjectFiles
      <4> QED
        BY <3>1, <4>2, InstallerConstants, TransactionConstants
    <3>4. [g \in SourceFile |-> file'[g]] = [g \in SourceFile |-> file[g]]
      BY <3>2
    <3>5. file'["object"].from = [g \in SourceFile |-> file'[g]]
      BY <3>2, <3>4
    <3> QED
      BY <3>2, <3>3, <3>5 DEF ObjectFits
  <2>3. ASSUME NEW f \in File, Restore(f)
        PROVE  ObjectFits(file')
    <3> DEFINE x == IF f \in CFile \cup {"kbuild", "kconfig"} THEN TreeOf[layout.name][f] ELSE NoFile
    <3>1. file[f] \in {Torn, Symlink, Folder} /\ file' = [file EXCEPT ![f] = x]
      BY <2>3 DEF Restore, Edited
    <3>2. CASE f = "object"
      <4>1. x = NoFile
        BY <3>2, CFiles
      <4>2. file'["object"] = NoFile
        BY <1>1, <3>1, <3>2, <4>1
      <4> QED
        BY <4>2, NoObjectFits
    <3>3. CASE f \in SourceFile
      <4>1. ~Whole(file["object"]) /\ file'["object"] = file["object"]
        BY <1>1, <3>1, <3>3, ObjectFiles DEF ObjectFits
      <4> QED
        BY <4>1 DEF ObjectFits
    <3>4. CASE f \notin SourceFile \cup {"object"}
      <4>1. file'["object"] = file["object"] /\ \A g \in SourceFile : file'[g] = file[g]
        BY <1>1, <3>1, <3>4, ObjectFiles
      <4> QED
        BY <1>1, <4>1, FitsSame
    <3> QED
      BY <3>2, <3>3, <3>4
  <2>4. ~Reconfigure /\ \A f \in File : ~Tamper(f)
    BY DEF Reconfigure, Tamper
  <2> QED
    BY <2>1, <2>2, <2>3, <2>4 DEF IdleStep
<1> QED
  BY <1>1, <1>2, EndKeepsObject

\* A kill, in the middle of a write too.
LEMMA KillKeepsObject ==
    ASSUME InstInv, InstInv', ObjectInv, ~tampered, Killed
    PROVE  ObjectInv'
<1>1. ObjectFits(file) /\ file \in [File -> Node]
  BY DEF ObjectInv, InstInv, TxInv, TypeOK
<1>2. CASE Kill
  <2>1. phase' = "idle" /\ ~failed' /\ file' = file
    BY <1>2 DEF Kill, End, disk
  <2> QED
    BY <1>1, <2>1, EndKeepsObject
<1>3. ASSUME NEW i \in DOMAIN Program, At(Program[i]), Program[i] # "make_target",
             Patched(Program[i], file) \notin {Refused, NoFile, file[TargetOf(Program[i])]},
             KillInWrite(TargetOf(Program[i]))
      PROVE  ObjectInv'
  <2> DEFINE s == Program[i]
             f == TargetOf(s)
  <2>1. s \in FileStep
    BY <1>3, ProgramSteps
  <2>2. f \in File /\ ScanDone
    BY <2>1, StepTarget DEF ObjectInv
  <2>3. /\ f \in SourceFile => file["object"] = NoFile
        /\ f # "object"
    BY <1>3, <2>1, <2>2, ObjectStep
  <2>4. phase' = "idle" /\ ~failed' /\ file' = [file EXCEPT ![f] = Torn]
    BY <1>3 DEF KillInWrite, End
  <2>5. file'["object"] = file["object"]
    BY <1>1, <2>3, <2>4, ObjectFiles
  <2>6. ObjectFits(file')
    <3>1. CASE f \in SourceFile
      BY <2>3, <2>5, <3>1, NoObjectFits
    <3>2. CASE f \notin SourceFile
      <4>1. \A g \in SourceFile : file'[g] = file[g]
        BY <1>1, <2>4, <3>2, ObjectFiles
      <4> QED
        BY <1>1, <2>5, <4>1, FitsSame
    <3> QED
      BY <3>1, <3>2
  <2> QED
    BY <2>4, <2>6, EndKeepsObject
<1> QED
  BY <1>2, <1>3 DEF Killed

LEMMA NextObjectInv == InstInv /\ ObjectInv /\ [Next]_vars => ObjectInv'
<1> SUFFICES ASSUME InstInv, ObjectInv, [Next]_vars, ~tampered' PROVE ObjectInv'
  BY DEF ObjectInv
<1>1. ~tampered /\ InstInv'
  BY TamperedStays, NextInstInv
<1>2. /\ ~failed /\ meddled = {} /\ ObjectFits(file) /\ ScanDone /\ ObjectFirst /\ ObjectAway
  BY <1>1 DEF ObjectInv
<1>3. CASE UNCHANGED vars
  BY <1>1, <1>2, <1>3 DEF vars, txVars, instVars, ObjectInv, ObjectFits, ScanDone, ObjectFirst,
                          ObjectAway
<1>4. CASE Start
  <2>1. /\ phase' = "open" /\ pc' = 1 /\ file' = file /\ log' = log /\ before' = before
        /\ meddled' = meddled /\ failed' = failed /\ phase = "idle"
    BY <1>4 DEF Start, Begin, disk
  <2>2. before = file /\ log = <<>>
    BY <2>1 DEF InstInv, TxInv, IdleClean
  <2> QED
    BY <1>2, <2>1, <2>2 DEF ObjectInv, ObjectFits, ScanDone, ObjectFirst, ObjectAway
<1>5. CASE IdleStep
  BY <1>1, <1>5, IdleKeepsObject
<1>6. CASE MakeTarget
  <2>1. phase = "open" /\ UNCHANGED <<file, phase, log, todo, failed, before, meddled>>
    BY <1>6 DEF MakeTarget, MakeDir
  <2>2. pc # 1
    BY <1>6 DEF MakeTarget, At, Program, CopySources
  <2> QED
    BY <1>1, <1>2, <2>1, <2>2 DEF ObjectInv, ObjectFits, ScanDone, ObjectFirst, ObjectAway
<1>7. CASE Finish
  <2>1. phase' = "idle" /\ ~failed' /\ file' = file
    BY <1>7 DEF Finish, Commit, End, disk
  <2> QED
    BY <1>1, <1>2, <2>1, EndKeepsObject
<1>8. CASE FileSteps
  BY <1>1, <1>8, FileStepKeepsObject DEF FileSteps
<1>9. CASE StepFails("make_target")
  <2>1. MakeDirFails("abk_sandbox")
    BY <1>9 DEF StepFails
  <2>2. phase = "open" /\ phase' = "undo_files" /\ UNCHANGED <<file, log, failed, before, meddled>>
    BY <2>1 DEF MakeDirFails, Rollback
  <2> QED
    BY <1>1, <1>2, <2>2 DEF ObjectInv, ObjectFits, ScanDone, ObjectFirst, ObjectAway
<1>10. CASE RollsBack
  <2>1. ASSUME NEW i \in DOMAIN log, UndoFile(i)
        PROVE  ObjectInv'
    BY <1>1, <2>1, UndoKeepsObject
  <2>2. ASSUME UndoFilesDone \/ \E d \in Dir : UndoDir(d)
        PROVE  ObjectInv'
    <3>1. /\ phase' = "undo_dirs" /\ phase # "idle"
          /\ UNCHANGED <<file, log, failed, before, meddled>>
      BY <2>2 DEF UndoFilesDone, UndoDir, disk
    <3> QED
      BY <1>1, <1>2, <3>1 DEF ObjectInv, ObjectFits, ScanDone, ObjectFirst, ObjectAway
  <2>3. CASE Undone
    <3>1. phase' = "idle" /\ ~failed' /\ file' = file
      BY <2>3 DEF Undone, End, disk
    <3> QED
      BY <1>1, <1>2, <3>1, EndKeepsObject
  <2> QED
    BY <1>10, <2>1, <2>2, <2>3 DEF RollsBack
<1>11. CASE Killed
  BY <1>1, <1>11, KillKeepsObject
<1>12. ~RollbackFails /\ ~Interfere
  BY DEF RollbackFails, Interfere
<1> QED
  BY <1>3, <1>4, <1>5, <1>6, <1>7, <1>8, <1>9, <1>10, <1>11, <1>12, NextCases

LEMMA InitObjectInv == Init => ObjectInv
<1> SUFFICES ASSUME Init PROVE ObjectInv
  OBVIOUS
<1>1. /\ log = <<>> /\ phase = "idle" /\ meddled = {} /\ ~failed
      /\ layout \in Layouts /\ file = TreeOf[layout.name]
  BY DEF Init
<1>2. /\ \A g \in SourceFile : file[g] \in Content \cup {NoFile}
      /\ file["object"] # NoFile => file["object"].from = [g \in SourceFile |-> file[g]]
  BY <1>1, InstallerConstants, ObjectFiles
<1>3. ObjectFits(file)
  BY <1>2, InstallerConstants, TransactionConstants DEF ObjectFits, Whole, Regular
<1> QED
  BY <1>1, <1>3 DEF ObjectInv, ScanDone, ObjectFirst, ObjectAway

\* Whatever fails and wherever a run is killed, no object file lies next to
\* sources it was not made from, unless the tree was tampered with or a restore
\* has failed.
THEOREM ObjectNeverStale == Spec => []NoStaleObject
<1>1. ObjectInv => NoStaleObject
  BY DEF ObjectInv, ObjectFits, Whole, NoStaleObject
<1> QED
  BY <1>1, InitInstInv, NextInstInv, InitObjectInv, NextObjectInv, PTL DEF Spec

-----------------------------------------------------------------------------
(* What an installation leaves.                                            *)

\* The check of hook h passes, for a place in condition c.
Passes(h, c, inc) ==
    /\ c \in {"hooked", "extra_call", "anchor_back"}
    /\ ExactInjectionInstalled(h, c, inc)
    /\ ~(h \in Anchored /\ c = "anchor_back")

IncludeStep == {"inc_seccomp", "inc_namespace", "inc_ptrace", "inc_signal"}

\* What patch step s has put into the text t of its file.
InPlace(s, t) ==
    /\ s \in Hook => Passes(s, t.sites[s], t.inc)
    /\ s \in IncludeStep => t.inc = "placed"
    /\ s = "bind_upgrade" => t.sites["bind"] # "legacy"
    /\ s = "allowlist" =>
            /\ Passes("revoke", t.sites["revoke"], t.inc)
            /\ Passes("prune", t.sites["prune"], t.inc)
            /\ RevokeCalls(t.sites["revoke"]) + RevokeCalls(t.sites["prune"]) = 2

\* The patches of a hook alone and of a hook with the include.
WithInclude == {"escape", "supercall", "reapply"}

LEMMA HookPatch ==
    ASSUME NEW s \in CStep, NEW t
    PROVE  /\ s \in WithInclude => PatchedC(s, t) = PatchWithInclude(t, s)
           /\ s \in Hook \ WithInclude => PatchedC(s, t) = PatchHook(t, s)
           /\ s \in IncludeStep => PatchedC(s, t) = NormalizeInclude(t)
           /\ s = "bind_upgrade" => PatchedC(s, t) = UpgradeBind(t)
           /\ s = "allowlist" => PatchedC(s, t) = PatchAllowlist(t)
           /\ s \in Hook \/ s \in IncludeStep \/ s \in {"bind_upgrade", "allowlist"}
           /\ WithInclude \subseteq Hook /\ IncludeStep \cap Hook = {}
           /\ "bind_upgrade" \notin Hook \cup IncludeStep /\ "allowlist" \notin Hook \cup IncludeStep
           /\ s \notin {"revoke", "prune"}
BY DEF Hook, CStep, FileStep, WithInclude, IncludeStep, PatchedC, PatchEscape, PatchSupercallDispatch,
       PatchPolicyLockOrder, PatchPolicyReapply, PatchSucompatFailClosed, PatchManualFailClosed,
       PatchLsmCount, PatchSeccomp, PatchMountPrivilege, PatchBind, PatchUmountPrivilege,
       PatchMountResult, PatchUmount, PatchPtrace, PatchSignal

\* The answers of the check are told apart from an error.
LEMMA CheckAnswers ==
    ASSUME NEW h, NEW c \in Condition, NEW inc
    PROVE  /\ ExactInjectionInstalled(h, c, inc) \in BOOLEAN \cup {Refused}
           /\ Refused \notin BOOLEAN \cup Condition \cup Include
           /\ ~Marked(c) /\ c # "no_scope" => ExactInjectionInstalled(h, c, inc) = FALSE
           /\ ExactInjectionInstalled(h, c, inc) = TRUE =>
                c \in {"hooked", "extra_call", "anchor_back"} /\ Marked(c)
           /\ ExactInjectionInstalled(h, c, inc) = FALSE => ~Marked(c)
           /\ (h \in Including => inc \in {"placed", "elsewhere"}) =>
                ExactInjectionInstalled(h, "hooked", inc) = TRUE
<1>1. Refused \notin BOOLEAN \cup Condition \cup Include
  BY InstallerConstants
<1> QED
  BY <1>1 DEF ExactInjectionInstalled, Marked, Condition

\* A hook that passes its check is left alone.
LEMMA PassesSettled ==
    ASSUME NEW H, NEW h \in H, NEW t \in CTextWith(H), Passes(h, t.sites[h], t.inc)
    PROVE  PatchHook(t, h) = t /\ PatchWithInclude(t, h) = t /\ Marked(t.sites[h])
<1>1. t.sites[h] \in Condition
  BY DEF CTextWith
<1>2. ExactInjectionInstalled(h, t.sites[h], t.inc) = TRUE
  BY <1>1, CheckAnswers DEF Passes
<1>3. Refused # TRUE
  BY InstallerConstants
<1>4. PatchHook(t, h) = t
  BY <1>2, <1>3 DEF PatchHook, Passes
<1> QED
  BY <1>4 DEF PatchWithInclude, Passes, Marked

\* What a patch has put in it finds there.
LEMMA InPlaceSettled ==
    ASSUME NEW s \in CStep, NEW t \in TextOf(TargetOf(s)), InPlace(s, t)
    PROVE  /\ PatchedC(s, t) = t
           /\ s \in Hook => Marked(t.sites[s])
           /\ s = "allowlist" => Marked(t.sites["revoke"]) /\ Marked(t.sites["prune"])
<1> DEFINE H == HooksIn[TargetOf(s)]
<1>1. /\ TargetOf(s) \in CFile
      /\ s \in Hook => s \in H
      /\ s = "allowlist" => {"revoke", "prune"} \subseteq H
      /\ s = "bind_upgrade" => "bind" \in H
  BY StepTarget, CFiles DEF CStep, FileStep
<1>2. t \in CTextWith(H)
  BY <1>1, CFiles DEF TextOf, CText, CTextWith
<1> HIDE DEF H
<1>3. CASE s \in Hook
  <2>1. Passes(s, t.sites[s], t.inc)
    BY <1>3 DEF InPlace
  <2>2. PatchHook(t, s) = t /\ PatchWithInclude(t, s) = t /\ Marked(t.sites[s])
    BY <1>1, <1>2, <1>3, <2>1, PassesSettled
  <2> QED
    BY <1>3, <2>2, HookPatch
<1>4. CASE s \in IncludeStep
  <2>1. t.inc = "placed"
    BY <1>4 DEF InPlace
  <2>2. [t EXCEPT !.inc = "placed"] = t
    BY <1>2, <2>1 DEF CTextWith
  <2>3. Refused # "placed"
    BY InstallerConstants DEF Include
  <2>4. NormalizeInclude(t) = t
    BY <2>1, <2>2, <2>3 DEF NormalizeInclude, AddInclude
  <2> QED
    BY <1>4, <2>4, HookPatch
<1>5. CASE s = "bind_upgrade"
  BY <1>5, HookPatch DEF InPlace, UpgradeBind
<1>6. CASE s = "allowlist"
  <2>1. /\ Passes("revoke", t.sites["revoke"], t.inc) /\ Passes("prune", t.sites["prune"], t.inc)
        /\ RevokeCalls(t.sites["revoke"]) + RevokeCalls(t.sites["prune"]) = 2
    BY <1>6 DEF InPlace
  <2>2. t.sites["revoke"] \in Condition /\ t.sites["prune"] \in Condition
    BY <1>1, <1>2, <1>6 DEF CTextWith
  <2>3. /\ ExactInjectionInstalled("revoke", t.sites["revoke"], t.inc) = TRUE
        /\ ExactInjectionInstalled("prune", t.sites["prune"], t.inc) = TRUE
    BY <2>1, <2>2, CheckAnswers DEF Passes
  <2>4. Marked(t.sites["revoke"]) /\ Marked(t.sites["prune"])
    BY <2>1 DEF Passes, Marked
  <2>5. Refused # TRUE
    BY InstallerConstants
  <2>6. PatchAllowlist(t) = t
    BY <2>1, <2>3, <2>4, <2>5, Zenon DEF PatchAllowlist
  <2> QED
    BY <1>6, <2>4, <2>6, HookPatch
<1> QED
  BY <1>3, <1>4, <1>5, <1>6, HookPatch

\* Where no one else calls the hook, a patch finds it passing or puts it at
\* its bare anchor.
LEMMA HookPutsIn ==
    ASSUME NEW H, NEW h \in H, NEW t \in CTextWith(H), t.sites[h] # "foreign_call",
           PatchHook(t, h) # Refused
    PROVE  \/ PatchHook(t, h) = t /\ Passes(h, t.sites[h], t.inc)
           \/ /\ t.sites[h] = "bare"
              /\ PatchHook(t, h) = [t EXCEPT !.sites[h] = "hooked"]
              /\ PatchHook(t, h) # t
<1> DEFINE c == t.sites[h]
           is == ExactInjectionInstalled(h, c, t.inc)
<1>1. t.sites \in [H -> Condition] /\ c \in Condition
  BY DEF CTextWith
<1>2. is \in BOOLEAN /\ ~(h \in Anchored /\ c = "anchor_back")
  <2>1. is # Refused /\ ~(h \in Anchored /\ c = "anchor_back")
    BY DEF PatchHook
  <2> QED
    BY <1>1, <2>1, CheckAnswers
<1>3. CASE is = TRUE
  <2>1. c \in {"hooked", "extra_call", "anchor_back"}
    BY <1>1, <1>3, CheckAnswers
  <2>2. Passes(h, c, t.inc)
    BY <1>2, <1>3, <2>1 DEF Passes
  <2> QED
    BY <2>2, PassesSettled
<1>4. CASE is = FALSE
  <2>1. PatchHook(t, h) = SetSite(t, h, Inserted(c))
    <3>1. Refused # FALSE
      BY InstallerConstants
    <3> QED
      BY <1>2, <1>4, <3>1 DEF PatchHook
  <2>2. c = "bare"
    BY <2>1 DEF SetSite, Inserted
  <2>3. Inserted(c) = "hooked" /\ Refused # "hooked"
    BY <2>2, InstallerConstants DEF Inserted, Condition
  <2>4. PatchHook(t, h) = [t EXCEPT !.sites[h] = "hooked"]
    BY <2>1, <2>3 DEF SetSite
  <2>5. [t EXCEPT !.sites[h] = "hooked"].sites[h] = "hooked"
    BY <1>1 DEF CTextWith
  <2> QED
    BY <2>2, <2>4, <2>5
<1> QED
  BY <1>2, <1>3, <1>4

\* The patches that put the include in as well.
Moving == WithInclude \cup IncludeStep \cup {"allowlist"}

\* A patch changes nothing but the place of its own hook and the include.
Shape(s, H, t, p) ==
    /\ p \in CTextWith(H)
    /\ \A h \in H : \/ p.sites[h] = t.sites[h]
                    \/ p.sites[h] = "hooked" /\ (s \in {h, "allowlist"} \/ (s = "bind_upgrade" /\ h = "bind"))
    /\ p.inc = t.inc \/ (s \in Moving /\ p.inc = "placed")

\* With the include in its place a new hook passes its check.
LEMMA NewHookPasses ==
    ASSUME NEW h, NEW inc, h \in Including => inc \in {"placed", "elsewhere"}
    PROVE  Passes(h, "hooked", inc)
<1>1. "hooked" \in Condition
  BY DEF Condition
<1> QED
  BY <1>1, CheckAnswers DEF Passes

LEMMA PatchPutsIn ==
    ASSUME NEW s \in CStep, NEW t \in TextOf(TargetOf(s)), Unedited(TargetOf(s), t),
           PatchedC(s, t) # Refused,
           s \in {"seccomp", "mount_privilege", "ptrace", "signal"} => t.inc = "placed"
    PROVE  /\ InPlace(s, PatchedC(s, t))
           /\ Unedited(TargetOf(s), PatchedC(s, t))
           /\ Shape(s, HooksIn[TargetOf(s)], t, PatchedC(s, t))
<1> DEFINE H == HooksIn[TargetOf(s)]
           p == PatchedC(s, t)
<1>1. /\ TargetOf(s) \in CFile
      /\ s \in Hook => s \in H
      /\ s = "allowlist" => {"revoke", "prune"} \subseteq H /\ H \subseteq {"revoke", "prune"}
      /\ s = "bind_upgrade" => "bind" \in H
      /\ TargetOf(s) = "allowlist" => s = "allowlist"
      /\ TargetOf(s) # "kbuild"
  BY StepTarget, CFiles DEF CStep, FileStep
<1>2. t \in CTextWith(H) /\ \A h \in H : t.sites[h] # "foreign_call"
  BY <1>1, CFiles DEF TextOf, CText, CTextWith, Unedited
<1>3. t.sites \in [H -> Condition] /\ t.inc \in Include
  BY <1>2 DEF CTextWith
<1>4. "hooked" \in Condition /\ "placed" \in Include /\ Refused # "placed"
  BY InstallerConstants DEF Condition, Include
<1>5. Hook \cap Including \subseteq WithInclude \cup {"seccomp", "mount_privilege", "ptrace", "signal", "revoke"}
  BY DEF Hook, Including, WithInclude
<1> HIDE DEF H
<1>6. ASSUME NEW h \in H, NEW q, q = [t EXCEPT !.sites[h] = "hooked"]
      PROVE  /\ q \in CTextWith(H) /\ q.inc = t.inc /\ q.sites[h] = "hooked"
             /\ \A g \in H \ {h} : q.sites[g] = t.sites[g]
  BY <1>2, <1>3, <1>4, <1>6 DEF CTextWith
<1>7. CASE s \in Hook \ WithInclude
  <2>1. p = PatchHook(t, s) /\ s \in H
    BY <1>1, <1>7, HookPatch
  <2>2. CASE p = t /\ Passes(s, t.sites[s], t.inc)
    BY <1>2, <1>7, <2>2, HookPatch DEF InPlace, Shape, H
  <2>3. CASE t.sites[s] = "bare" /\ p = [t EXCEPT !.sites[s] = "hooked"]
    <3>1. /\ p \in CTextWith(H) /\ p.inc = t.inc /\ p.sites[s] = "hooked"
          /\ \A g \in H \ {s} : p.sites[g] = t.sites[g]
      BY <1>6, <2>1, <2>3
    <3>2. Passes(s, p.sites[s], p.inc)
      <4>1. s \in Including => p.inc = "placed"
        BY <1>5, <1>7, <3>1, HookPatch
      <4> QED
        BY <3>1, <4>1, NewHookPasses
    <3>3. Unedited(TargetOf(s), p)
      BY <1>1, <1>2, <1>7, <3>1, HookPatch DEF Unedited, H
    <3> QED
      BY <1>7, <3>1, <3>2, <3>3, HookPatch DEF InPlace, Shape, H
  <2> QED
    BY <1>2, <2>1, <2>2, <2>3, HookPutsIn
<1>8. CASE s \in WithInclude
  <2>1. p = PatchWithInclude(t, s) /\ s \in H /\ s \in Hook
    BY <1>1, <1>8, HookPatch
  <2> DEFINE k == PatchHook(t, s)
  <2>2. k # Refused
    BY <2>1 DEF PatchWithInclude
  <2>3. CASE k = t /\ Passes(s, t.sites[s], t.inc)
    <3>1. p = t
      BY <2>1, <2>3 DEF PatchWithInclude
    <3> QED
      BY <1>2, <1>8, <2>1, <2>3, <3>1, HookPatch DEF InPlace, Shape, H
  <2>4. CASE t.sites[s] = "bare" /\ k = [t EXCEPT !.sites[s] = "hooked"] /\ k # t
    <3>1. /\ k \in CTextWith(H) /\ k.inc = t.inc /\ k.sites[s] = "hooked"
          /\ \A g \in H \ {s} : k.sites[g] = t.sites[g]
      BY <1>6, <2>1, <2>4
    <3>2. p = [k EXCEPT !.inc = "placed"]
      BY <2>1, <2>2, <2>4 DEF PatchWithInclude
    <3> HIDE DEF k
    <3>3. p \in CTextWith(H) /\ p.inc = "placed" /\ p.sites = k.sites
      BY <1>4, <3>1, <3>2 DEF CTextWith
    <3>4. Passes(s, p.sites[s], p.inc)
      BY <3>1, <3>3, NewHookPasses
    <3>5. Unedited(TargetOf(s), p)
      BY <1>1, <1>2, <2>1, <3>1, <3>3, HookPatch DEF Unedited, H
    <3> QED
      BY <1>8, <2>1, <3>1, <3>3, <3>4, <3>5, HookPatch DEF InPlace, Shape, H, Moving
  <2> QED
    BY <1>2, <2>1, <2>2, <2>3, <2>4, HookPutsIn
<1>9. CASE s \in IncludeStep
  <2>1. p = [t EXCEPT !.inc = "placed"]
    BY <1>9, HookPatch DEF NormalizeInclude
  <2>2. p \in CTextWith(H) /\ p.inc = "placed" /\ p.sites = t.sites
    BY <1>2, <1>4, <2>1 DEF CTextWith
  <2>3. Unedited(TargetOf(s), p)
    BY <1>1, <1>2, <1>9, <2>2, HookPatch DEF Unedited, H
  <2> QED
    BY <1>9, <2>2, <2>3, HookPatch DEF InPlace, Shape, H, Moving
<1>10. CASE s = "bind_upgrade"
  <2>1. p = UpgradeBind(t) /\ "bind" \in H
    BY <1>1, <1>10, HookPatch
  <2>2. CASE t.sites["bind"] # "legacy"
    <3>1. p = t
      BY <2>1, <2>2 DEF UpgradeBind
    <3> QED
      BY <1>2, <1>10, <2>2, <3>1, HookPatch DEF InPlace, Shape, H
  <2>3. CASE t.sites["bind"] = "legacy"
    <3>1. p = [t EXCEPT !.sites["bind"] = "hooked"]
      BY <2>1, <2>3 DEF UpgradeBind
    <3>2. /\ p \in CTextWith(H) /\ p.inc = t.inc /\ p.sites["bind"] = "hooked"
          /\ \A g \in H \ {"bind"} : p.sites[g] = t.sites[g]
      BY <1>6, <2>1, <3>1
    <3>3. Unedited(TargetOf(s), p)
      BY <1>1, <1>2, <1>10, <3>2, HookPatch DEF Unedited, H
    <3> QED
      BY <1>10, <3>2, <3>3, HookPatch DEF InPlace, Shape, H
  <2> QED
    BY <2>2, <2>3
<1>11. CASE s = "allowlist"
  <2> DEFINE a == t.sites["revoke"]
             b == t.sites["prune"]
  <2>1. /\ p = PatchAllowlist(t) /\ H = {"revoke", "prune"} /\ a \in Condition /\ b \in Condition
        /\ TargetOf(s) = "allowlist" /\ (Marked(a) <=> Marked(b))
    BY <1>1, <1>3, <1>11, HookPatch, StepTarget DEF Unedited, CStep
  <2>2. CASE Marked(a)
    <3>1. /\ ExactInjectionInstalled("revoke", a, t.inc) # Refused
          /\ ExactInjectionInstalled("prune", b, t.inc) # Refused
          /\ RevokeCalls(a) + RevokeCalls(b) = 2
          /\ p = t
      BY <2>1, <2>2 DEF PatchAllowlist
    <3>2. Passes("revoke", a, t.inc) /\ Passes("prune", b, t.inc)
      <4>1. /\ ExactInjectionInstalled("revoke", a, t.inc) = TRUE
            /\ ExactInjectionInstalled("prune", b, t.inc) = TRUE
        BY <2>1, <2>2, <3>1, CheckAnswers
      <4>2. {"revoke", "prune"} \cap Anchored = {}
        BY DEF Anchored
      <4> QED
        BY <2>1, <4>1, <4>2, CheckAnswers DEF Passes
    <3> QED
      BY <1>2, <1>11, <2>1, <3>1, <3>2, HookPatch DEF InPlace, Shape, H
  <2>3. CASE ~Marked(a)
    <3>1. /\ Inserted(a) # Refused /\ Inserted(b) # Refused
          /\ p = [t EXCEPT !.inc = "placed", !.sites["revoke"] = Inserted(a),
                           !.sites["prune"] = Inserted(b)]
      BY <2>1, <2>3 DEF PatchAllowlist
    <3>2. a # "foreign_call" /\ b # "foreign_call"
      BY <1>2, <2>1
    <3>3. Inserted(a) = "hooked" /\ Inserted(b) = "hooked"
      BY <2>1, <3>1, <3>2 DEF Inserted
    <3>4. /\ p \in CTextWith(H) /\ p.inc = "placed"
          /\ p.sites["revoke"] = "hooked" /\ p.sites["prune"] = "hooked"
      <4>1. p = [t EXCEPT !.inc = "placed", !.sites["revoke"] = "hooked", !.sites["prune"] = "hooked"]
        BY <3>1, <3>3
      <4> HIDE DEF p
      <4> QED
        BY <1>1, <1>3, <1>2, <1>4, <1>11, <4>1 DEF CTextWith
    <3>5. Passes("revoke", "hooked", "placed") /\ Passes("prune", "hooked", "placed")
      BY NewHookPasses
    <3>6. RevokeCalls("hooked") + RevokeCalls("hooked") = 2
      BY DEF RevokeCalls
    <3>7. Unedited(TargetOf(s), p)
      BY <2>1, <3>4 DEF Unedited, H, Marked
    <3> QED
      BY <1>11, <2>1, <3>4, <3>5, <3>6, <3>7, HookPatch DEF InPlace, Shape, H, Moving
  <2> QED
    BY <2>2, <2>3
<1> QED
  BY <1>7, <1>8, <1>9, <1>10, <1>11, HookPatch

\* What an earlier step of the file has put in stays.
LEMMA LaterKeeps ==
    ASSUME NEW r \in CStep, NEW s \in CStep, r # s, TargetOf(r) = TargetOf(s),
           s \in Moving => r = "lock",
           NEW t \in TextOf(TargetOf(s)), NEW p, Shape(s, HooksIn[TargetOf(s)], t, p),
           InPlace(r, t)
    PROVE  InPlace(r, p)
<1> DEFINE H == HooksIn[TargetOf(s)]
<1>1. /\ TargetOf(s) \in CFile
      /\ r \in Hook => r \in H
      /\ r = "bind_upgrade" => "bind" \in H
  BY StepTarget, CFiles DEF CStep, FileStep
<1>2. r # "allowlist"
  BY StepTarget, CFiles DEF CStep, FileStep
<1>3. s # "allowlist"
  BY <1>2, StepTarget, CFiles DEF CStep, FileStep
<1> HIDE DEF H
<1>4. \A h \in H : \/ p.sites[h] = t.sites[h]
                   \/ p.sites[h] = "hooked" /\ (s = h \/ (s = "bind_upgrade" /\ h = "bind"))
  BY <1>3 DEF Shape, H
<1>5. r = "lock" \/ p.inc = t.inc
  BY DEF Shape
<1>6. CASE r \in Hook
  <2>1. Passes(r, t.sites[r], t.inc)
    BY <1>6 DEF InPlace
  <2>2. p.sites[r] = t.sites[r] \/ (r = "bind" /\ p.sites[r] = "hooked" /\ p.inc = t.inc)
    BY <1>1, <1>4, <1>5, <1>6
  <2>3. Passes(r, p.sites[r], p.inc)
    <3>1. CASE p.sites[r] = t.sites[r]
      <4>1. "lock" \notin Including
        BY DEF Including
      <4> QED
        BY <1>5, <2>1, <3>1, <4>1 DEF Passes, ExactInjectionInstalled
    <3>2. CASE r = "bind" /\ p.sites[r] = "hooked"
      <4>1. "bind" \notin Including
        BY DEF Including
      <4> QED
        BY <3>2, <4>1, NewHookPasses
    <3> QED
      BY <2>2, <3>1, <3>2
  <2> QED
    BY <1>6, <2>3, HookPatch DEF InPlace
<1>7. CASE r \in IncludeStep
  <2>1. r # "lock"
    BY <1>7 DEF IncludeStep
  <2> QED
    BY <1>5, <1>7, <2>1, HookPatch DEF InPlace
<1>8. CASE r = "bind_upgrade"
  BY <1>1, <1>4, <1>8, HookPatch DEF InPlace
<1> QED
  BY <1>2, <1>6, <1>7, <1>8, HookPatch

-----------------------------------------------------------------------------
(* The order of the steps.                                                 *)

LEMMA ProgramList ==
    /\ DOMAIN Program = 1..29 /\ Len(Program) = 29
    /\ Program[1] = "scan" /\ Program[2] = "legacy_api" /\ Program[3] = "make_target"
    /\ Program[4] = "core" /\ Program[5] = "lsm" /\ Program[6] = "kbuild" /\ Program[7] = "kconfig"
    /\ Program[8] = "escape" /\ Program[9] = "supercall" /\ Program[10] = "allowlist"
    /\ Program[11] = "lock" /\ Program[12] = "reapply" /\ Program[13] = "sucompat"
    /\ Program[14] = "manual" /\ Program[15] = "header" /\ Program[16] = "lsm_count"
    /\ Program[17] = "inc_seccomp" /\ Program[18] = "seccomp" /\ Program[19] = "inc_namespace"
    /\ Program[20] = "mount_privilege" /\ Program[21] = "bind_upgrade" /\ Program[22] = "bind"
    /\ Program[23] = "umount_privilege" /\ Program[24] = "mount_result" /\ Program[25] = "umount"
    /\ Program[26] = "inc_ptrace" /\ Program[27] = "ptrace" /\ Program[28] = "inc_signal"
    /\ Program[29] = "signal"
BY DEF Program, CopySources, Patches, KernelHooks

LEMMA ProgramPlaces ==
    \A i \in 1..29 : \/ i = 1 \/ i = 2 \/ i = 3 \/ i = 4 \/ i = 5 \/ i = 6 \/ i = 7 \/ i = 8 \/ i = 9
                     \/ i = 10 \/ i = 11 \/ i = 12 \/ i = 13 \/ i = 14 \/ i = 15 \/ i = 16 \/ i = 17
                     \/ i = 18 \/ i = 19 \/ i = 20 \/ i = 21 \/ i = 22 \/ i = 23 \/ i = 24 \/ i = 25
                     \/ i = 26 \/ i = 27 \/ i = 28 \/ i = 29
OBVIOUS

\* The place of each step.
PlaceOf == [s \in FileStep \cup {"make_target"} |->
    CASE s = "scan" -> 1 [] s = "legacy_api" -> 2 [] s = "make_target" -> 3 [] s = "core" -> 4
      [] s = "lsm" -> 5 [] s = "kbuild" -> 6 [] s = "kconfig" -> 7 [] s = "escape" -> 8
      [] s = "supercall" -> 9 [] s = "allowlist" -> 10 [] s = "lock" -> 11 [] s = "reapply" -> 12
      [] s = "sucompat" -> 13 [] s = "manual" -> 14 [] s = "header" -> 15 [] s = "lsm_count" -> 16
      [] s = "inc_seccomp" -> 17 [] s = "seccomp" -> 18 [] s = "inc_namespace" -> 19
      [] s = "mount_privilege" -> 20 [] s = "bind_upgrade" -> 21 [] s = "bind" -> 22
      [] s = "umount_privilege" -> 23 [] s = "mount_result" -> 24 [] s = "umount" -> 25
      [] s = "inc_ptrace" -> 26 [] s = "ptrace" -> 27 [] s = "inc_signal" -> 28
      [] s = "signal" -> 29]

LEMMA PlaceOfStep ==
    /\ \A s \in FileStep : PlaceOf[s] \in 1..29 /\ Program[PlaceOf[s]] = s
    /\ \A i \in 1..29 : Program[i] \in FileStep \cup {"make_target"} /\ PlaceOf[Program[i]] = i
<1>1. \A s \in FileStep : \E i \in 1..29 : Program[i] = s
  BY ProgramList DEF FileStep, Hook
<1>2. \A i \in 1..29 : Program[i] \in FileStep \cup {"make_target"}
  BY ProgramSteps, ProgramList
<1>3. \A i \in 1..29 : PlaceOf[Program[i]] = i
  BY <1>2, ProgramList, ProgramPlaces DEF PlaceOf
<1> QED
  BY <1>1, <1>2, <1>3

\* No step is taken twice, and the include goes into a file before its hooks.
LEMMA StepOrder ==
    ASSUME NEW s \in FileStep, NEW r \in FileStep, PlaceOf[r] < PlaceOf[s]
    PROVE  /\ r # s
           /\ TargetOf(r) = TargetOf(s) /\ s \in Moving => r = "lock"
           /\ TargetOf(r) = TargetOf(s) => r \in CStep /\ s \in CStep
<1>1. r # s
  BY PlaceOfStep
<1>2. ASSUME TargetOf(r) = TargetOf(s)
      PROVE  r \in CStep /\ s \in CStep
  BY <1>1, <1>2, StepTarget, CFiles DEF FileStep, CStep, SourceFile
<1>3. ASSUME TargetOf(r) = TargetOf(s), s \in Moving
      PROVE  r = "lock"
  <2>1. s \in {"escape", "supercall", "reapply", "allowlist", "inc_seccomp", "inc_namespace",
               "inc_ptrace", "inc_signal"}
    BY <1>3 DEF Moving, WithInclude, IncludeStep
  <2>2. r \in CStep
    BY <1>2, <1>3
  <2>3. /\ s = "escape" => TargetOf(s) = "app_profile"
        /\ s = "supercall" => TargetOf(s) = "dispatch"
        /\ s = "reapply" => TargetOf(s) = "rules"
    BY StepTarget, CFiles DEF Hook
  <2>4. CASE s \in {"escape", "supercall", "reapply", "allowlist"}
    BY <1>1, <1>3, <2>2, <2>3, <2>4, StepTarget, CFiles DEF CStep, FileStep, Hook
  <2>5. CASE s = "inc_seccomp"
    <3>1. r \in {"inc_seccomp", "seccomp"}
      BY <1>3, <2>2, <2>5, StepTarget, CFiles DEF CStep, FileStep, Hook
    <3> QED
      BY <2>5, <3>1 DEF PlaceOf, FileStep, Hook
  <2>6. CASE s = "inc_ptrace"
    <3>1. r \in {"inc_ptrace", "ptrace"}
      BY <1>3, <2>2, <2>6, StepTarget, CFiles DEF CStep, FileStep, Hook
    <3> QED
      BY <2>6, <3>1 DEF PlaceOf, FileStep, Hook
  <2>7. CASE s = "inc_signal"
    <3>1. r \in {"inc_signal", "signal"}
      BY <1>3, <2>2, <2>7, StepTarget, CFiles DEF CStep, FileStep, Hook
    <3> QED
      BY <2>7, <3>1 DEF PlaceOf, FileStep, Hook
  <2>8. CASE s = "inc_namespace"
    <3>1. r \in {"inc_namespace", "bind_upgrade", "mount_privilege", "bind", "umount_privilege",
                 "mount_result", "umount"}
      BY <1>3, <2>2, <2>8, StepTarget, CFiles DEF CStep, FileStep, Hook
    <3> QED
      BY <2>8, <3>1 DEF PlaceOf, FileStep, Hook
  <2> QED
    BY <2>1, <2>4, <2>5, <2>6, <2>7, <2>8
<1> QED
  BY <1>1, <1>2, <1>3

\* The step that puts the include in for a hook that needs it.
IncludeFor(s) ==
    CASE s = "seccomp" -> "inc_seccomp"
      [] s = "mount_privilege" -> "inc_namespace"
      [] s = "ptrace" -> "inc_ptrace"
      [] OTHER -> "inc_signal"

LEMMA IncludeComesFirst ==
    ASSUME NEW s \in {"seccomp", "mount_privilege", "ptrace", "signal"}
    PROVE  /\ IncludeFor(s) \in CStep \cap IncludeStep /\ s \in FileStep
           /\ TargetOf(IncludeFor(s)) = TargetOf(s)
           /\ PlaceOf[IncludeFor(s)] < PlaceOf[s]
<1>1. IncludeFor(s) \in CStep \cap IncludeStep /\ s \in FileStep /\ IncludeFor(s) \in FileStep
  BY DEF IncludeFor, IncludeStep, CStep, FileStep, Hook
<1>2. TargetOf(IncludeFor(s)) = TargetOf(s)
  BY <1>1, StepTarget, CFiles DEF IncludeFor, Hook
<1>3. PlaceOf[IncludeFor(s)] < PlaceOf[s]
  BY <1>1 DEF IncludeFor, PlaceOf, FileStep, Hook
<1> QED
  BY <1>1, <1>2, <1>3

-----------------------------------------------------------------------------
(* What the steps taken have done.                                         *)

\* Step s is done with its file, which is t.
Done(s, t) ==
    /\ s \in SourceFile \cup {"header"} => t = Current
    /\ s = "kbuild" => t \in KbuildText /\ t.flaw = "none" /\ t.block = TailPolicy
    /\ s = "kconfig" => t = [menu |-> "installed"]
    /\ s \in CStep /\ ~Skipped(s) => t \in TextOf(TargetOf(s)) /\ InPlace(s, t)

DoneSoFar ==
    phase = "open" =>
        /\ pc \in 1..30
        /\ \A s \in FileStep : PlaceOf[s] < pc => Done(s, file[TargetOf(s)])

\* The texts in a tree are unedited.
UneditedTree(tree) ==
    \A f \in CFile \cup {"kbuild"} : tree[f] \in TextOf(f) => Unedited(f, tree[f])

OutcomeInv ==
    ~tampered =>
        /\ UneditedTree(file) /\ UneditedTree(before)
        /\ DoneSoFar
        /\ result = "installed" => Verifies(file)

LEMMA PatchedFiles ==
    /\ CFile \cup {"kbuild"} \subseteq File
    /\ \A s \in CStep : TargetOf(s) \in CFile
    /\ CStep \subseteq FileStep
    /\ CStep \cap (SourceFile \cup {"header", "kbuild", "kconfig", "scan", "legacy_api"}) = {}
    /\ FileStep \subseteq CStep \cup SourceFile \cup {"header", "kbuild", "kconfig", "scan", "legacy_api"}
<1>1. CFile \cup {"kbuild"} \subseteq File
  BY InstallerConstants DEF FileNames
<1>2. \A s \in CStep : TargetOf(s) \in CFile
  BY StepTarget, CFiles DEF CStep, FileStep
<1>3. CStep \subseteq FileStep
  BY DEF CStep
<1> QED
  BY <1>1, <1>2, <1>3 DEF CStep, SourceFile

LEMMA DoneSame ==
    ASSUME layout' = layout, NEW s, NEW t
    PROVE  Done(s, t)' <=> Done(s, t)
<1>1. TailPolicy' = TailPolicy /\ (Skipped(s)' <=> Skipped(s))
  BY MayInstallSame DEF Skipped
<1> QED
  BY <1>1 DEF Done

\* The text a patch step makes of its file.
LEMMA PatchStepText ==
    ASSUME InstInv, NEW s \in CStep, At(s), ~Skipped(s), DoneSoFar, UneditedTree(file),
           Patched(s, file) # Refused
    PROVE  LET t == file[TargetOf(s)] IN
           /\ t \in TextOf(TargetOf(s)) /\ Unedited(TargetOf(s), t)
           /\ Patched(s, file) = PatchedC(s, t)
           /\ s \in {"seccomp", "mount_privilege", "ptrace", "signal"} => t.inc = "placed"
<1> DEFINE f == TargetOf(s)
           t == file[f]
<1>1. f \in CFile /\ f \in File /\ phase = "open"
  BY PatchedFiles DEF At
<1>2. Regular(t) /\ Patched(s, file) = PatchedC(s, t)
  BY PatchedFiles DEF Patched
<1>3. t \in TextOf(f)
  BY <1>1, <1>2 DEF InstInv, FilesTyped, Intact, NodeOf, Regular
<1>4. Unedited(f, t)
  BY <1>1, <1>3 DEF UneditedTree
<1>5. ASSUME s \in {"seccomp", "mount_privilege", "ptrace", "signal"}
      PROVE  t.inc = "placed"
  <2> DEFINE i == IncludeFor(s)
  <2>1. i \in CStep /\ i \in IncludeStep /\ TargetOf(i) = f /\ PlaceOf[i] < PlaceOf[s]
    BY <1>5, IncludeComesFirst
  <2>2. PlaceOf[s] = pc
    BY PlaceOfStep, ProgramList, PatchedFiles DEF At, DoneSoFar
  <2>3. ~Skipped(i)
    BY <2>1 DEF Skipped, IncludeStep
  <2>4. InPlace(i, t)
    BY <1>1, <2>1, <2>2, <2>3, PatchedFiles DEF DoneSoFar, Done
  <2> QED
    BY <2>1, <2>4 DEF InPlace
<1> QED
  BY <1>2, <1>3, <1>4, <1>5

\* A step that goes on has done its work.
LEMMA StepDone ==
    ASSUME InstInv, NEW s \in FileStep, At(s), DoneSoFar, UneditedTree(file), Patched(s, file) # Refused
    PROVE  LET p == Patched(s, file) IN
           /\ Done(s, p)
           /\ TargetOf(s) \in CFile \cup {"kbuild"} /\ p \in TextOf(TargetOf(s)) =>
                Unedited(TargetOf(s), p)
<1> DEFINE f == TargetOf(s)
           t == file[f]
           p == Patched(s, file)
<1>1. f \in File /\ t \in NodeOf(f) /\ t # Torn /\ TailPolicy # Refused
  BY StepTarget DEF InstInv, FilesTyped, Intact, MayInstall, At
<1>2. CASE s \in CStep /\ ~Skipped(s)
  <2>1. /\ t \in TextOf(f) /\ Unedited(f, t) /\ p = PatchedC(s, t)
        /\ s \in {"seccomp", "mount_privilege", "ptrace", "signal"} => t.inc = "placed"
    BY <1>2, PatchStepText
  <2>2. InPlace(s, p) /\ Unedited(f, p)
    BY <1>2, <2>1, PatchPutsIn
  <2>3. p \in TextOf(f)
    BY <1>2, <2>1, PatchedCTyped
  <2> QED
    BY <1>2, <2>2, <2>3, PatchedFiles DEF Done
<1>3. CASE s \in CStep /\ Skipped(s)
  <2>1. p = t
    BY <1>3, PatchedFiles DEF Patched
  <2> QED
    BY <1>3, <2>1, PatchedFiles DEF Done, UneditedTree
<1>4. CASE s \in SourceFile \cup {"header"}
  <2>1. p = Current /\ f = s
    BY <1>4, StepTarget DEF Patched, SourceFile
  <2>2. f \notin CFile \cup {"kbuild"}
    BY <1>4, <2>1, CFiles DEF SourceFile
  <2> QED
    BY <1>4, <2>1, <2>2, PatchedFiles DEF Done, SourceFile
<1>5. CASE s = "kbuild"
  <2>1. f = "kbuild" /\ TextOf(f) = KbuildText
    BY <1>5, StepTarget, CFiles DEF TextOf, SourceFile
  <2>2. Regular(t) /\ p = InstallKbuild(t, TailPolicy)
    BY <1>5, <2>1 DEF Patched, SourceFile
  <2>3. t \in KbuildText
    BY <1>1, <2>1, <2>2 DEF NodeOf, Regular
  <2>4. t.block = "none" => t.flaw \in {"none", "override"}
    BY <2>1, <2>3 DEF UneditedTree, Unedited
  <2>5. t.flaw = "none" /\ p = [t EXCEPT !.block = TailPolicy]
    BY <2>2, <2>4 DEF InstallKbuild, InstalledKbuildBlock
  <2>6. TailPolicy \in {"never", "resukisu"}
    BY <1>1, TailPolicyTyped
  <2>7. p \in KbuildText /\ p.flaw = "none" /\ p.block = TailPolicy
    BY <2>3, <2>5, <2>6 DEF KbuildText, KbuildBlock
  <2> QED
    BY <1>5, <2>1, <2>7, CFiles, PatchedFiles DEF Done, SourceFile, Unedited
<1>6. CASE s = "kconfig"
  <2>1. f = "kconfig" /\ p = InstallKconfig(t)
    BY <1>6, StepTarget DEF Patched, SourceFile
  <2>2. p = [menu |-> "installed"]
    BY <2>1 DEF InstallKconfig
  <2> QED
    BY <1>6, <2>1, <2>2, CFiles, PatchedFiles DEF Done, SourceFile
<1>7. CASE s \in {"scan", "legacy_api"}
  BY <1>7, StepTarget, CFiles, PatchedFiles DEF Done, SourceFile
<1> QED
  BY <1>2, <1>3, <1>4, <1>5, <1>6, <1>7, PatchedFiles

\* ... and what the steps before it have done stays.
LEMMA StepKeepsDone ==
    ASSUME InstInv, NEW s \in FileStep, At(s), DoneSoFar, UneditedTree(file), Patched(s, file) # Refused,
           NEW r \in FileStep, PlaceOf[r] < PlaceOf[s], TargetOf(r) = TargetOf(s)
    PROVE  Done(r, Patched(s, file))
<1> DEFINE f == TargetOf(s)
           t == file[f]
           p == Patched(s, file)
<1>1. r \in CStep /\ s \in CStep /\ r # s /\ (s \in Moving => r = "lock")
  BY StepOrder
<1>2. PlaceOf[s] = pc /\ phase = "open"
  BY PlaceOfStep, ProgramList DEF At, DoneSoFar
<1>3. Done(r, t)
  BY <1>2 DEF DoneSoFar
<1>4. CASE Skipped(s)
  BY <1>1, <1>3, <1>4, PatchedFiles DEF Patched
<1>5. CASE ~Skipped(s)
  <2>1. /\ t \in TextOf(f) /\ Unedited(f, t) /\ p = PatchedC(s, t)
        /\ s \in {"seccomp", "mount_privilege", "ptrace", "signal"} => t.inc = "placed"
    BY <1>1, <1>5, PatchStepText
  <2>2. Shape(s, HooksIn[f], t, p)
    BY <1>1, <2>1, PatchPutsIn
  <2>3. p \in TextOf(f)
    BY <1>1, <2>1, PatchedCTyped
  <2>4. ASSUME ~Skipped(r)
        PROVE  InPlace(r, p)
    <3>1. InPlace(r, t)
      BY <1>1, <1>3, <2>4 DEF Done
    <3> QED
      BY <1>1, <2>1, <2>2, <3>1, LaterKeeps
  <2> QED
    BY <1>1, <2>3, <2>4, PatchedFiles DEF Done
<1> QED
  BY <1>4, <1>5

\* An installation whose steps are all done leaves a tree that verify accepts.
LEMMA AllDoneVerifies ==
    ASSUME InstInv, phase = "open", pc > Len(Program), DoneSoFar
    PROVE  Verifies(file)
<1>1. \A s \in FileStep : Done(s, file[TargetOf(s)])
  BY PlaceOfStep, ProgramList DEF DoneSoFar
<1>2. MayInstall /\ TailPolicy # Refused
  BY DEF InstInv, MayInstall
<1>3. \A f \in SourceFile \cup {"header"} : file[f] = Current
  <2>1. \A f \in SourceFile \cup {"header"} : f \in FileStep /\ TargetOf(f) = f
    BY StepTarget DEF SourceFile, FileStep
  <2> QED
    BY <1>1, <2>1 DEF Done
<1>4. file["kbuild"] \in KbuildText /\ InstalledKbuildBlock(file["kbuild"]) = TailPolicy
  <2>1. "kbuild" \in FileStep /\ TargetOf("kbuild") = "kbuild"
    BY StepTarget DEF FileStep
  <2>2. file["kbuild"] \in KbuildText /\ file["kbuild"].flaw = "none" /\ file["kbuild"].block = TailPolicy
    BY <1>1, <2>1 DEF Done
  <2>3. TailPolicy # "none"
    BY <1>2, TailPolicyTyped
  <2> QED
    BY <2>2, <2>3 DEF InstalledKbuildBlock
<1>5. file["kconfig"] = [menu |-> "installed"]
  <2>1. "kconfig" \in FileStep /\ TargetOf("kconfig") = "kconfig"
    BY StepTarget DEF FileStep
  <2> QED
    BY <1>1, <2>1 DEF Done
<1>6. ASSUME NEW s \in CStep, ~Skipped(s)
      PROVE  /\ Patched(s, file) = file[TargetOf(s)]
             /\ s \in Hook => Marked(file[TargetOf(s)].sites[s])
             /\ s = "allowlist" => /\ Marked(file[TargetOf(s)].sites["revoke"])
                                   /\ Marked(file[TargetOf(s)].sites["prune"])
  <2> DEFINE t == file[TargetOf(s)]
  <2>1. t \in TextOf(TargetOf(s)) /\ InPlace(s, t) /\ TargetOf(s) \in File
    BY <1>1, <1>6, PatchedFiles DEF Done
  <2>2. /\ PatchedC(s, t) = t
        /\ s \in Hook => Marked(t.sites[s])
        /\ s = "allowlist" => Marked(t.sites["revoke"]) /\ Marked(t.sites["prune"])
    BY <2>1, InPlaceSettled
  <2>3. Regular(t)
    BY <2>1, RefusedIsNoText
  <2>4. Patched(s, file) = PatchedC(s, t)
    BY <1>6, <2>3, PatchedFiles DEF Patched
  <2> QED
    BY <2>2, <2>4
<1>7. PatchesSettled(file)
  <2>1. ASSUME NEW s \in CStep, Skipped(s)
        PROVE  Patched(s, file) = file[TargetOf(s)]
    BY <2>1, PatchedFiles DEF Patched
  <2>2. Patched("header", file) = file[TargetOf("header")]
    <3>1. TargetOf("header") = "header" /\ file["header"] = Current
      BY <1>3, StepTarget DEF FileStep
    <3>2. Current \in OwnedText /\ ~Foreign(Current)
      BY DEF Current, OwnedText, Foreign
    <3> QED
      BY <3>1, <3>2 DEF Patched, SourceFile
  <2> QED
    BY <1>6, <2>1, <2>2, PatchSteps DEF PatchesSettled
<1>8. NeedlesFound(file)
  <2> SUFFICES ASSUME NEW h \in Hook, ~Skipped(h)
               PROVE  Marked(file[FileOf(h)].sites[h])
    BY DEF NeedlesFound, NeededHooks
  <2>1. StepOf(h) \in CStep /\ TargetOf(StepOf(h)) = FileOf(h)
    BY HookStep
  <2>2. ~Skipped(StepOf(h))
    BY DEF StepOf, Skipped
  <2>3. CASE h \in {"revoke", "prune"}
    BY <1>6, <2>1, <2>2, <2>3 DEF StepOf
  <2>4. CASE h \notin {"revoke", "prune"}
    BY <1>6, <2>1, <2>2, <2>4 DEF StepOf
  <2> QED
    BY <2>3, <2>4
<1> QED
  BY <1>2, <1>3, <1>4, <1>5, <1>7, <1>8 DEF Verifies

-----------------------------------------------------------------------------
(* Every step keeps it.                                                    *)

LEMMA UneditedChange ==
    ASSUME NEW tree \in [File -> Node], UneditedTree(tree), NEW f \in File, NEW x,
           f \in CFile \cup {"kbuild"} /\ x \in TextOf(f) => Unedited(f, x)
    PROVE  UneditedTree([tree EXCEPT ![f] = x])
BY PatchedFiles DEF UneditedTree

LEMMA NoTextUnedited ==
    ASSUME NEW f \in File, NEW x \in {NoFile, Torn, Symlink, Folder}
    PROVE  x \notin TextOf(f)
BY RefusedIsNoText DEF Regular

\* A step of install() that goes on.
LEMMA GoesOnKeepsOutcome ==
    ASSUME InstInv, ~tampered, OutcomeInv, NEW s \in FileStep, At(s), Patched(s, file) # Refused,
           file' = [file EXCEPT ![TargetOf(s)] = Patched(s, file)],
           pc' = pc + 1, UNCHANGED <<layout, phase, before, result>>
    PROVE  OutcomeInv'
<1> DEFINE f == TargetOf(s)
           p == Patched(s, file)
<1>1. /\ UneditedTree(file) /\ UneditedTree(before) /\ DoneSoFar /\ phase = "open"
      /\ pc \in 1..29 /\ Program[pc] = s
  BY ProgramList DEF OutcomeInv, DoneSoFar, At
<1>2. f \in File /\ file \in [File -> Node] /\ result # "installed"
  BY <1>1, StepTarget DEF InstInv, TxInv, TypeOK, Underway
<1>3. Done(s, p) /\ (f \in CFile \cup {"kbuild"} /\ p \in TextOf(f) => Unedited(f, p))
  BY <1>1, StepDone
<1>4. UneditedTree(file')
  BY <1>1, <1>2, <1>3, UneditedChange
<1>5. PlaceOf[s] = pc
  BY <1>1, PlaceOfStep
<1>6. ASSUME NEW r \in FileStep, PlaceOf[r] < pc + 1
      PROVE  Done(r, file'[TargetOf(r)])
  <2>1. TargetOf(r) \in File /\ PlaceOf[r] \in 1..29 /\ Program[PlaceOf[r]] = r
    BY StepTarget, PlaceOfStep
  <2>2. CASE PlaceOf[r] = pc
    BY <1>1, <1>2, <1>3, <2>1, <2>2
  <2>3. CASE PlaceOf[r] < pc /\ TargetOf(r) = f
    <3>1. Done(r, p)
      BY <1>1, <1>5, <2>3, StepKeepsDone
    <3> QED
      BY <1>2, <2>3, <3>1
  <2>4. CASE PlaceOf[r] < pc /\ TargetOf(r) # f
    <3>1. Done(r, file[TargetOf(r)])
      BY <1>1, <2>4 DEF DoneSoFar
    <3> QED
      BY <1>2, <2>1, <2>4, <3>1
  <2> QED
    BY <1>1, <1>6, <2>1, <2>2, <2>3, <2>4
<1>7. \A r \in FileStep : PlaceOf[r] < pc + 1 => Done(r, file[TargetOf(r)])'
  BY <1>6, DoneSame
<1>8. DoneSoFar'
  <2>1. pc + 1 \in 1..30
    BY <1>1
  <2> QED
    BY <1>7, <2>1 DEF DoneSoFar
<1> QED
  BY <1>1, <1>2, <1>4, <1>8 DEF OutcomeInv, UneditedTree

\* A step that ends the installation, or undoes some of it.
LEMMA StopKeepsOutcome ==
    ASSUME ~tampered, OutcomeInv, UneditedTree(file'), before' \in {before, file'},
           phase' # "open", result' # "installed"
    PROVE  OutcomeInv'
BY DEF OutcomeInv, DoneSoFar, UneditedTree

LEMMA FileStepKeepsOutcome ==
    ASSUME InstInv, ~tampered, OutcomeInv, NEW s \in FileStep, Step(s)
    PROVE  OutcomeInv'
<1> DEFINE f == TargetOf(s)
<1>1. /\ f \in File /\ file \in [File -> Node] /\ UneditedTree(file) /\ UneditedTree(before)
      /\ At(s) /\ phase = "open" /\ result # "installed"
  <2>1. At(s)
    BY DEF Step, StepSame, StepWrites, StepRemoves, StepRaises, StepFails
  <2> QED
    BY <2>1, StepTarget DEF At, OutcomeInv, InstInv, TxInv, TypeOK, Underway
<1>2. CASE StepSame(s) \/ StepWrites(s) \/ StepRemoves(s)
  <2>1. pc' = pc + 1 /\ UNCHANGED <<layout, phase, before, result>>
    BY <1>2 DEF StepSame, StepWrites, StepRemoves, Write, Remove, Advance, txVars
  <2>2. Patched(s, file) # Refused /\ file' = [file EXCEPT ![f] = Patched(s, file)]
    <3>1. CASE StepSame(s)
      <4>1. Patched(s, file) = file[f] /\ file' = file
        BY <3>1 DEF StepSame, txVars
      <4>2. file[f] # Refused
        BY <1>1, RefusedIsNoText DEF InstInv, FilesTyped
      <4> QED
        BY <1>1, <4>1, <4>2
    <3>2. CASE StepWrites(s)
      BY <3>2 DEF StepWrites, Write
    <3>3. CASE StepRemoves(s)
      <4>1. Refused # NoFile
        BY InstallerConstants
      <4> QED
        BY <3>3, <4>1 DEF StepRemoves, Remove
    <3> QED
      BY <1>2, <3>1, <3>2, <3>3
  <2> QED
    BY <1>1, <2>1, <2>2, GoesOnKeepsOutcome
<1>3. CASE StepRaises(s) \/ StepFails(s)
  <2>1. /\ phase' = "undo_files" /\ UNCHANGED <<before, result>>
        /\ file' = file \/ file' = [file EXCEPT ![f] = Torn]
    <3>1. Raise \/ RemoveFails(f) \/ WriteFails(f) \/ MakeDirFails("abk_sandbox")
      BY <1>3 DEF StepRaises, StepFails
    <3> QED
      BY <3>1 DEF Raise, RemoveFails, WriteFails, MakeDirFails, Rollback
  <2>2. UneditedTree(file')
    <3>1. Torn \notin TextOf(f)
      BY <1>1, NoTextUnedited
    <3> QED
      BY <1>1, <2>1, <3>1, UneditedChange
  <2> QED
    BY <1>1, <2>1, <2>2, StopKeepsOutcome
<1> QED
  BY <1>2, <1>3 DEF Step

\* Between two runs: builds, and files taken from version control again.
LEMMA IdleKeepsOutcome ==
    ASSUME InstInv, ~tampered, ~tampered', OutcomeInv, IdleStep
    PROVE  OutcomeInv'
<1>1. /\ phase' = "idle" /\ before' = file' /\ result' # "installed"
      /\ UneditedTree(file) /\ file \in [File -> Node] /\ layout \in Layout
  BY IdleStepShape DEF OutcomeInv, InstInv, TxInv, TypeOK
<1>2. UneditedTree(file')
  <2>1. CASE StartRefused \/ Verify \/ VerifyRefused
    <3>1. file' = file
      BY <2>1 DEF StartRefused, Verify, VerifyRefused, Reject, disk
    <3> QED
      BY <1>1, <3>1
  <2>2. CASE Build
    <3>1. PICK x : file' = [file EXCEPT !["object"] = x]
      BY <2>2 DEF Build, Edited
    <3>2. "object" \in File /\ "object" \notin CFile \cup {"kbuild"}
      BY ObjectFiles, CFiles
    <3> QED
      BY <1>1, <3>1, <3>2, UneditedChange
  <2>3. ASSUME NEW f \in File, Restore(f)
        PROVE  UneditedTree(file')
    <3> DEFINE x == IF f \in CFile \cup {"kbuild", "kconfig"} THEN TreeOf[layout.name][f] ELSE NoFile
    <3>1. file' = [file EXCEPT ![f] = x]
      BY <2>3 DEF Restore, Edited
    <3>2. PICK l \in Layouts : l.name = layout.name
      BY <1>1 DEF Layout
    <3>3. ASSUME f \in CFile \cup {"kbuild"}, x \in TextOf(f)
          PROVE  Unedited(f, x)
      <4>1. x = TreeOf[l.name][f] /\ x # NoFile
        BY <3>2, <3>3, NoTextUnedited
      <4> QED
        BY <3>3, <4>1, TreesUnedited
    <3> HIDE DEF x
    <3> QED
      BY <1>1, <3>1, <3>3, UneditedChange
  <2>4. ~Reconfigure /\ \A f \in File : ~Tamper(f)
    BY DEF Reconfigure, Tamper
  <2> QED
    BY <2>1, <2>2, <2>3, <2>4 DEF IdleStep
<1> QED
  BY <1>1, <1>2, StopKeepsOutcome

LEMMA NextOutcome == InstInv /\ ObjectInv /\ OutcomeInv /\ [Next]_vars => OutcomeInv'
<1> SUFFICES ASSUME InstInv, ObjectInv, OutcomeInv, [Next]_vars, ~tampered' PROVE OutcomeInv'
  BY DEF OutcomeInv
<1>1. ~tampered
  BY TamperedStays
<1>2. /\ UneditedTree(file) /\ UneditedTree(before) /\ DoneSoFar /\ file \in [File -> Node]
      /\ meddled = {} /\ (phase # "idle" => result = "none")
  BY <1>1 DEF OutcomeInv, ObjectInv, InstInv, TxInv, TypeOK, Underway
<1>3. CASE UNCHANGED vars
  <2>1. UNCHANGED <<file, before, phase, pc, layout, result>>
    BY <1>3 DEF vars, txVars, instVars
  <2>2. Verifies(file)' <=> Verifies(file)
    BY <2>1, VerifiesSame
  <2>3. DoneSoFar'
    BY <1>2, <2>1, DoneSame DEF DoneSoFar
  <2> QED
    BY <1>1, <1>2, <2>1, <2>2, <2>3 DEF OutcomeInv, UneditedTree
<1>4. CASE Start
  <2>1. phase' = "open" /\ pc' = 1 /\ file' = file /\ before' = before /\ result' = "none"
    BY <1>4 DEF Start, Begin, disk
  <2>2. DoneSoFar'
    BY <2>1, PlaceOfStep DEF DoneSoFar
  <2> QED
    BY <1>2, <2>1, <2>2 DEF OutcomeInv, UneditedTree
<1>5. CASE IdleStep
  BY <1>1, <1>5, IdleKeepsOutcome
<1>6. CASE MakeTarget
  <2>1. /\ UNCHANGED <<file, phase, before, result, layout>> /\ pc' = pc + 1 /\ phase = "open"
        /\ pc \in 1..29 /\ Program[pc] = "make_target"
    BY <1>2, <1>6, ProgramList DEF MakeTarget, MakeDir, Advance, At, DoneSoFar
  <2>2. ASSUME NEW r \in FileStep, PlaceOf[r] < pc + 1
        PROVE  Done(r, file[TargetOf(r)])
    <3>1. PlaceOf[r] \in 1..29 /\ Program[PlaceOf[r]] = r
      BY PlaceOfStep
    <3>2. r # "make_target"
      BY DEF FileStep, Hook
    <3>3. PlaceOf[r] # pc
      BY <2>1, <3>1, <3>2
    <3>4. PlaceOf[r] < pc
      BY <2>1, <2>2, <3>1, <3>3
    <3> QED
      BY <1>2, <2>1, <3>4 DEF DoneSoFar
  <2>3. pc + 1 \in 1..30
    BY <2>1
  <2>4. \A r \in FileStep : PlaceOf[r] < pc + 1 => Done(r, file[TargetOf(r)])'
    BY <2>1, <2>2, DoneSame
  <2>5. DoneSoFar'
    BY <2>1, <2>3, <2>4 DEF DoneSoFar
  <2> QED
    BY <1>2, <2>1, <2>5 DEF OutcomeInv, UneditedTree
<1>7. CASE Finish
  <2>1. /\ phase = "open" /\ pc > Len(Program) /\ phase' = "idle" /\ file' = file
        /\ before' = file' /\ layout' = layout
    BY <1>7 DEF Finish, Commit, End, disk, instVars
  <2>2. Verifies(file)
    BY <1>2, <2>1, AllDoneVerifies
  <2>3. Verifies(file)'
    BY <2>1, <2>2, VerifiesSame
  <2> QED
    BY <1>2, <2>1, <2>3 DEF OutcomeInv, UneditedTree, DoneSoFar
<1>8. CASE FileSteps
  BY <1>1, <1>8, FileStepKeepsOutcome DEF FileSteps
<1>9. CASE StepFails("make_target")
  <2>1. MakeDirFails("abk_sandbox")
    BY <1>9 DEF StepFails
  <2>2. /\ phase = "open" /\ phase' = "undo_files" /\ UNCHANGED <<file, before, result>>
    BY <2>1 DEF MakeDirFails, Rollback
  <2> QED
    BY <1>1, <1>2, <2>2, StopKeepsOutcome
<1>10. CASE RollsBack
  <2>1. ASSUME NEW i \in DOMAIN log, UndoFile(i)
        PROVE  OutcomeInv'
    <3>1. log[i].path \in File /\ log[i].backup = before[log[i].path]
      BY <1>2, EntryTyped DEF InstInv, TxInv, CopiesOf
    <3>2. /\ file' = [file EXCEPT ![log[i].path] = log[i].backup] /\ phase = "undo_files"
          /\ UNCHANGED <<phase, before, result>>
      BY <2>1 DEF UndoFile, Undoing
    <3>3. UneditedTree(file')
      <4>1. log[i].path \in CFile \cup {"kbuild"} /\ log[i].backup \in TextOf(log[i].path) =>
                Unedited(log[i].path, log[i].backup)
        BY <1>2, <3>1 DEF UneditedTree
      <4> QED
        BY <1>2, <3>1, <3>2, <4>1, UneditedChange
    <3> QED
      BY <1>1, <1>2, <3>2, <3>3, StopKeepsOutcome
  <2>2. CASE UndoFilesDone \/ Undone \/ \E d \in Dir : UndoDir(d)
    <3>1. file' = file /\ before' \in {before, file'} /\ phase' # "open" /\ result' # "installed"
      BY <1>2, <2>2 DEF UndoFilesDone, Undone, UndoDir, End, disk
    <3> QED
      BY <1>1, <1>2, <3>1, StopKeepsOutcome
  <2> QED
    BY <1>10, <2>1, <2>2 DEF RollsBack
<1>11. CASE Killed
  <2>1. ASSUME NEW f \in File, KillInWrite(f)
        PROVE  OutcomeInv'
    <3>1. /\ file' = [file EXCEPT ![f] = Torn] /\ before' = file' /\ phase' = "idle"
          /\ result' = "killed"
      BY <2>1 DEF KillInWrite, End
    <3>2. UneditedTree(file')
      BY <1>2, <3>1, NoTextUnedited, UneditedChange
    <3> QED
      BY <1>1, <3>1, <3>2, StopKeepsOutcome
  <2>2. CASE Kill
    <3>1. file' = file /\ before' = file' /\ phase' = "idle" /\ result' = "killed"
      BY <2>2 DEF Kill, End, disk
    <3> QED
      BY <1>1, <1>2, <3>1, StopKeepsOutcome
  <2>3. ASSUME NEW i \in DOMAIN Program, Program[i] # "make_target"
        PROVE  TargetOf(Program[i]) \in File
    BY <2>3, ProgramSteps, StepTarget
  <2> QED
    BY <1>11, <2>1, <2>2, <2>3 DEF Killed
<1>12. ~RollbackFails /\ ~Interfere
  BY DEF RollbackFails, Interfere
<1> QED
  BY <1>3, <1>4, <1>5, <1>6, <1>7, <1>8, <1>9, <1>10, <1>11, <1>12, NextCases

\* An installation that ends well leaves a tree that verify accepts, also after
\* runs that were killed half way or rolled back, as long as nobody has edited
\* the tree: no patch is undone by a later one, and none of them leaves its own
\* check failing.
THEOREM InstallationVerifies == Spec => []InstalledVerifies
<1>1. Init => OutcomeInv
  <2> SUFFICES ASSUME Init PROVE OutcomeInv
    OBVIOUS
  <2>1. /\ layout \in Layouts /\ file = TreeOf[layout.name] /\ before = file
        /\ phase = "idle" /\ result = "none"
    BY DEF Init
  <2>2. ASSUME NEW f \in CFile \cup {"kbuild"}, file[f] \in TextOf(f)
        PROVE  Unedited(f, file[f])
    <3>1. file[f] # NoFile
      BY <2>2, NoTextUnedited, PatchedFiles
    <3> QED
      BY <2>1, <2>2, <3>1, TreesUnedited
  <2>3. UneditedTree(file)
    BY <2>2 DEF UneditedTree
  <2> QED
    BY <2>1, <2>3 DEF OutcomeInv, DoneSoFar
<1>2. OutcomeInv => InstalledVerifies
  BY DEF OutcomeInv, InstalledVerifies
<1> QED
  BY <1>1, <1>2, InitInstInv, NextInstInv, InitObjectInv, NextObjectInv, NextOutcome,
     PTL DEF Spec

=============================================================================
