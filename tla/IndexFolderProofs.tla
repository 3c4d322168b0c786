-------------------------- MODULE IndexFolderProofs -------------------------
(***************************************************************************)
(* What readers and later runs can rely on in a folder, for any number of  *)
(* runs and templates.  The inductive invariant says, stage by stage of a  *)
(* run, which files are its own already (and whole), which are older, and  *)
(* what a reader that saw no run at work has read so far.                  *)
(***************************************************************************)
EXTENDS IndexFolder, TLAPS

Empty == \A path \in Paths : ~Present(path)

\* A run that has not created a file yet.
Before == {"remove", "create_dir", "dictionary"}

\* A run that has, and one that has not come to the columns.
BeforeColumns == {"finish_dictionary", "templates", "flush_templates"}
AtColumns == {"columns", "write_column"}

\* Runs are numbered in time, and none is over before it says so.
InTime ==
  /\ stage # "idle" => run \in Runs /\ ~ok /\ ~quiet
  /\ \A path \in Paths : files[path].by <= run /\ files[path].inode <= run
  /\ held.inode <= run

\* What the removal of the folder leaves.
Removed ==
  /\ ~exists => Empty
  /\ stage = "create_dir" => Empty
  /\ program = "cli" /\ stage = "dictionary" => Empty

\* The files of a folder that only the command line uses.
CleanFiles ==
  /\ FilesOfOneRun
  /\ clean /\ stage \in {"dictionary"} \union BeforeColumns \union AtColumns =>
       \A path \in Paths : Present(path) => files[path].by = run

\* A column file that is of this run is whole, all but at most one.
OwnColumns(pending) ==
  \A k \in Columns :
    /\ files[Column(k)].by = run => k \in pending \/ files[Column(k)].full
    /\ k \in 0 .. size[run] - 1 => k \in columns \/ files[Column(k)].by = run

\* What is written already.
Progress ==
  /\ stage \in Before =>
       /\ held.inode # run
       /\ \A path \in Paths : files[path].by # run /\ files[path].inode # run
  /\ stage \in Before \union BeforeColumns => columns = 0 .. size[run] - 1
  /\ stage \in BeforeColumns =>
       \A k \in Columns : files[Column(k)].by # run
  /\ stage \in BeforeColumns \union AtColumns => files[Dictionary].by = run
  /\ program = "cli" /\ stage = "finish_dictionary" =>
       /\ files[Dictionary].inode = run /\ ~files[Dictionary].full
       /\ held.inode # run
  /\ stage \in {"flush_templates"} \union AtColumns => files[Templates].by = run
  /\ stage \in AtColumns => files[Templates].full
  /\ stage = "columns" => OwnColumns({})
  /\ stage = "write_column" => \E k \in Columns : OwnColumns({k})

\* The column file of one of the templates of a run.
ColumnOf(r, template_run) ==
  \E k \in 0 .. size[template_run] - 1 :
    k \in Columns /\ files[Column(k)].full /\ files[Column(k)].by = r

\* What a reader that saw no run at work has read is there still.
QuietReader ==
  /\ reader \in {"closed", "dictionary"} => returned = {}
  /\ quiet /\ reader # "closed" => held = files[Dictionary] /\ held.full
  /\ quiet /\ reader \in {"open", "search"} =>
       /\ files[Templates].full /\ listed = files[Templates].by
       /\ \A doc \in returned :
            /\ doc.dictionary = held.by /\ doc.templates = listed
            /\ ColumnOf(doc.column, listed)
  /\ quiet /\ reader = "search" =>
       /\ scanning \subseteq 0 .. size[listed] - 1
       /\ \A r \in hits : ColumnOf(r, listed)
  /\ reader \in {"open", "search"} => listed \in Runs

FolderInv ==
  /\ IndexFolderTypeOK
  /\ InTime
  /\ Removed
  /\ CleanFiles
  /\ Progress
  /\ NothingStaleAfterOk
  /\ QuietReader

-----------------------------------------------------------------------------
(* The paths of a folder.                                                  *)

LEMMA PathFacts ==
  /\ Dictionary \in Paths /\ Templates \in Paths /\ Dictionary # Templates
  /\ \A k \in Columns : /\ Column(k) \in Paths
                        /\ Column(k) # Dictionary /\ Column(k) # Templates
  /\ \A j, k \in Columns : Column(j) = Column(k) => j = k
  /\ \A path \in Paths : \/ path = Dictionary \/ path = Templates
                         \/ \E k \in Columns : path = Column(k)
<1>1. /\ Dictionary \in Paths /\ Templates \in Paths
      /\ \A k \in Columns : Column(k) \in Paths
  BY DEF Paths
<1>2. Dictionary # Templates
  BY DEF Dictionary, Templates
<1>3. \A k \in Columns : Column(k) # Dictionary /\ Column(k) # Templates
  BY DEF Dictionary, Templates, Column
<1>4. \A j, k \in Columns : Column(j) = Column(k) => j = k
  BY DEF Column
<1>5. \A path \in Paths : \/ path = Dictionary \/ path = Templates
                          \/ \E k \in Columns : path = Column(k)
  BY DEF Paths
<1> QED
  BY <1>1, <1>2, <1>3, <1>4, <1>5

(* A file that is there or whole is of some run.                           *)
LEMMA FileFields ==
  ASSUME NEW file \in File \union {NoFile}
  PROVE  /\ file.inode \in Nat /\ file.by \in Nat /\ file.full \in BOOLEAN
         /\ file # NoFile <=> file \in File
         /\ file \in File <=> file.by \in Runs
         /\ file.full => file \in File
<1>1. MaxRuns \in Nat /\ Runs \subseteq Nat /\ 0 \notin Runs
  BY IndexFolderAssumption DEF IndexFolderAssumption, Runs
<1>2. NoFile.inode = 0 /\ NoFile.by = 0 /\ NoFile.full \in BOOLEAN
      /\ ~NoFile.full
  BY DEF NoFile
<1>3. file \in File => /\ file.inode \in Runs /\ file.by \in Runs
                       /\ file.full \in BOOLEAN
  BY DEF File
<1>4. CASE file \in File
  BY <1>1, <1>2, <1>3, <1>4
<1>5. CASE file = NoFile
  <2>1. file \notin File
    BY <1>1, <1>2, <1>3, <1>5
  <2> QED
    BY <1>1, <1>2, <1>5, <2>1
<1> QED
  BY <1>4, <1>5

LEMMA FileFacts ==
  ASSUME IndexFolderTypeOK
  PROVE  /\ \A path \in Paths :
              /\ files[path].inode \in Nat /\ files[path].by \in Nat
              /\ files[path].full \in BOOLEAN
              /\ Present(path) <=> files[path] \in File
              /\ files[path] \in File <=> files[path].by \in Runs
              /\ files[path].full => files[path] \in File
         /\ held.inode \in Nat /\ held.by \in Nat /\ held.full \in BOOLEAN
         /\ held.full => held \in File
         /\ run \in Nat /\ Runs \subseteq Nat /\ 0 \notin Runs
         /\ run # 0 => run \in Runs
<1>1. MaxRuns \in Nat /\ Runs \subseteq Nat /\ 0 \notin Runs
  BY IndexFolderAssumption DEF IndexFolderAssumption, Runs
<1>2. run \in Nat /\ (run # 0 => run \in Runs)
  BY <1>1 DEF IndexFolderTypeOK, Runs
<1>3. held \in File \union {NoFile} /\ files \in [Paths -> File \union {NoFile}]
  BY DEF IndexFolderTypeOK
<1> QED
  BY <1>1, <1>2, <1>3, FileFields DEF Present

-----------------------------------------------------------------------------
(* Types.                                                                  *)

LEMMA TypeInit == Init => IndexFolderTypeOK
<1> SUFFICES ASSUME Init PROVE IndexFolderTypeOK
  OBVIOUS
<1>1. size \in [Runs -> 0 .. MaxTemplates] /\ run \in 0 .. MaxRuns /\ listed \in 0 .. MaxRuns
  BY IndexFolderAssumption DEF IndexFolderAssumption, Init
<1> QED
  BY <1>1 DEF Init, IndexFolderTypeOK

(* Writing a path keeps the types.                                         *)
LEMMA PutType ==
  ASSUME IndexFolderTypeOK, NEW path \in Paths, NEW file \in File, Put(path, file)
  PROVE  /\ files' \in [Paths -> File \union {NoFile}]
         /\ held' \in File \union {NoFile}
         /\ quiet' = FALSE
  BY DEF IndexFolderTypeOK, Put

LEMMA TruncatedType ==
  ASSUME IndexFolderTypeOK, InTime, NEW path \in Paths, stage # "idle"
  PROVE  Truncated(path) \in File
  BY FileFacts DEF Truncated, File, InTime

LEMMA TypeStep == FolderInv /\ [Next]_vars => IndexFolderTypeOK'
<1> SUFFICES ASSUME FolderInv, [Next]_vars
             PROVE  IndexFolderTypeOK'
  OBVIOUS
<1>0. IndexFolderTypeOK /\ InTime
  BY DEF FolderInv
<1>1. ASSUME NEW n \in 0 .. MaxTemplates, StartIndexFile(n) \/ StartIndex(n)
      PROVE  IndexFolderTypeOK'
  <2>1. run' \in Runs /\ program' \in Programs /\ columns' \subseteq Columns
    BY <1>0, <1>1, FileFacts, IndexFolderAssumption
    DEF IndexFolderAssumption, StartIndexFile, StartIndex, Start, Runs, Columns
  <2>2. size' \in [Runs -> 0 .. MaxTemplates]
    BY <1>0, <1>1 DEF StartIndexFile, StartIndex, Start, IndexFolderTypeOK
  <2>3. /\ stage' \in {"remove", "create_dir", "dictionary"}
        /\ ok' = FALSE /\ quiet' = FALSE
        /\ UNCHANGED <<exists, files, held, reader, listed, scanning, hits, returned>>
    BY <1>1 DEF StartIndexFile, StartIndex, Start, readerVars
  <2>4. clean' \in BOOLEAN
    BY <1>0, <1>1 DEF StartIndexFile, StartIndex, IndexFolderTypeOK
  <2>5. run' \in 0 .. MaxRuns
    BY <2>1, IndexFolderAssumption DEF IndexFolderAssumption, Runs
  <2> QED
    BY <1>0, <2>1, <2>2, <2>3, <2>4, <2>5 DEF IndexFolderTypeOK
<1>2. ASSUME NEW path \in Paths, RemoveFile(path)
      PROVE  IndexFolderTypeOK'
  BY <1>0, <1>2 DEF RemoveFile, IndexFolderTypeOK, writerVars, readerVars
<1>3. CASE RemoveDir \/ CreateDir \/ ReturnOk \/ Stop
  BY <1>0, <1>3
  DEF RemoveDir, CreateDir, ReturnOk, Stop, IndexFolderTypeOK, readerVars
<1>4. CASE CreateDictionary \/ CreateTemplates
  BY <1>0, <1>4, PutType, TruncatedType, PathFacts
  DEF CreateDictionary, CreateTemplates, Create, Goto, IndexFolderTypeOK, readerVars
<1>5. CASE FinishDictionary \/ FlushTemplates
  <2>1. /\ stage = "finish_dictionary" => files[Dictionary] \in File
        /\ stage = "flush_templates" => files[Templates] \in File
    BY <1>0, FileFacts, PathFacts DEF FolderInv, Progress, InTime, BeforeColumns
  <2>2. \A path \in Paths : files[path] \in File =>
          [files[path] EXCEPT !.full = TRUE] \in File
    BY DEF File
  <2> QED
    BY <1>0, <1>5, <2>1, <2>2, PutType, PathFacts
    DEF FinishDictionary, FlushTemplates, Complete, Goto, IndexFolderTypeOK, readerVars
<1>6. ASSUME NEW k \in Columns, CreateColumn(k)
      PROVE  IndexFolderTypeOK'
  BY <1>0, <1>6, PutType, TruncatedType, PathFacts
  DEF CreateColumn, Create, IndexFolderTypeOK, readerVars
<1>7. ASSUME NEW k \in Columns, WriteColumn(k)
      PROVE  IndexFolderTypeOK'
  <2>1. files[Column(k)] \in File
    BY <1>0, <1>7, FileFacts, PathFacts DEF WriteColumn, InTime
  <2>2. [files[Column(k)] EXCEPT !.full = TRUE] \in File
    BY <2>1 DEF File
  <2> QED
    BY <1>0, <1>7, <2>2, PutType, PathFacts
    DEF WriteColumn, Complete, Goto, IndexFolderTypeOK, readerVars
<1>8. CASE OpenDictionary \/ ReadTemplates \/ Close
  <2>1. /\ files[Dictionary] \in File \union {NoFile}
        /\ files[Templates].full => files[Templates].by \in 0 .. MaxRuns
    BY <1>0, FileFacts, PathFacts DEF IndexFolderTypeOK, Runs
  <2>2. 0 \in 0 .. MaxRuns
    BY IndexFolderAssumption DEF IndexFolderAssumption
  <2> QED
    BY <1>0, <1>8, <2>1, <2>2
    DEF OpenDictionary, ReadTemplates, Close, IndexFolderTypeOK, writerVars
<1>9. CASE StartSearch \/ FailSearch
  <2>1. reader = "open" => listed \in Runs
    BY DEF FolderInv, QuietReader
  <2>2. listed \in Runs => 0 .. size[listed] - 1 \subseteq Columns
    BY <1>0, IndexFolderAssumption DEF IndexFolderAssumption, IndexFolderTypeOK, Columns
  <2> QED
    BY <1>0, <1>9, <2>1, <2>2 DEF StartSearch, FailSearch, IndexFolderTypeOK, writerVars
<1>10. CASE RetrieveDocs
  <2>1. reader = "search" => listed \in Runs
    BY DEF FolderInv, QuietReader
  <2>2. hits # {} => held.by \in Runs
    BY <1>0, <1>10, FileFacts DEF RetrieveDocs, File
  <2>3. returned' \subseteq Document
    BY <1>0, <1>10, <2>1, <2>2 DEF RetrieveDocs, IndexFolderTypeOK, Document
  <2> QED
    BY <1>0, <1>10, <2>3 DEF RetrieveDocs, IndexFolderTypeOK, writerVars
<1>11. ASSUME NEW k \in Columns, ReadColumn(k)
       PROVE  IndexFolderTypeOK'
  BY <1>0, <1>11, FileFacts, PathFacts
  DEF ReadColumn, IndexFolderTypeOK, writerVars, File
<1>12. CASE UNCHANGED vars
  BY <1>0, <1>12 DEF vars, writerVars, readerVars, IndexFolderTypeOK
<1> QED
  BY <1>1, <1>2, <1>3, <1>4, <1>5, <1>6, <1>7, <1>8, <1>9, <1>10, <1>11, <1>12
  DEF Next

-----------------------------------------------------------------------------
(* What the steps have in common.                                          *)

ReaderStep ==
  \/ OpenDictionary \/ ReadTemplates \/ Close
  \/ StartSearch \/ FailSearch \/ RetrieveDocs
  \/ \E k \in Columns : ReadColumn(k)

(* The reader leaves runs and files alone.                                 *)
LEMMA ReaderFrame ==
  ASSUME IndexFolderTypeOK, ReaderStep
  PROVE  /\ UNCHANGED <<exists, run, program, size, stage, columns, ok, clean, files>>
         /\ \/ held' = held
            \/ held' = NoFile
            \/ held' = files[Dictionary] /\ files[Dictionary].full
         /\ quiet' = quiet \/ quiet' = (stage = "idle")
  BY DEF ReaderStep, OpenDictionary, ReadTemplates, Close, StartSearch, FailSearch,
         RetrieveDocs, ReadColumn, writerVars

(* A step of a run that creates a file: which, and where the run goes.     *)
Creates(path) ==
  \/ path = Dictionary /\ CreateDictionary
  \/ path = Templates /\ CreateTemplates
  \/ \E k \in Columns : path = Column(k) /\ CreateColumn(k)

LEMMA CreateFrame ==
  ASSUME IndexFolderTypeOK, InTime, NEW path \in Paths, Creates(path)
  PROVE  /\ exists /\ stage # "idle" /\ quiet' = FALSE
         /\ files' = [files EXCEPT ![path] = Truncated(path)]
         /\ Truncated(path).by = run /\ ~Truncated(path).full
         /\ Truncated(path) \in File
         /\ Truncated(path).inode = (IF Present(path) THEN files[path].inode ELSE run)
         /\ held' = IF path = Dictionary /\ held.inode = Truncated(path).inode
                    THEN Truncated(path) ELSE held
         /\ UNCHANGED <<exists, run, program, size, ok, clean,
                        reader, listed, scanning, hits, returned>>
<1>1. stage # "idle" /\ Create(path)
  BY DEF Creates, CreateDictionary, CreateTemplates, CreateColumn
<1>2. UNCHANGED <<exists, run, program, size, ok, clean,
                  reader, listed, scanning, hits, returned>>
  BY DEF Creates, CreateDictionary, CreateTemplates, CreateColumn, Goto, readerVars
<1>3. Truncated(path) \in File
  BY <1>1, TruncatedType
<1>4. /\ Truncated(path).by = run /\ ~Truncated(path).full
      /\ Truncated(path).inode = (IF Present(path) THEN files[path].inode ELSE run)
  BY DEF Truncated
<1> QED
  BY <1>1, <1>2, <1>3, <1>4 DEF Create, Put

(* A step of a run that completes a file, which is the run's own.          *)
Whole(path) == [files[path] EXCEPT !.full = TRUE]

Completes(path) ==
  \/ path = Dictionary /\ FinishDictionary /\ Complete(Dictionary)
  \/ path = Templates /\ FlushTemplates
  \/ \E k \in Columns : path = Column(k) /\ WriteColumn(k)

LEMMA CompleteFrame ==
  ASSUME FolderInv, NEW path \in Paths, Completes(path)
  PROVE  /\ exists /\ stage # "idle" /\ quiet' = FALSE
         /\ files[path] \in File /\ files[path].by = run
         /\ files' = [files EXCEPT ![path] = Whole(path)]
         /\ Whole(path) \in File /\ Whole(path).by = run /\ Whole(path).full
         /\ Whole(path).inode = files[path].inode
         /\ held' = IF path = Dictionary /\ held.inode = files[path].inode
                    THEN Whole(path) ELSE held
         /\ UNCHANGED <<exists, run, program, size, columns, ok, clean,
                        reader, listed, scanning, hits, returned>>
<1>1. /\ Complete(path) /\ stage # "idle"
      /\ UNCHANGED <<exists, run, program, size, columns, ok, clean,
                     reader, listed, scanning, hits, returned>>
  BY DEF Completes, FinishDictionary, FlushTemplates, WriteColumn, Goto, readerVars
<1>2. files[path].by = run
  BY DEF Completes, FinishDictionary, FlushTemplates, WriteColumn, FolderInv,
         Progress, BeforeColumns
<1>3. files[path] \in File
  BY <1>1, <1>2, FileFacts DEF FolderInv, InTime
<1>4. /\ Whole(path) \in File /\ Whole(path).by = run /\ Whole(path).full
      /\ Whole(path).inode = files[path].inode
  BY <1>2, <1>3 DEF Whole, File
<1> QED
  BY <1>1, <1>2, <1>3, <1>4 DEF Complete, Put, Whole

(* Every step is one of these, or changes no file but by removing it.      *)
LEMMA Steps ==
  ASSUME [Next]_vars
  PROVE  \/ \E n \in 0 .. MaxTemplates : StartIndexFile(n) \/ StartIndex(n)
         \/ \E path \in Paths : RemoveFile(path)
         \/ RemoveDir \/ CreateDir \/ ReturnOk \/ Stop
         \/ \E path \in Paths : Creates(path)
         \/ \E path \in Paths : Completes(path)
         \/ FinishDictionary /\ UNCHANGED <<files, held, quiet>>
         \/ ReaderStep
         \/ UNCHANGED vars
<1>1. CASE CreateDictionary \/ CreateTemplates \/ \E k \in Columns : CreateColumn(k)
  BY <1>1, PathFacts DEF Creates
<1>2. CASE FinishDictionary \/ FlushTemplates \/ \E k \in Columns : WriteColumn(k)
  BY <1>2, PathFacts DEF Completes, FinishDictionary
<1> QED
  BY <1>1, <1>2 DEF Next, ReaderStep

-----------------------------------------------------------------------------
(* The parts of the invariant, step by step.                               *)

LEMMA InTimeStep == FolderInv /\ [Next]_vars => InTime'
<1> SUFFICES ASSUME FolderInv, [Next]_vars PROVE InTime'
  OBVIOUS
<1>0. IndexFolderTypeOK /\ InTime
  BY DEF FolderInv
<1>1. ASSUME NEW n \in 0 .. MaxTemplates, StartIndexFile(n) \/ StartIndex(n)
      PROVE  InTime'
  BY <1>0, <1>1, FileFacts, IndexFolderAssumption
  DEF IndexFolderAssumption, StartIndexFile, StartIndex, Start, InTime, Runs
<1>2. ASSUME NEW path \in Paths, RemoveFile(path)
      PROVE  InTime'
  BY <1>0, <1>2, FileFacts
  DEF RemoveFile, InTime, IndexFolderTypeOK, writerVars, NoFile
<1>3. CASE RemoveDir \/ CreateDir \/ ReturnOk \/ Stop
  BY <1>0, <1>3 DEF RemoveDir, CreateDir, ReturnOk, Stop, InTime
<1>4. ASSUME NEW path \in Paths, Creates(path)
      PROVE  InTime'
  <2>0. run \in Nat /\ run <= run
    BY <1>0, FileFacts
  <2>1. run \in Runs /\ ~ok /\ run <= run
    BY <1>0, <1>4, <2>0, CreateFrame DEF InTime
  <2>2. Truncated(path).inode <= run
    BY <1>0, <1>4, <2>1, CreateFrame DEF InTime
  <2>3. \A p \in Paths : files'[p].by <= run /\ files'[p].inode <= run
    BY <1>0, <1>4, <2>1, <2>2, CreateFrame DEF InTime, IndexFolderTypeOK
  <2>4. held'.inode <= run
    BY <1>0, <1>4, <2>2, CreateFrame DEF InTime
  <2> QED
    BY <1>0, <1>4, <2>1, <2>3, <2>4, CreateFrame DEF InTime
<1>5. ASSUME NEW path \in Paths, Completes(path)
      PROVE  InTime'
  <2>0. run \in Nat /\ run <= run
    BY <1>0, FileFacts
  <2>1. run \in Runs /\ ~ok /\ run <= run
    BY <1>0, <1>5, <2>0, CompleteFrame DEF InTime
  <2>2. Whole(path).inode <= run
    BY <1>0, <1>5, CompleteFrame DEF InTime
  <2>3. \A p \in Paths : files'[p].by <= run /\ files'[p].inode <= run
    BY <1>0, <1>5, <2>1, <2>2, CompleteFrame DEF InTime, IndexFolderTypeOK
  <2>4. held'.inode <= run
    BY <1>0, <1>5, <2>2, CompleteFrame DEF InTime
  <2> QED
    BY <1>0, <1>5, <2>1, <2>3, <2>4, CompleteFrame DEF InTime
<1>6. CASE FinishDictionary /\ UNCHANGED <<files, held, quiet>>
  BY <1>0, <1>6 DEF FinishDictionary, Goto, InTime
<1>7. CASE ReaderStep
  <2>1. held'.inode <= run
    BY <1>0, <1>7, ReaderFrame, FileFacts, PathFacts DEF InTime, NoFile
  <2>2. stage # "idle" => ~quiet'
    BY <1>0, <1>7, ReaderFrame DEF InTime
  <2> QED
    BY <1>0, <1>7, <2>1, <2>2, ReaderFrame DEF InTime
<1>8. CASE UNCHANGED vars
  BY <1>0, <1>8 DEF vars, writerVars, InTime
<1> QED
  BY <1>1, <1>2, <1>3, <1>4, <1>5, <1>6, <1>7, <1>8, Steps

LEMMA RemovedStep == FolderInv /\ [Next]_vars => Removed'
<1> SUFFICES ASSUME FolderInv, [Next]_vars PROVE Removed'
  OBVIOUS
<1>0. IndexFolderTypeOK /\ InTime /\ Removed
  BY DEF FolderInv
<1>1. ASSUME NEW n \in 0 .. MaxTemplates, StartIndexFile(n) \/ StartIndex(n)
      PROVE  Removed'
  BY <1>0, <1>1 DEF StartIndexFile, StartIndex, Start, Removed, Empty, Present
<1>2. ASSUME NEW path \in Paths, RemoveFile(path)
      PROVE  Removed'
  BY <1>0, <1>2
  DEF RemoveFile, Removed, Empty, Present, IndexFolderTypeOK, writerVars
<1>3. CASE RemoveDir \/ CreateDir \/ ReturnOk \/ Stop
  BY <1>0, <1>3 DEF RemoveDir, CreateDir, ReturnOk, Stop, Removed, Empty, Present
<1>4. ASSUME NEW path \in Paths, Creates(path)
      PROVE  Removed'
  <2>1. stage' \notin Before
    BY <1>4 DEF Creates, CreateDictionary, CreateTemplates, CreateColumn, Goto, Before
  <2> QED
    <3>0. exists = TRUE /\ exists' = exists
      BY <1>0, <1>4, CreateFrame DEF IndexFolderTypeOK
    <3>1. exists' = TRUE
      BY <3>0
    <3> QED
      BY <2>1, <3>1 DEF Removed, Before
<1>5. ASSUME NEW path \in Paths, Completes(path)
      PROVE  Removed'
  <2>1. stage' \notin Before
    BY <1>5 DEF Completes, FinishDictionary, FlushTemplates, WriteColumn, Goto, Before
  <2> QED
    <3>0. exists = TRUE /\ exists' = exists
      BY <1>0, <1>5, CompleteFrame DEF IndexFolderTypeOK
    <3>1. exists' = TRUE
      BY <3>0
    <3> QED
      BY <2>1, <3>1 DEF Removed, Before
<1>6. CASE FinishDictionary /\ UNCHANGED <<files, held, quiet>>
  BY <1>0, <1>6 DEF FinishDictionary, Goto, Removed, Empty, Present
<1>7. CASE ReaderStep
  BY <1>0, <1>7, ReaderFrame DEF Removed, Empty, Present
<1>8. CASE UNCHANGED vars
  BY <1>0, <1>8 DEF vars, writerVars, Removed, Empty, Present
<1> QED
  BY <1>1, <1>2, <1>3, <1>4, <1>5, <1>6, <1>7, <1>8, Steps

LEMMA CleanFilesStep == FolderInv /\ [Next]_vars => CleanFiles'
<1> SUFFICES ASSUME FolderInv, [Next]_vars PROVE CleanFiles'
  OBVIOUS
<1> DEFINE Writing == {"dictionary"} \union BeforeColumns \union AtColumns
<1>0. IndexFolderTypeOK /\ InTime /\ Removed /\ CleanFiles
  BY DEF FolderInv
<1>1. ASSUME NEW n \in 0 .. MaxTemplates, StartIndexFile(n) \/ StartIndex(n)
      PROVE  CleanFiles'
  BY <1>0, <1>1
  DEF StartIndexFile, StartIndex, Start, CleanFiles, FilesOfOneRun, Present,
      BeforeColumns, AtColumns
<1>2. ASSUME NEW path \in Paths, RemoveFile(path)
      PROVE  CleanFiles'
  BY <1>0, <1>2
  DEF RemoveFile, CleanFiles, FilesOfOneRun, Present, IndexFolderTypeOK,
      BeforeColumns, AtColumns, writerVars
<1>3. CASE RemoveDir \/ ReturnOk \/ Stop
  BY <1>0, <1>3
  DEF RemoveDir, ReturnOk, Stop, CleanFiles, FilesOfOneRun, Present,
      BeforeColumns, AtColumns
<1>4. CASE CreateDir
  BY <1>0, <1>4 DEF CreateDir, Removed, Empty, CleanFiles, FilesOfOneRun, Present
<1>5. ASSUME NEW path \in Paths, Creates(path)
      PROVE  CleanFiles'
  <2>1. stage \in Writing /\ stage' \in Writing
    BY <1>5 DEF Creates, CreateDictionary, CreateTemplates, CreateColumn, Goto,
                BeforeColumns, AtColumns
  <2>2. clean' => \A p \in Paths : Present(p)' => files'[p].by = run'
    BY <1>0, <1>5, <2>1, CreateFrame DEF CleanFiles, Present, IndexFolderTypeOK
  <2> QED
    BY <2>2 DEF CleanFiles, FilesOfOneRun
<1>6. ASSUME NEW path \in Paths, Completes(path)
      PROVE  CleanFiles'
  <2>1. stage \in Writing
    BY <1>6 DEF Completes, FinishDictionary, FlushTemplates, WriteColumn,
                BeforeColumns, AtColumns
  <2>2. clean' => \A p \in Paths : Present(p)' => files'[p].by = run'
    BY <1>0, <1>6, <2>1, CompleteFrame DEF CleanFiles, Present, IndexFolderTypeOK
  <2> QED
    BY <2>2 DEF CleanFiles, FilesOfOneRun
<1>7. CASE FinishDictionary /\ UNCHANGED <<files, held, quiet>>
  BY <1>0, <1>7
  DEF FinishDictionary, Goto, CleanFiles, FilesOfOneRun, Present, BeforeColumns
<1>8. CASE ReaderStep
  BY <1>0, <1>8, ReaderFrame DEF CleanFiles, FilesOfOneRun, Present
<1>9. CASE UNCHANGED vars
  BY <1>0, <1>9 DEF vars, writerVars, CleanFiles, FilesOfOneRun, Present
<1> QED
  BY <1>1, <1>2, <1>3, <1>4, <1>5, <1>6, <1>7, <1>8, <1>9, Steps

LEMMA ProgressStep == FolderInv /\ [Next]_vars => Progress'
<1> SUFFICES ASSUME FolderInv, [Next]_vars PROVE Progress'
  OBVIOUS
<1> USE DEF Before, BeforeColumns, AtColumns
<1>0. IndexFolderTypeOK /\ InTime /\ Removed /\ Progress
  BY DEF FolderInv
<1>1. ASSUME NEW n \in 0 .. MaxTemplates, StartIndexFile(n) \/ StartIndex(n)
      PROVE  Progress'
  <2>1. /\ stage' \in Before /\ run' = run + 1 /\ run' \in Runs /\ columns' = 0 .. n - 1
        /\ UNCHANGED <<files, held>>
    BY <1>0, <1>1, FileFacts, IndexFolderAssumption
    DEF IndexFolderAssumption, StartIndexFile, StartIndex, Start, Runs
  <2>2. size'[run'] = n
    BY <1>0, <1>1, <2>1 DEF StartIndexFile, StartIndex, Start, IndexFolderTypeOK
  <2>3. /\ held.inode # run + 1
        /\ \A path \in Paths : files[path].by # run + 1 /\ files[path].inode # run + 1
    BY <1>0, FileFacts DEF InTime
  <2> QED
    BY <2>1, <2>2, <2>3 DEF Progress
<1>2. ASSUME NEW path \in Paths, RemoveFile(path)
      PROVE  Progress'
  <2>1. run # 0 /\ NoFile.by = 0 /\ NoFile.inode = 0
    BY <1>0, <1>2, FileFacts DEF RemoveFile, InTime, NoFile
  <2> QED
    BY <1>0, <1>2, <2>1 DEF RemoveFile, Progress, IndexFolderTypeOK, writerVars
<1>3. CASE RemoveDir \/ CreateDir \/ ReturnOk \/ Stop
  <2>1. CASE RemoveDir
    BY <1>0, <2>1 DEF RemoveDir, Progress
  <2>2. CASE CreateDir
    BY <1>0, <2>2 DEF CreateDir, Progress
  <2>3. CASE ReturnOk
    BY <1>0, <2>3 DEF ReturnOk, Progress
  <2>4. CASE Stop
    BY <1>0, <2>4 DEF Stop, Progress
  <2> QED
    BY <1>3, <2>1, <2>2, <2>3, <2>4
<1>4. CASE CreateDictionary
  <2>1. Dictionary \in Paths /\ Creates(Dictionary)
    BY <1>4, PathFacts DEF Creates
  <2>2. /\ stage = "dictionary" /\ stage' = "finish_dictionary" /\ columns' = columns
    BY <1>4 DEF CreateDictionary, Goto
  <2>3. \A k \in Columns : files'[Column(k)].by # run
    <3>1. \A k \in Columns : Column(k) \in Paths /\ Column(k) # Dictionary
      BY PathFacts
    <3>2. \A k \in Columns : files[Column(k)].by # run
      BY <1>0, <2>2, <3>1 DEF Progress
    <3>3. \A path \in Paths \ {Dictionary} : files'[path] = files[path]
      BY <1>0, <2>1, CreateFrame DEF IndexFolderTypeOK
    <3> QED
      BY <3>1, <3>2, <3>3
  <2>4. files'[Dictionary] = Truncated(Dictionary)
    BY <1>0, <2>1, CreateFrame DEF IndexFolderTypeOK
  <2>5. held.inode # run
    BY <1>0, <2>2 DEF Progress
  <2>6. program = "cli" => ~Present(Dictionary)
    BY <1>0, <2>2, PathFacts DEF Removed, Empty
  <2>7. program = "cli" => /\ Truncated(Dictionary).inode = run
                           /\ held' = held
    BY <1>0, <2>1, <2>5, <2>6, CreateFrame
  <2>8. columns = 0 .. size[run] - 1
    BY <1>0, <2>2 DEF Progress
  <2>9. /\ Truncated(Dictionary).by = run /\ ~Truncated(Dictionary).full
        /\ UNCHANGED <<run, program, size>>
    BY <1>0, <2>1, CreateFrame
  <2> QED
    BY <2>2, <2>3, <2>4, <2>5, <2>7, <2>8, <2>9 DEF Progress
<1>5. CASE CreateTemplates
  <2>1. Templates \in Paths /\ Creates(Templates)
    BY <1>5, PathFacts DEF Creates
  <2>2. /\ stage = "templates" /\ stage' = "flush_templates" /\ columns' = columns
    BY <1>5 DEF CreateTemplates, Goto
  <2>3. /\ \A k \in Columns : files'[Column(k)] = files[Column(k)]
        /\ files'[Dictionary] = files[Dictionary]
        /\ files'[Templates] = Truncated(Templates)
    BY <1>0, <2>1, CreateFrame, PathFacts DEF IndexFolderTypeOK
  <2>4. /\ Truncated(Templates).by = run
        /\ UNCHANGED <<run, program, size>>
    BY <1>0, <2>1, CreateFrame
  <2> QED
    BY <1>0, <2>2, <2>3, <2>4 DEF Progress
<1>6. ASSUME NEW k \in Columns, CreateColumn(k)
      PROVE  Progress'
  <2>1. Column(k) \in Paths /\ Creates(Column(k))
    BY <1>6, PathFacts DEF Creates
  <2>2. /\ stage = "columns" /\ stage' = "write_column" /\ columns' = columns \ {k}
    BY <1>6 DEF CreateColumn
  <2>3. /\ \A j \in Columns : j # k => files'[Column(j)] = files[Column(j)]
        /\ files'[Dictionary] = files[Dictionary]
        /\ files'[Templates] = files[Templates]
        /\ files'[Column(k)] = Truncated(Column(k))
    BY <1>0, <2>1, CreateFrame, PathFacts DEF IndexFolderTypeOK
  <2>4. /\ Truncated(Column(k)).by = run
        /\ UNCHANGED <<run, program, size>>
    BY <1>0, <2>1, CreateFrame
  <2>5. OwnColumns({})
    BY <1>0, <2>2 DEF Progress
  <2>6. OwnColumns({k})'
    BY <2>2, <2>3, <2>4, <2>5 DEF OwnColumns
  <2> QED
    BY <1>0, <2>2, <2>3, <2>4, <2>6 DEF Progress
<1>7. CASE FinishDictionary
  <2>1. /\ stage = "finish_dictionary" /\ stage' = "templates"
        /\ UNCHANGED <<run, program, size, columns>>
    BY <1>7 DEF FinishDictionary, Goto
  <2>2. /\ \A k \in Columns : files'[Column(k)] = files[Column(k)]
        /\ files'[Dictionary].by = files[Dictionary].by
    <3>1. CASE UNCHANGED files
      BY <3>1
    <3>2. CASE Complete(Dictionary)
      <4>1. Dictionary \in Paths /\ Completes(Dictionary)
        BY <1>7, <3>2, PathFacts DEF Completes
      <4> QED
        BY <1>0, <4>1, CompleteFrame, PathFacts DEF IndexFolderTypeOK
    <3> QED
      BY <1>7, <3>1, <3>2 DEF FinishDictionary
  <2> QED
    BY <1>0, <2>1, <2>2 DEF Progress
<1>8. CASE FlushTemplates
  <2>1. /\ stage = "flush_templates" /\ stage' = "columns"
    BY <1>8 DEF FlushTemplates, Goto
  <2>2. Templates \in Paths /\ Completes(Templates)
    BY <1>8, PathFacts DEF Completes
  <2>3. /\ \A k \in Columns : files'[Column(k)] = files[Column(k)]
        /\ files'[Dictionary] = files[Dictionary]
        /\ files'[Templates] = Whole(Templates)
    BY <1>0, <2>2, CompleteFrame, PathFacts DEF IndexFolderTypeOK
  <2>4. /\ Whole(Templates).by = run /\ Whole(Templates).full
        /\ UNCHANGED <<run, program, size, columns>>
    BY <2>2, CompleteFrame
  <2>5. OwnColumns({})'
    BY <1>0, <2>1, <2>3, <2>4 DEF Progress, OwnColumns
  <2> QED
    BY <1>0, <2>1, <2>3, <2>4, <2>5 DEF Progress
<1>9. ASSUME NEW k \in Columns, WriteColumn(k)
      PROVE  Progress'
  <2>1. /\ stage = "write_column" /\ stage' = "columns"
        /\ files[Column(k)].by = run /\ ~files[Column(k)].full
    BY <1>9 DEF WriteColumn, Goto
  <2>2. Column(k) \in Paths /\ Completes(Column(k))
    BY <1>9, PathFacts DEF Completes
  <2>3. /\ \A j \in Columns : j # k => files'[Column(j)] = files[Column(j)]
        /\ files'[Dictionary] = files[Dictionary]
        /\ files'[Templates] = files[Templates]
        /\ files'[Column(k)] = Whole(Column(k))
    <3>1. /\ \A j \in Columns : Column(j) \in Paths /\ (j # k => Column(j) # Column(k))
          /\ Dictionary \in Paths /\ Dictionary # Column(k)
          /\ Templates \in Paths /\ Templates # Column(k)
      BY PathFacts
    <3>2. /\ \A path \in Paths \ {Column(k)} : files'[path] = files[path]
          /\ files'[Column(k)] = Whole(Column(k))
      BY <1>0, <2>2, CompleteFrame DEF IndexFolderTypeOK
    <3> QED
      BY <3>1, <3>2
  <2>4. /\ Whole(Column(k)).by = run /\ Whole(Column(k)).full
        /\ UNCHANGED <<run, program, size, columns>>
    BY <2>2, CompleteFrame
  <2>5. OwnColumns({k})
    <3>1. PICK pending \in Columns : OwnColumns({pending})
      BY <1>0, <2>1 DEF Progress
    <3>2. pending = k
      BY <2>1, <3>1 DEF OwnColumns
    <3> QED
      BY <3>1, <3>2
  <2>6. OwnColumns({})'
    BY <2>3, <2>4, <2>5 DEF OwnColumns
  <2> QED
    BY <1>0, <2>1, <2>3, <2>4, <2>6 DEF Progress
<1>10. CASE ReaderStep
  <2>1. /\ UNCHANGED <<run, program, size, stage, columns, files>>
        /\ \/ held' = held
           \/ held' = NoFile
           \/ held' = files[Dictionary] /\ files[Dictionary].full
    BY <1>0, <1>10, ReaderFrame
  <2>2. stage # "idle" => NoFile.inode # run
    BY <1>0, FileFacts DEF InTime, NoFile
  <2>3. stage \in Before => held'.inode # run
    BY <1>0, <2>1, <2>2, PathFacts DEF Progress
  <2>4. program = "cli" /\ stage = "finish_dictionary" => held'.inode # run
    BY <1>0, <2>1, <2>2 DEF Progress
  <2>5. /\ OwnColumns({})' <=> OwnColumns({})
        /\ \A k \in Columns : OwnColumns({k})' <=> OwnColumns({k})
    BY <2>1 DEF OwnColumns
  <2> QED
    BY <1>0, <2>1, <2>3, <2>4, <2>5 DEF Progress
<1>11. CASE UNCHANGED vars
  <2>1. /\ OwnColumns({})' <=> OwnColumns({})
        /\ \A k \in Columns : OwnColumns({k})' <=> OwnColumns({k})
    BY <1>11 DEF vars, writerVars, OwnColumns
  <2> QED
    BY <1>0, <1>11, <2>1 DEF vars, writerVars, Progress
<1> QED
  BY <1>1, <1>2, <1>3, <1>4, <1>5, <1>6, <1>7, <1>8, <1>9, <1>10, <1>11
  DEF Next, ReaderStep

LEMMA NothingStaleStep == FolderInv /\ [Next]_vars => NothingStaleAfterOk'
<1> SUFFICES ASSUME FolderInv, [Next]_vars, (stage = "idle" /\ ok)'
             PROVE  /\ files'[Dictionary].by = run'
                    /\ files'[Templates].by = run' /\ files'[Templates].full
                    /\ \A k \in 0 .. size'[run'] - 1 :
                         files'[Column(k)].by = run' /\ files'[Column(k)].full
  BY DEF NothingStaleAfterOk
<1>0. IndexFolderTypeOK /\ InTime /\ Progress /\ NothingStaleAfterOk
  BY DEF FolderInv
<1>1. ASSUME NEW n \in 0 .. MaxTemplates, StartIndexFile(n) \/ StartIndex(n)
      PROVE  FALSE
  BY <1>1 DEF StartIndexFile, StartIndex, Start
<1>2. ASSUME NEW path \in Paths, RemoveFile(path)
      PROVE  FALSE
  BY <1>2 DEF RemoveFile, writerVars
<1>3. CASE RemoveDir \/ CreateDir
  BY <1>3 DEF RemoveDir, CreateDir
<1>4. CASE Stop
  BY <1>0, <1>4 DEF Stop, InTime
<1>5. CASE ReturnOk
  <2>1. /\ stage = "columns" /\ columns = {} /\ UNCHANGED <<files, run, size>>
    BY <1>5 DEF ReturnOk
  <2>2. OwnColumns({}) /\ files[Dictionary].by = run
        /\ files[Templates].by = run /\ files[Templates].full
    BY <1>0, <2>1 DEF Progress, BeforeColumns, AtColumns
  <2>3. 0 .. size[run] - 1 \subseteq Columns
    BY <1>0, <2>1, IndexFolderAssumption
    DEF IndexFolderAssumption, InTime, IndexFolderTypeOK, Columns
  <2> QED
    BY <2>1, <2>2, <2>3 DEF OwnColumns
<1>6. ASSUME NEW path \in Paths, Creates(path)
      PROVE  FALSE
  BY <1>6 DEF Creates, CreateDictionary, CreateTemplates, CreateColumn, Goto
<1>7. ASSUME NEW path \in Paths, Completes(path)
      PROVE  FALSE
  BY <1>7 DEF Completes, FinishDictionary, FlushTemplates, WriteColumn, Goto
<1>8. CASE FinishDictionary /\ UNCHANGED <<files, held, quiet>>
  BY <1>8 DEF FinishDictionary, Goto
<1>9. CASE ReaderStep
  BY <1>0, <1>9, ReaderFrame DEF NothingStaleAfterOk
<1>10. CASE UNCHANGED vars
  BY <1>0, <1>10 DEF vars, writerVars, NothingStaleAfterOk
<1> QED
  BY <1>1, <1>2, <1>3, <1>4, <1>5, <1>6, <1>7, <1>8, <1>9, <1>10, Steps

LEMMA QuietReaderStep == FolderInv /\ [Next]_vars => QuietReader'
<1> SUFFICES ASSUME FolderInv, [Next]_vars PROVE QuietReader'
  OBVIOUS
<1>0. IndexFolderTypeOK /\ InTime /\ QuietReader
  BY DEF FolderInv
<1>1. CASE /\ ~quiet'
           /\ UNCHANGED <<reader, listed, returned>>
  BY <1>0, <1>1 DEF QuietReader
<1>2. ASSUME NEW n \in 0 .. MaxTemplates, StartIndexFile(n) \/ StartIndex(n)
      PROVE  ~quiet' /\ UNCHANGED <<reader, listed, returned>>
  BY <1>2 DEF StartIndexFile, StartIndex, Start, readerVars
<1>3. ASSUME NEW path \in Paths, RemoveFile(path)
      PROVE  ~quiet' /\ UNCHANGED <<reader, listed, returned>>
  BY <1>0, <1>3 DEF RemoveFile, InTime, readerVars
<1>4. ASSUME RemoveDir \/ CreateDir \/ ReturnOk \/ Stop
      PROVE  ~quiet' /\ UNCHANGED <<reader, listed, returned>>
  BY <1>0, <1>4 DEF RemoveDir, CreateDir, ReturnOk, Stop, InTime, readerVars
<1>5. ASSUME NEW path \in Paths, Creates(path)
      PROVE  ~quiet' /\ UNCHANGED <<reader, listed, returned>>
  BY <1>0, <1>5, CreateFrame
<1>6. ASSUME NEW path \in Paths, Completes(path)
      PROVE  ~quiet' /\ UNCHANGED <<reader, listed, returned>>
  BY <1>6, CompleteFrame
<1>7. ASSUME FinishDictionary /\ UNCHANGED <<files, held, quiet>>
      PROVE  ~quiet' /\ UNCHANGED <<reader, listed, returned>>
  BY <1>0, <1>7 DEF FinishDictionary, Goto, InTime, readerVars
<1>8. CASE ReaderStep
  <2>1. UNCHANGED <<size, files>>
    BY <1>0, <1>8, ReaderFrame
  <2>2. \A r, t : ColumnOf(r, t)' <=> ColumnOf(r, t)
    BY <2>1 DEF ColumnOf
  <2>3. CASE OpenDictionary
    BY <1>0, <2>3 DEF OpenDictionary, QuietReader
  <2>4. CASE ReadTemplates
    <3>1. files[Templates].full => files[Templates].by \in Runs
      BY <1>0, FileFacts, PathFacts
    <3> QED
      BY <1>0, <2>4, <3>1 DEF ReadTemplates, QuietReader
  <2>5. CASE Close
    BY <2>5 DEF Close, QuietReader
  <2>6. CASE StartSearch
    <3>1. scanning' \subseteq 0 .. size[listed] - 1
      BY <2>6 DEF StartSearch
    <3> QED
      BY <1>0, <2>1, <2>6, <3>1 DEF StartSearch, QuietReader
  <2>7. CASE FailSearch
    BY <1>0, <2>1, <2>2, <2>7 DEF FailSearch, QuietReader
  <2>8. CASE RetrieveDocs
    <3>1. quiet => \A r \in hits : ColumnOf(r, listed)
      BY <1>0, <2>8 DEF RetrieveDocs, QuietReader
    <3>2. quiet => \A doc \in returned' :
                     /\ doc.dictionary = held.by /\ doc.templates = listed
                     /\ ColumnOf(doc.column, listed)
      BY <2>8, <3>1 DEF RetrieveDocs
    <3> QED
      BY <1>0, <2>1, <2>2, <2>8, <3>2 DEF RetrieveDocs, QuietReader
  <2>9. ASSUME NEW k \in Columns, ReadColumn(k)
        PROVE  QuietReader'
    <3>1. quiet => ColumnOf(files[Column(k)].by, listed)
      BY <1>0, <2>9 DEF ReadColumn, QuietReader, ColumnOf
    <3>2. quiet => \A r \in hits' : ColumnOf(r, listed)
      BY <1>0, <2>9, <3>1 DEF ReadColumn, QuietReader
    <3>3. quiet => scanning' \subseteq 0 .. size[listed] - 1
      BY <1>0, <2>9 DEF ReadColumn, QuietReader
    <3> QED
      BY <1>0, <2>1, <2>2, <2>9, <3>2, <3>3 DEF ReadColumn, QuietReader
  <2> QED
    BY <1>8, <2>3, <2>4, <2>5, <2>6, <2>7, <2>8, <2>9 DEF ReaderStep
<1>9. CASE UNCHANGED vars
  <2>1. \A r, t : ColumnOf(r, t)' <=> ColumnOf(r, t)
    BY <1>9 DEF vars, writerVars, ColumnOf
  <2> QED
    BY <1>0, <1>9, <2>1 DEF vars, writerVars, readerVars, QuietReader
<1> QED
  BY <1>1, <1>2, <1>3, <1>4, <1>5, <1>6, <1>7, <1>8, <1>9, Steps

-----------------------------------------------------------------------------
(* The invariant.                                                          *)

LEMMA FolderInitInv == Init => FolderInv
<1> SUFFICES ASSUME Init PROVE FolderInv
  OBVIOUS
<1>1. IndexFolderTypeOK
  BY TypeInit
<1>2. \A path \in Paths : files[path] = NoFile
  BY DEF Init
<1>3. InTime
  BY <1>2 DEF Init, InTime, NoFile
<1>4. Removed /\ CleanFiles
  BY <1>2 DEF Init, Removed, Empty, CleanFiles, FilesOfOneRun, Present
<1>5. Progress
  BY DEF Init, Progress, Before, BeforeColumns, AtColumns
<1>6. NothingStaleAfterOk
  BY DEF Init, NothingStaleAfterOk
<1>7. QuietReader
  BY DEF Init, QuietReader
<1> QED
  BY <1>1, <1>3, <1>4, <1>5, <1>6, <1>7 DEF FolderInv

(* Whatever runs, stops and readers there are, FolderInv holds.            *)
THEOREM FolderInvariant == Spec => []FolderInv
<1>1. Init => FolderInv
  BY FolderInitInv
<1>2. FolderInv /\ [Next]_vars => FolderInv'
  BY TypeStep, InTimeStep, RemovedStep, CleanFilesStep, ProgressStep,
     NothingStaleStep, QuietReaderStep DEF FolderInv
<1> QED
  BY <1>1, <1>2, PTL DEF Spec

(* The variables of the folder keep their types.                           *)
THEOREM FolderTypeCorrect == Spec => []IndexFolderTypeOK
<1>1. FolderInv => IndexFolderTypeOK
  BY DEF FolderInv
<1> QED
  BY <1>1, FolderInvariant, PTL

(* After a run that returned Ok, whatever was in the folder before: every  *)
(* file its templates name is whole and its own.                           *)
THEOREM NothingStaysStale == Spec => []NothingStaleAfterOk
<1>1. FolderInv => NothingStaleAfterOk
  BY DEF FolderInv
<1> QED
  BY <1>1, FolderInvariant, PTL

(* The command line, wherever its runs stop, never leaves files of two.    *)
THEOREM FilesStayOfOneRun == Spec => []FilesOfOneRun
<1>1. FolderInv => FilesOfOneRun
  BY DEF FolderInv, CleanFiles
<1> QED
  BY <1>1, FolderInvariant, PTL

(* A search of a reader that saw no run at work returns documents of one   *)
(* run: the columns it read late fit what it read when it was opened.      *)
THEOREM QuietReadersStayWithOneRun == Spec => []QuietReadersSeeOneRun
<1>1. FolderInv => QuietReadersSeeOneRun
  <2> SUFFICES ASSUME FolderInv, reader # "closed", quiet, NEW doc \in returned
               PROVE  /\ clean => /\ doc.dictionary = doc.templates
                                  /\ doc.templates = doc.column
                      /\ ok => doc = [dictionary |-> run, templates |-> run,
                                      column |-> run]
    BY DEF QuietReadersSeeOneRun
  <2>0. IndexFolderTypeOK /\ InTime /\ CleanFiles /\ NothingStaleAfterOk /\ QuietReader
    BY DEF FolderInv
  <2>1. reader \in {"open", "search"}
    BY <2>0 DEF QuietReader, IndexFolderTypeOK
  <2>2. /\ doc.dictionary = files[Dictionary].by /\ files[Dictionary].full
        /\ doc.templates = files[Templates].by /\ files[Templates].full
        /\ listed = files[Templates].by
        /\ ColumnOf(doc.column, listed)
    BY <2>0, <2>1 DEF QuietReader
  <2>3. PICK k \in 0 .. size[listed] - 1 :
          k \in Columns /\ files[Column(k)].full /\ files[Column(k)].by = doc.column
    BY <2>2 DEF ColumnOf
  <2>4. clean => doc.dictionary = doc.templates /\ doc.templates = doc.column
    <3>1. Present(Dictionary) /\ Present(Templates) /\ Present(Column(k))
      BY <2>0, <2>2, <2>3, FileFacts, PathFacts
    <3> QED
      BY <2>0, <2>2, <2>3, <3>1, PathFacts DEF CleanFiles, FilesOfOneRun
  <2>5. ok => doc.dictionary = run /\ doc.templates = run /\ doc.column = run
    <3>1. stage = "idle"
      BY <2>0 DEF InTime
    <3> QED
      BY <2>0, <2>2, <2>3, <3>1 DEF NothingStaleAfterOk
  <2>6. doc \in Document
    BY <2>0 DEF IndexFolderTypeOK
  <2>7. ok => doc = [dictionary |-> run, templates |-> run, column |-> run]
    BY <2>5, <2>6 DEF Document
  <2> QED
    BY <2>4, <2>7
<1> QED
  BY <1>1, FolderInvariant, PTL

(* A run of the command line leaves the dictionary that a reader holds     *)
(* open as it is: it removes files and creates new ones.                   *)
THEOREM CommandLineSparesOpenDictionary == Spec => CommandLineSparesReaders
<1> DEFINE Spares == program' = "cli" /\ stage # "idle" /\ reader # "closed"
                       /\ reader' = reader => held' = held
<1>1. FolderInv /\ [Next]_vars => [Spares]_vars
  <2> SUFFICES ASSUME FolderInv, [Next]_vars, program' = "cli", stage # "idle",
                      reader # "closed", reader' = reader
               PROVE  held' = held
    OBVIOUS
  <2>0. IndexFolderTypeOK /\ InTime /\ Removed /\ Progress
    BY DEF FolderInv
  <2>1. ASSUME NEW n \in 0 .. MaxTemplates, StartIndexFile(n) \/ StartIndex(n)
        PROVE  held' = held
    BY <2>1 DEF StartIndexFile, StartIndex, Start
  <2>2. ASSUME NEW path \in Paths, RemoveFile(path)
        PROVE  held' = held
    BY <2>2 DEF RemoveFile
  <2>3. CASE RemoveDir \/ CreateDir \/ ReturnOk \/ Stop
    BY <2>3 DEF RemoveDir, CreateDir, ReturnOk, Stop
  <2>4. ASSUME NEW path \in Paths, Creates(path)
        PROVE  held' = held
    <3>1. CASE path = Dictionary
      <4>1. stage = "dictionary"
        BY <2>4, <3>1, PathFacts DEF Creates, CreateDictionary
      <4>2. program = "cli"
        BY <2>0, <2>4, CreateFrame
      <4>3. ~Present(Dictionary) /\ held.inode # run
        BY <2>0, <4>1, <4>2, PathFacts DEF Removed, Empty, Progress, Before
      <4> QED
        BY <2>0, <2>4, <3>1, <4>3, CreateFrame
    <3> QED
      BY <2>0, <2>4, <3>1, CreateFrame
  <2>5. ASSUME NEW path \in Paths, Completes(path)
        PROVE  held' = held
    <3>1. CASE path = Dictionary
      <4>1. stage = "finish_dictionary"
        BY <2>5, <3>1, PathFacts DEF Completes, FinishDictionary
      <4>2. program = "cli"
        BY <2>5, CompleteFrame
      <4>3. held.inode # files[Dictionary].inode
        BY <2>0, <4>1, <4>2 DEF Progress
      <4> QED
        BY <2>5, <3>1, <4>3, CompleteFrame
    <3> QED
      BY <2>5, <3>1, CompleteFrame
  <2>6. CASE FinishDictionary /\ UNCHANGED <<files, held, quiet>>
    BY <2>6
  <2>7. CASE ReaderStep
    BY <2>7 DEF ReaderStep, OpenDictionary, ReadTemplates, Close, StartSearch,
                FailSearch, RetrieveDocs, ReadColumn
  <2>8. CASE UNCHANGED vars
    BY <2>8 DEF vars
  <2> QED
    BY <2>1, <2>2, <2>3, <2>4, <2>5, <2>6, <2>7, <2>8, Steps
<1> QED
  BY <1>1, FolderInvariant, PTL DEF Spec, CommandLineSparesReaders
=============================================================================
