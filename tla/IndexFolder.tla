----------------------------- MODULE IndexFolder ----------------------------
(***************************************************************************)
(* The files of an index over time: runs of the indexer that write them    *)
(* one after the other and may stop anywhere, and a reader that opens some *)
(* of them early and some late.  A run is the command line, which empties  *)
(* the folder first (index_file in src/main.rs), or the library, which     *)
(* writes into the folder as it is (IndexWriter::index).  What a file says *)
(* is abstracted to the run that wrote it and whether it is all there.     *)
(***************************************************************************)
EXTENDS Integers, FiniteSets

CONSTANTS
  MaxRuns,      (* Bound: how often the folder is written.                 *)
  MaxTemplates, (* Bound: the templates of a run.                          *)
  Programs      (* Who writes: "cli", "library".                           *)

ASSUME IndexFolderAssumption ==
  /\ MaxRuns \in Nat /\ MaxTemplates \in Nat
  /\ Programs \subseteq {"cli", "library"}

VARIABLES
  exists,   (* Whether the folder exists.                                  *)
  files,    (* The file at each path of the folder.                        *)
  run,      (* The number of the last run that was started.                *)
  program,  (* Which program that run is.                                  *)
  size,     (* The number of templates of every run.                       *)
  stage,    (* What the run does next; "idle" when it is over.             *)
  columns,  (* The templates whose column file the run has yet to write.   *)
  ok,       (* Whether the last run returned Ok.                           *)
  clean,    (* History: emptied by the command line, only used by it since.*)
  reader,   (* What the reader does next; "closed" without an index.       *)
  held,     (* The dictionary file the reader holds open.                  *)
  listed,   (* The run whose templates the reader has in memory.           *)
  scanning, (* The templates whose columns a search has yet to read.       *)
  hits,     (* The runs of the columns read by the search.                 *)
  quiet,    (* History: no run was active since the reader opened.         *)
  returned  (* History: the documents the last search returned.            *)

writerVars == <<exists, run, program, size, stage, columns, ok, clean>>
readerVars == <<reader, listed, scanning, hits, returned>>
vars == <<writerVars, files, held, quiet, readerVars>>

Runs == 1 .. MaxRuns
Columns == 0 .. MaxTemplates - 1
Dictionary == <<"dictionary">>
Templates == <<"templates">>
Column(k) == <<"column", k>>
Paths == {Dictionary, Templates} \union {Column(k) : k \in Columns}

\* A file: the run that created it, the run that wrote it, all of it or not.
File == [inode : Runs, by : Runs, full : BOOLEAN]
NoFile == [inode |-> 0, by |-> 0, full |-> FALSE]

Present(path) == files[path] # NoFile

\* What a document a search returns was put together from.
Document == [dictionary : Runs, templates : Runs, column : Runs]

Init ==
  /\ exists \in BOOLEAN
  /\ files = [path \in Paths |-> NoFile]
  /\ run = 0
  /\ program = "none"
  /\ size = [r \in Runs |-> 0]
  /\ stage = "idle"
  /\ columns = {}
  /\ ok = FALSE
  /\ clean = FALSE
  /\ reader = "closed"
  /\ held = NoFile
  /\ listed = 0
  /\ scanning = {}
  /\ hits = {}
  /\ quiet = FALSE
  /\ returned = {}

-----------------------------------------------------------------------------
(* The file system.                                                        *)

\* Mutant: a file that exists is opened without truncating it.
MutTruncated(path) ==
  IF Present(path) THEN files[path] ELSE [inode |-> run, by |-> run, full |-> FALSE]

(* File::create: truncates a file that exists in place, so whoever holds   *)
(* it open sees it emptied.                                                *)
Truncated(path) ==
  [inode |-> IF Present(path) THEN files[path].inode ELSE run,
   by    |-> run, full |-> FALSE]

\* A step of the run gives a path a file.
Put(path, file) ==
  /\ exists
  /\ files' = [files EXCEPT ![path] = file]
  /\ held' = IF path = Dictionary /\ held.inode = file.inode THEN file ELSE held
  /\ quiet' = FALSE

Create(path) == Put(path, Truncated(path))

\* What was buffered has reached the file.
Complete(path) == Put(path, [files[path] EXCEPT !.full = TRUE])

-----------------------------------------------------------------------------
(* Runs of the indexer.                                                    *)

\* Mutant: a column too many is written.
MutStart(who, first, n) ==
  /\ stage = "idle"
  /\ run < MaxRuns
  /\ who \in Programs
  /\ run' = run + 1
  /\ program' = who
  /\ size' = [size EXCEPT ![run + 1] = n]
  /\ stage' = first
  /\ columns' = 0 .. n
  /\ ok' = FALSE
  /\ quiet' = FALSE
  /\ UNCHANGED <<exists, files, held, readerVars>>

\* A run starts on lines that give n templates.
Start(who, first, n) ==
  /\ stage = "idle"
  /\ run < MaxRuns
  /\ who \in Programs
  /\ run' = run + 1
  /\ program' = who
  /\ size' = [size EXCEPT ![run + 1] = n]
  /\ stage' = first
  /\ columns' = 0 .. n - 1
  /\ ok' = FALSE
  /\ quiet' = FALSE
  /\ UNCHANGED <<exists, files, held, readerVars>>

\* Mutant: the folder is not removed.
MutStartIndexFile(n) ==
  /\ Start("cli", "create_dir", n)
  /\ UNCHANGED clean

\* index_file: the folder goes first, if it exists.
StartIndexFile(n) ==
  /\ Start("cli", IF exists THEN "remove" ELSE "create_dir", n)
  /\ UNCHANGED clean

\* IndexWriter::index on its own: the folder is taken as it is.
StartIndex(n) ==
  /\ Start("library", "dictionary", n)
  /\ clean' = FALSE

\* remove_dir_all: the files in any order, an open one stays readable.
RemoveFile(path) ==
  /\ stage = "remove"
  /\ Present(path)
  /\ files' = [files EXCEPT ![path] = NoFile]
  /\ UNCHANGED <<writerVars, held, quiet, readerVars>>

\* Mutant: only what the run is sure to write is removed.
MutRemoveDir ==
  /\ stage = "remove"
  /\ ~Present(Dictionary) /\ ~Present(Templates)
  /\ stage' = "create_dir"
  /\ UNCHANGED <<exists, files, run, program, size, columns, ok, clean, held,
                 quiet, readerVars>>

RemoveDir ==
  /\ stage = "remove"
  /\ \A path \in Paths : ~Present(path)
  /\ exists' = FALSE
  /\ stage' = "create_dir"
  /\ UNCHANGED <<files, run, program, size, columns, ok, clean, held, quiet,
                 readerVars>>

\* create_dir_all, after which the input is read.
CreateDir ==
  /\ stage = "create_dir"
  /\ exists' = TRUE
  /\ clean' = TRUE
  /\ stage' = "dictionary"
  /\ UNCHANGED <<files, run, program, size, columns, ok, held, quiet,
                 readerVars>>

\* The run goes on to its next file.
Goto(next) ==
  /\ stage' = next
  /\ UNCHANGED <<exists, run, program, size, columns, ok, clean, readerVars>>

CreateDictionary ==
  /\ stage = "dictionary"
  /\ Create(Dictionary)
  /\ Goto("finish_dictionary")

(* The BufWriter around the file is dropped, not flushed: when the last    *)
(* write fails nobody hears of it and the run goes on.                     *)
FinishDictionary ==
  /\ stage = "finish_dictionary"
  /\ \/ Complete(Dictionary)
     \/ UNCHANGED <<files, held, quiet>>
  /\ Goto("templates")

CreateTemplates ==
  /\ stage = "templates"
  /\ Create(Templates)
  /\ Goto("flush_templates")

FlushTemplates ==
  /\ stage = "flush_templates"
  /\ Complete(Templates)
  /\ Goto("columns")

\* Mutant: a column file that is there already is kept.
MutCreateColumn(k) ==
  /\ stage = "columns"
  /\ k \in columns
  /\ IF Present(Column(k))
     THEN stage' = stage /\ UNCHANGED <<files, held, quiet>>
     ELSE stage' = "write_column" /\ Create(Column(k))
  /\ columns' = columns \ {k}
  /\ UNCHANGED <<exists, run, program, size, ok, clean, readerVars>>

\* write_column_and_remap, for the groups in the order of the hash map.
CreateColumn(k) ==
  /\ stage = "columns"
  /\ k \in columns
  /\ Create(Column(k))
  /\ stage' = "write_column"
  /\ columns' = columns \ {k}
  /\ UNCHANGED <<exists, run, program, size, ok, clean, readerVars>>

WriteColumn(k) ==
  /\ stage = "write_column"
  /\ files[Column(k)].by = run
  /\ ~files[Column(k)].full
  /\ Complete(Column(k))
  /\ Goto("columns")

ReturnOk ==
  /\ stage = "columns"
  /\ columns = {}
  /\ ok' = TRUE
  /\ stage' = "idle"
  /\ UNCHANGED <<exists, files, run, program, size, columns, clean, held, quiet,
                 readerVars>>

(* A run ends early: an input or output error, a line that is not UTF-8, a *)
(* panic, a kill.  Nothing is undone.                                      *)
Stop ==
  /\ stage # "idle"
  /\ stage' = "idle"
  /\ columns' = {}
  /\ UNCHANGED <<exists, files, run, program, size, ok, clean, held, quiet,
                 readerVars>>

-----------------------------------------------------------------------------
(* The reader.  An error or a panic leaves it where a failed Index::new    *)
(* or search leaves it: without an index, or ready for the next search.    *)

\* Dict::new: no file is an error, a file without its end a panic.
OpenDictionary ==
  /\ reader = "closed"
  /\ files[Dictionary].full
  /\ reader' = "dictionary"
  /\ held' = files[Dictionary]
  /\ quiet' = (stage = "idle")
  /\ UNCHANGED <<writerVars, files, listed, scanning, hits, returned>>

Close ==
  /\ reader # "closed"
  /\ reader' = "closed"
  /\ held' = NoFile
  /\ listed' = 0
  /\ scanning' = {}
  /\ hits' = {}
  /\ returned' = {}
  /\ UNCHANGED <<writerVars, files, quiet>>

ReadTemplates ==
  /\ reader = "dictionary"
  /\ files[Templates].full
  /\ reader' = "open"
  /\ listed' = files[Templates].by
  /\ UNCHANGED <<writerVars, files, held, quiet, scanning, hits, returned>>

(* Templates that match on a constant are scanned, others if the term is   *)
(* found.  A dictionary that fails to answer counts as one without the term.*)
StartSearch ==
  /\ reader = "open"
  /\ \E constant, variable \in SUBSET (0 .. size[listed] - 1) :
       scanning' = constant \union IF held.full THEN variable ELSE {}
  /\ reader' = "search"
  /\ hits' = {}
  /\ returned' = {}
  /\ UNCHANGED <<writerVars, files, held, quiet, listed>>

\* decompress_column: the file that is at the path now.
ReadColumn(k) ==
  /\ reader = "search"
  /\ k \in scanning
  /\ files[Column(k)].full
  /\ hits' = hits \union {files[Column(k)].by}
  /\ scanning' = scanning \ {k}
  /\ UNCHANGED <<writerVars, files, held, quiet, reader, listed, returned>>

\* A column that is not there or not whole: the search returns an error.
FailSearch ==
  /\ reader = "search"
  /\ \/ \E k \in scanning : ~files[Column(k)].full
     \/ scanning = {} /\ hits # {} /\ ~held.full
  /\ reader' = "open"
  /\ scanning' = {}
  /\ hits' = {}
  /\ UNCHANGED <<writerVars, files, held, quiet, listed, returned>>

\* retrieve_doc: terms are looked up in the dictionary that is held open.
RetrieveDocs ==
  /\ reader = "search"
  /\ scanning = {}
  /\ hits # {} => held.full
  /\ returned' = {[dictionary |-> held.by, templates |-> listed, column |-> r] :
                  r \in hits}
  /\ reader' = "open"
  /\ hits' = {}
  /\ UNCHANGED <<writerVars, files, held, quiet, listed, scanning>>

Next ==
  \/ \E n \in 0 .. MaxTemplates : StartIndexFile(n) \/ StartIndex(n)
  \/ \E path \in Paths : RemoveFile(path)
  \/ RemoveDir \/ CreateDir
  \/ CreateDictionary \/ FinishDictionary
  \/ CreateTemplates \/ FlushTemplates
  \/ \E k \in Columns : CreateColumn(k) \/ WriteColumn(k)
  \/ ReturnOk \/ Stop
  \/ OpenDictionary \/ ReadTemplates \/ Close
  \/ StartSearch \/ FailSearch \/ RetrieveDocs
  \/ \E k \in Columns : ReadColumn(k)

Spec == Init /\ [][Next]_vars

-----------------------------------------------------------------------------
(* Properties.                                                             *)

IndexFolderTypeOK ==
  /\ exists \in BOOLEAN
  /\ files \in [Paths -> File \union {NoFile}]
  /\ run \in 0 .. MaxRuns
  /\ program \in Programs \union {"none"}
  /\ size \in [Runs -> 0 .. MaxTemplates]
  /\ stage \in {"idle", "remove", "create_dir", "dictionary", "finish_dictionary",
                "templates", "flush_templates", "columns", "write_column"}
  /\ columns \subseteq Columns
  /\ ok \in BOOLEAN /\ clean \in BOOLEAN /\ quiet \in BOOLEAN
  /\ reader \in {"closed", "dictionary", "open", "search"}
  /\ held \in File \union {NoFile}
  /\ listed \in 0 .. MaxRuns
  /\ scanning \subseteq Columns
  /\ hits \subseteq Runs
  /\ returned \subseteq Document

(* After a run that returned Ok, nothing a reader can come by is older:    *)
(* every file the templates name is whole and of that run, whatever was    *)
(* left in the folder before.  Only the end of the dictionary may be       *)
(* missing, and then no reader gets past it.                               *)
NothingStaleAfterOk ==
  stage = "idle" /\ ok =>
    /\ files[Dictionary].by = run
    /\ files[Templates].by = run /\ files[Templates].full
    /\ \A k \in 0 .. size[run] - 1 :
         files[Column(k)].by = run /\ files[Column(k)].full

(* The command line never leaves files of two runs side by side, wherever  *)
(* its runs stopped: not even an interrupted removal or an interrupted run *)
(* after an interrupted removal.                                           *)
FilesOfOneRun ==
  clean => \A p, q \in Paths :
             Present(p) /\ Present(q) => files[p].by = files[q].by

(* A search gives back documents of a single run if no run was active from *)
(* the opening of the index to the search's end and only the command line  *)
(* used the folder; of the last run if that returned Ok, whoever it was.   *)
QuietReadersSeeOneRun ==
  reader # "closed" /\ quiet =>
    \A doc \in returned :
      /\ clean => doc.dictionary = doc.templates /\ doc.templates = doc.column
      /\ ok => doc = [dictionary |-> run, templates |-> run, column |-> run]

(* The command line may run while an index is open: the dictionary that is *)
(* held open never changes under the reader, whose ordinals come from it.  *)
CommandLineSparesReaders ==
  [][program' = "cli" /\ stage # "idle" /\ reader # "closed" /\ reader' = reader
       => held' = held]_vars
=============================================================================
