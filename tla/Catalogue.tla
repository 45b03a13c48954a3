----------------------------- MODULE Catalogue -----------------------------
(***************************************************************************)
(* SmManager (src/src/system/sm_manager.cpp): the life of a server process *)
(* from main() on (create the database, open it, serve), and the execution *)
(* of CREATE TABLE by its connection threads, down to                      *)
(* RmManager::create_file and open_file (src/src/record/rm_manager.h).     *)
(*                                                                         *)
(* Nothing locks the catalogue, so the steps of two CREATE TABLE           *)
(* statements interleave.  A call of the disk manager is one step.  Adding *)
(* to the map of tables has a beginning and an end: two that overlap are a *)
(* data race, and one of the two may be lost.  Dying of it is a Crash.     *)
(*                                                                         *)
(* open_db, close_db, drop_table, create_index and drop_index are empty    *)
(* functions and have no action but OpenDb.                                *)
(***************************************************************************)
EXTENDS Integers, Sequences, Functions

CONSTANTS
  Connections,
  Tables,              \* table names
  Defs,                \* column definitions: sequences of column lengths
  MaxRecordSize,       \* RM_MAX_RECORD_SIZE
  Faults,              \* the calls that may fail: "mkdir", "open", "write"
  MaxRestarts          \* bound: restarts of the process

VARIABLES
  phase,      \* of main(): down, mkdir, enter, meta, log, leave, open, serve
  restarts,
  cwd,        \* the working directory of the process: "root" or "db"
  dirs,       \* the directories there are
  files,      \* path -> record size in the file header, 0 if there is no header
  opened,     \* the paths in the disk manager's table of open files
  tabs,       \* db_.tabs_: table -> column definition
  fhs,        \* the tables fhs_ has a handle for
  meta,       \* the DB_META_NAME file of each directory: Absent, or the tables in it
  job,        \* per thread: where it is in create_table, and its arguments
  overlapped, \* history: two statements of this process have run at once
  unopened    \* history: the tables whose open_file() threw, of this process

historyVars == <<overlapped, unopened>>
catalogueVars == <<phase, restarts, cwd, dirs, files, opened, tabs, fhs, meta, job,
                   historyVars>>
processVars == <<phase, restarts, cwd, dirs>>

NoTabs == [tab \in {} |-> <<>>]
Absent == [file |-> "absent", tabs |-> NoTabs]
Truncated == [file |-> "empty", tabs |-> NoTabs]
Written(ts) == [file |-> "written", tabs |-> ts]
Idle == [at |-> "idle", tab |-> "", def |-> <<>>, snapshot |-> NoTabs]

With(f, x, y) == [z \in DOMAIN f \cup {x} |-> IF z = x THEN y ELSE f[z]]
RecordSize(def) == FoldFunction(+, 0, def)
Path(tab) == <<cwd, tab>>

CatalogueInit ==
  /\ phase = "down"
  /\ restarts = 0
  /\ cwd = "root"
  /\ dirs = {"root"}
  /\ files = [p \in {} |-> 0]
  /\ opened = {}
  /\ tabs = NoTabs
  /\ fhs = {}
  /\ meta = [d \in {"root", "db"} |-> Absent]
  /\ job = [t \in Connections |-> Idle]
  /\ overlapped = FALSE
  /\ unopened = {}
-----------------------------------------------------------------------------
(* main() and create_db(). *)
MainStep(from, to) == phase = from /\ phase' = to

Start ==
  /\ restarts < MaxRestarts
  /\ MainStep("down", IF "db" \in dirs THEN "open" ELSE "mkdir")
  /\ restarts' = restarts + 1
  /\ UNCHANGED <<cwd, dirs, files, opened, tabs, fhs, meta, job, historyVars>>

\* system() tells a mkdir that failed from one that did not by a value create_db
\* does not look at; chdir then fails, and main exits.
MakeDir ==
  /\ MainStep("mkdir", "enter")
  /\ \/ dirs' = dirs \cup {"db"}
     \/ "mkdir" \in Faults /\ UNCHANGED dirs
  /\ UNCHANGED <<restarts, cwd, files, opened, tabs, fhs, meta, job, historyVars>>

EnterDir ==
  /\ IF "db" \in dirs
     THEN MainStep("enter", "meta") /\ cwd' = "db"
     ELSE MainStep("enter", "down") /\ UNCHANGED cwd
  /\ UNCHANGED <<restarts, dirs, files, opened, tabs, fhs, meta, job, historyVars>>

\* The stream makes the file; what it is given stays in its buffer.
OpenMeta ==
  /\ MainStep("meta", "log")
  /\ meta' = [meta EXCEPT ![cwd] = Truncated]
  /\ UNCHANGED <<restarts, cwd, dirs, files, opened, tabs, fhs, job, historyVars>>

CreateLog ==
  /\ MainStep("log", "leave")
  /\ files' = With(files, Path("log"), 0)
  /\ UNCHANGED <<restarts, cwd, dirs, opened, tabs, fhs, meta, job, historyVars>>

\* Back to the root directory; the stream is closed when create_db returns.
LeaveDir ==
  /\ MainStep("leave", "open")
  /\ cwd' = "root"
  /\ meta' = [meta EXCEPT !["db"] = Written(NoTabs)]
  /\ UNCHANGED <<restarts, dirs, files, opened, tabs, fhs, job, historyVars>>

OpenDb ==
  /\ MainStep("open", "serve")
  /\ UNCHANGED <<restarts, cwd, dirs, files, opened, tabs, fhs, meta, job, historyVars>>

\* The process ends: what it had in memory is gone.
Crash ==
  /\ phase # "down"
  /\ phase' = "down"
  /\ cwd' = "root"
  /\ opened' = {}
  /\ tabs' = NoTabs
  /\ fhs' = {}
  /\ job' = [t \in Connections |-> Idle]
  /\ overlapped' = FALSE
  /\ unopened' = {}
  /\ UNCHANGED <<restarts, dirs, files, meta>>
-----------------------------------------------------------------------------
(* create_table(). *)
JobAt(t, label) == phase = "serve" /\ job[t].at = label
JobGo(t, label) == job' = [job EXCEPT ![t].at = label]
Fail(t) == job' = [job EXCEPT ![t] = Idle]

\* is_table, and the record size that create_file refuses.  TableExistsError and
\* InvalidRecordSizeError change nothing.
CreateTable(t, tab, def) ==
  /\ JobAt(t, "idle")
  /\ tab \notin DOMAIN tabs
  /\ RecordSize(def) \in 1 .. MaxRecordSize
  /\ job' = [job EXCEPT ![t] =
       [at |-> "create", tab |-> tab, def |-> def, snapshot |-> NoTabs]]
  /\ overlapped' = (overlapped \/ \E u \in Connections \ {t} : job[u] # Idle)
  /\ UNCHANGED <<processVars, unopened, files, opened, tabs, fhs, meta>>

\* Mutant: the file is made whether it exists or not.
CreateTableFileAnyway(t) ==
  /\ JobAt(t, "create")
  /\ files' = With(files, Path(job[t].tab), 0)
  /\ JobGo(t, "open")
  /\ UNCHANGED <<processVars, historyVars, opened, tabs, fhs, meta>>

\* DiskManager::create_file, or FileExistsError.
CreateTableFile(t) ==
  /\ JobAt(t, "create")
  /\ IF Path(job[t].tab) \in DOMAIN files
     THEN Fail(t) /\ UNCHANGED files
     ELSE files' = With(files, Path(job[t].tab), 0) /\ JobGo(t, "open")
  /\ UNCHANGED <<processVars, historyVars, opened, tabs, fhs, meta>>

\* DiskManager::open_file, called by create_file and by open_file.
OpenFile(t, from, to) ==
  /\ JobAt(t, from)
  /\ \/ opened' = opened \cup {Path(job[t].tab)} /\ JobGo(t, to)
     \/ "open" \in Faults /\ Fail(t) /\ UNCHANGED opened
  /\ UNCHANGED <<processVars, overlapped, files, tabs, fhs, meta>>
OpenToWrite(t) == OpenFile(t, "open", "write") /\ UNCHANGED unopened
OpenHandle(t) ==
  /\ OpenFile(t, "handle", "emplace")
  /\ unopened' = IF job'[t] = Idle THEN unopened \cup {job[t].tab} ELSE unopened

\* The file header is written; a failed write leaves the file, and leaves it open.
WriteHeader(t) ==
  /\ JobAt(t, "write")
  /\ \/ files' = With(files, Path(job[t].tab), RecordSize(job[t].def)) /\ JobGo(t, "close")
     \/ "write" \in Faults /\ Fail(t) /\ UNCHANGED files
  /\ UNCHANGED <<processVars, historyVars, opened, tabs, fhs, meta>>

CloseFile(t) ==
  /\ JobAt(t, "close")
  /\ opened' = opened \ {Path(job[t].tab)}
  /\ JobGo(t, "tabs")
  /\ UNCHANGED <<processVars, historyVars, files, tabs, fhs, meta>>

\* db_.tabs_[tab_name] = tab.
Inserting == {t \in Connections : job[t].at = "inserting"}
InsertBegin(t) ==
  /\ JobAt(t, "tabs")
  /\ JobGo(t, "inserting")
  /\ UNCHANGED <<processVars, historyVars, files, opened, tabs, fhs, meta>>
InsertEnd(t) ==
  /\ JobAt(t, "inserting")
  /\ \/ tabs' = With(tabs, job[t].tab, job[t].def)
     \/ Inserting # {t} /\ UNCHANGED tabs
  /\ JobGo(t, "handle")
  /\ UNCHANGED <<processVars, historyVars, files, opened, fhs, meta>>

\* fhs_.emplace of the handle, which RmFileHandle makes by reading the header.
\* Mutant: the handle is not kept.
EmplaceNot(t) ==
  /\ JobAt(t, "emplace")
  /\ JobGo(t, "truncate")
  /\ UNCHANGED <<processVars, historyVars, files, opened, tabs, fhs, meta>>
Emplace(t) ==
  /\ JobAt(t, "emplace")
  /\ fhs' = fhs \cup {job[t].tab}
  /\ JobGo(t, "truncate")
  /\ UNCHANGED <<processVars, historyVars, files, opened, tabs, meta>>

\* flush_meta: opening the stream empties the file, << fills its buffer, and
\* the end of the function writes it.
FlushOpen(t) ==
  /\ JobAt(t, "truncate")
  /\ meta' = [meta EXCEPT ![cwd] = Truncated]
  /\ JobGo(t, "serialise")
  /\ UNCHANGED <<processVars, historyVars, files, opened, tabs, fhs>>

\* Mutant: the metadata is written from an earlier copy.
FlushBufferEarlier(t) ==
  /\ JobAt(t, "serialise")
  /\ job' = [job EXCEPT ![t].at = "flush",
                        ![t].snapshot = [tab \in DOMAIN tabs \ {job[t].tab} |-> tabs[tab]]]
  /\ UNCHANGED <<processVars, historyVars, files, opened, tabs, fhs, meta>>

FlushBuffer(t) ==
  /\ JobAt(t, "serialise")
  /\ job' = [job EXCEPT ![t].at = "flush", ![t].snapshot = tabs]
  /\ UNCHANGED <<processVars, historyVars, files, opened, tabs, fhs, meta>>
FlushClose(t) ==
  /\ JobAt(t, "flush")
  /\ meta' = [meta EXCEPT ![cwd] = Written(job[t].snapshot)]
  /\ Fail(t)
  /\ UNCHANGED <<processVars, historyVars, files, opened, tabs, fhs>>

Execute(t) ==
  \/ \E tab \in Tables, def \in Defs : CreateTable(t, tab, def)
  \/ CreateTableFile(t) \/ OpenToWrite(t) \/ WriteHeader(t) \/ CloseFile(t)
  \/ InsertBegin(t) \/ InsertEnd(t) \/ OpenHandle(t) \/ Emplace(t)
  \/ FlushOpen(t) \/ FlushBuffer(t) \/ FlushClose(t)

CatalogueNext == \/ Start \/ MakeDir \/ EnterDir \/ OpenMeta \/ CreateLog \/ LeaveDir \/ OpenDb
        \/ Crash
        \/ \E t \in Connections : Execute(t)

CatalogueSpec == CatalogueInit /\ [][CatalogueNext]_catalogueVars
-----------------------------------------------------------------------------
\* Whatever statements run at the same time, restarts and failures included, a
\* table of the catalogue has a file whose header holds the record size of the
\* table's columns: the size the scans and inserts of that file work with is
\* the size the offsets of the columns add up to.
HeaderMatchesColumns ==
  \A tab \in DOMAIN tabs : /\ Path(tab) \in DOMAIN files
                           /\ files[Path(tab)] = RecordSize(tabs[tab])

\* Every table of the catalogue whose CREATE TABLE is over has an open handle,
\* whatever statements ran at the same time, unless opening its file failed
\* (sm_manager.h:31 "file name -> record file handle", of every table of the
\* current database: execution looks tables up in fhs_ without a check).
TablesOpen ==
  \A tab \in DOMAIN tabs \ unopened :
    (\A t \in Connections : job[t].tab # tab) => tab \in fhs /\ Path(tab) \in opened

\* Between statements that ran one after the other the metadata file holds the
\* catalogue, unless a file could not be opened (sm_manager.cpp:92,
\* flush_meta: "把数据库相关的元数据刷入磁盘中").
MetaFollowsTables ==
  /\ ~overlapped /\ unopened = {}
  /\ (\A t \in Connections : job[t] = Idle) /\ DOMAIN tabs # {}
  => meta[cwd] = Written(tabs)

\* Once statements are over, the three records of the tables agree: the
\* catalogue in memory, the open handles and the metadata file.
CatalogueSettled == TablesOpen /\ MetaFollowsTables

\* The files of a table are in the directory of the database (sm_manager.cpp:33,
\* create_db: "所有的数据库相关文件都放在数据库同名文件夹下").
FilesInDbDir == \A p \in DOMAIN files : p[1] = "db"

\* Opening a database that was left with tables in its metadata loads them
\* (sm_manager.cpp:84, open_db: "加载数据库元数据和相关文件").
OpenDbLoads ==
  [][OpenDb /\ meta[cwd].file = "written" => tabs' = meta[cwd].tabs]_catalogueVars
=============================================================================
