------------------------------ MODULE Cleanup ------------------------------
(***************************************************************************)
(* A cleanup task of mapproxy-seed on a file cache (simple_cleanup in      *)
(* seed/cleanup.py, cleanup_directory in util/fs.py) while the servers go  *)
(* on storing tiles (FileCache.store_tile, ensure_directory,               *)
(* write_atomic).                                                          *)
(*                                                                         *)
(* Each level has a directory with one directory of tiles below it; the    *)
(* directories of the real layouts in between behave like either.  The     *)
(* task is the default one, which removes what is older than its start: a  *)
(* file's mtime is the number of sessions (starts of mapproxy-seed) so far *)
(* when it was written, and session k removes the files of sessions < k.   *)
(***************************************************************************)
EXTENDS Naturals, FiniteSets

CONSTANTS
  NLevels,     \* levels 1 .. NLevels of the task, in this order
  Tiles,
  LevelOf,     \* LevelOf[t]: level of tile t
  Servers,     \* threads and processes that store tiles
  MaxSessions  \* bound on the starts of mapproxy-seed

ASSUME LevelsAssumption == NLevels \in Nat \ {0} /\ MaxSessions \in Nat \ {0}
ASSUME TilesAssumption == LevelOf \in [Tiles -> 1 .. NLevels] /\ Tiles \cap Servers = {}
ASSUME NamesAssumption == "none" \notin Tiles \cup Servers

Levels == 1 .. NLevels
\* File names: each tile, and the temporary file of each server.
Names == Tiles \cup Servers

VARIABLES
  levelDir,    \* levelDir[l]: the directory of the level exists
  tileDir,     \* tileDir[l]: so does the one below it
  mtime,       \* mtime[n]: of the file, or NoFile
  session,     \* starts of mapproxy-seed so far
  cpc,         \* step of the cleanup
  level,       \* current level of simple_cleanup
  names,       \* file names of the listing that are not handled yet
  name,        \* the file that is to be removed
  progress,    \* progress store on disk: level, 0: none
  oldProgress, \* the value the session has read at its start
  spc,         \* spc[s]: step of the server
  tile,        \* tile[s]: the tile it stores
  renewed,     \* history: tiles that were stored since the first start
  raced        \* history: tiles that were stored since the last os.lstat

dirVars == <<levelDir, tileDir>>
cleanVars == <<session, cpc, level, names, name, progress, oldProgress>>
serverVars == <<spc, tile, renewed, raced>>
vars == <<dirVars, mtime, cleanVars, serverVars>>

NoFile == MaxSessions + 1
NoName == "none"
NoTile == "none"
Running == {"level", "enter", "walk", "listdir", "rmdir", "check", "remove", "prune", "leave"}
Storing == {"isdir", "islevel", "mkdirs", "mkdir", "open", "rename"}

LevelOfName(n) == IF n \in Tiles THEN LevelOf[n]
                  ELSE IF tile[n] = NoTile THEN 0 ELSE LevelOf[tile[n]]
Files(l) == {n \in Names : LevelOfName(n) = l /\ mtime[n] # NoFile}

Init ==
  /\ mtime \in [Names -> {0, NoFile}]
  /\ \A s \in Servers : mtime[s] = NoFile
  /\ tileDir \in [Levels -> BOOLEAN]
  /\ \A t \in Tiles : mtime[t] = 0 => tileDir[LevelOf[t]]
  /\ levelDir = tileDir
  /\ session = 0 /\ cpc = "idle" /\ level = 0 /\ names = {} /\ name = NoName
  /\ progress = 0 /\ oldProgress = 0
  /\ spc = [s \in Servers |-> "idle"]
  /\ tile = [s \in Servers |-> NoTile]
  /\ renewed = {} /\ raced = {}

-----------------------------------------------------------------------------
(* mapproxy-seed *)

CGoto(state) == cpc' = state

\* The program starts, with --continue or from the beginning.
StartCleanup ==
  /\ cpc \in {"idle", "done"} /\ session < MaxSessions
  /\ session' = session + 1
  /\ oldProgress' \in {0, progress}
  /\ level' = 0
  /\ CGoto("level")
  /\ renewed' = IF session = 0 THEN {} ELSE renewed
  /\ raced' = {}
  /\ UNCHANGED <<dirVars, mtime, names, name, progress, spc, tile>>

\* Mutant: the stored level counts as processed.
SkipStored(l) == l <= oldProgress

\* already_processed: the level's directory sorts before the stored one.
Skip(l) == l < oldProgress

\* Mutant: progress is stored when the level is chosen, skipped or not, and
\* names the level that comes next.
StoreAhead ==
  /\ cpc = "level" /\ level < NLevels
  /\ level' = level + 1
  /\ IF Skip(level + 1)
       THEN UNCHANGED <<cpc, progress>>
       ELSE CGoto("enter") /\ progress' = level + 2
  /\ UNCHANGED <<dirVars, mtime, session, names, name, oldProgress, serverVars>>

\* The next level of simple_cleanup: progress is stored before the work.
NextLevel ==
  /\ cpc = "level" /\ level < NLevels
  /\ level' = level + 1
  /\ IF Skip(level + 1)
       THEN UNCHANGED <<cpc, progress>>
       ELSE CGoto("enter") /\ progress' = level + 1
  /\ UNCHANGED <<dirVars, mtime, session, names, name, oldProgress, serverVars>>

\* All levels are done: the progress file is removed.
Finish ==
  /\ cpc = "level" /\ level = NLevels
  /\ CGoto("done")
  /\ progress' = 0
  /\ UNCHANGED <<dirVars, mtime, session, level, names, name, oldProgress, serverVars>>

\* Mutant: the directory of a level that is done is removed as it is.
RemoveTree == levelDir' = [levelDir EXCEPT ![level] = FALSE]

\* remove_dir_if_empty(level_dir): rmdir, which fails on one with entries.
RemoveLevelDir == levelDir' = [levelDir EXCEPT ![level] = @ /\ tileDir[level]]

\* cleanup_directory: exists and is not just an empty directory?
Enter ==
  /\ cpc = "enter"
  /\ RemoveLevelDir
  /\ CGoto(IF levelDir'[level] THEN "walk" ELSE "level")
  /\ UNCHANGED <<tileDir, mtime, session, level, names, name, progress, oldProgress, serverVars>>

\* os.walk, bottom up, lists the directories and yields the names.  An entry
\* that appears later is not in the list.  The listing of the level and that of
\* the directory below it are one step: only the cleanup removes directories,
\* and one that is made between the two has only new files.
Walk ==
  /\ cpc = "walk"
  /\ names' = IF tileDir[level] THEN Files(level) ELSE {}
  /\ CGoto(CASE ~tileDir[level] -> "leave"
             [] tileDir[level] /\ Files(level) = {} -> "listdir"
             [] OTHER -> "check")
  /\ UNCHANGED <<dirVars, mtime, session, level, name, progress, oldProgress, serverVars>>

\* not os.listdir(dirpath)
ListDir ==
  /\ cpc = "listdir"
  /\ CGoto(IF Files(level) = {} THEN "rmdir" ELSE "leave")
  /\ UNCHANGED <<dirVars, mtime, session, level, names, name, progress, oldProgress, serverVars>>

\* os.rmdir(dirpath) is not guarded: when a file has appeared since, ENOTEMPTY
\* ends the program.
RmDir ==
  /\ cpc = "rmdir"
  /\ IF Files(level) = {}
       THEN tileDir' = [tileDir EXCEPT ![level] = FALSE] /\ CGoto("leave") /\ UNCHANGED <<level>>
       ELSE CGoto("idle") /\ level' = 0 /\ UNCHANGED tileDir
  /\ UNCHANGED <<levelDir, mtime, session, names, name, progress, oldProgress, serverVars>>

\* Mutant: st_mtime <= before_timestamp.
DueOrNew(n) == mtime[n] <= session

\* Older than remove_timestamp?
Due(n) == mtime[n] < session

\* os.lstat of the next file; a file that is gone is passed over.
Check(n) ==
  /\ cpc = "check" /\ n \in names
  /\ names' = names \ {n}
  /\ IF mtime[n] # NoFile /\ Due(n)
       THEN CGoto("remove") /\ name' = n
       ELSE CGoto(IF names = {n} THEN "prune" ELSE "check") /\ UNCHANGED name
  /\ raced' = {}
  /\ UNCHANGED <<dirVars, mtime, session, level, progress, oldProgress, spc, tile, renewed>>

\* Mutant: a file that vanished ends the loop over the directory.
StopAtMissing ==
  /\ cpc = "remove"
  /\ mtime' = [mtime EXCEPT ![name] = NoFile]
  /\ names' = IF mtime[name] = NoFile THEN {} ELSE names
  /\ name' = NoName
  /\ CGoto(IF names' = {} THEN "prune" ELSE "check")
  /\ UNCHANGED <<dirVars, session, level, progress, oldProgress, serverVars>>

\* os.remove, or the ENOENT that is ignored.  What has the name by now is
\* removed: a new tile too.
Remove ==
  /\ cpc = "remove"
  /\ mtime' = [mtime EXCEPT ![name] = NoFile]
  /\ name' = NoName
  /\ CGoto(IF names = {} THEN "prune" ELSE "check")
  /\ UNCHANGED <<dirVars, session, level, names, progress, oldProgress, serverVars>>

\* remove_dir_if_empty(dirpath)
Prune ==
  /\ cpc = "prune"
  /\ tileDir' = [tileDir EXCEPT ![level] = @ /\ Files(level) # {}]
  /\ CGoto("leave")
  /\ UNCHANGED <<levelDir, mtime, session, level, names, name, progress, oldProgress, serverVars>>

\* remove_dir_if_empty(directory)
Leave ==
  /\ cpc = "leave"
  /\ RemoveLevelDir
  /\ CGoto("level")
  /\ UNCHANGED <<tileDir, mtime, session, level, names, name, progress, oldProgress, serverVars>>

\* mapproxy-seed is killed or interrupted.
Interrupt ==
  /\ cpc \in Running
  /\ CGoto("idle") /\ level' = 0 /\ names' = {} /\ name' = NoName
  /\ UNCHANGED <<dirVars, mtime, session, progress, oldProgress, serverVars>>

-----------------------------------------------------------------------------
(* A server stores a tile *)

SGoto(s, state) == spc' = [spc EXCEPT ![s] = state]
Return(s) == SGoto(s, "idle") /\ tile' = [tile EXCEPT ![s] = NoTile]
LevelIn(s) == LevelOf[tile[s]]

StoreTile(s, t) ==
  /\ spc[s] = "idle"
  /\ tile' = [tile EXCEPT ![s] = t]
  /\ SGoto(s, "isdir")
  /\ UNCHANGED <<dirVars, mtime, cleanVars, renewed, raced>>

\* ensure_directory: is the directory there?
IsDir(s) ==
  /\ spc[s] = "isdir"
  /\ SGoto(s, IF tileDir[LevelIn(s)] THEN "open" ELSE "islevel")
  /\ UNCHANGED <<dirVars, mtime, cleanVars, tile, renewed, raced>>

\* The recursive call asks for the directory above.
IsLevelDir(s) ==
  /\ spc[s] = "islevel"
  /\ SGoto(s, IF levelDir[LevelIn(s)] THEN "mkdir" ELSE "mkdirs")
  /\ UNCHANGED <<dirVars, mtime, cleanVars, tile, renewed, raced>>

\* os.mkdir of the level's directory; EEXIST is ignored.
MkLevelDir(s) ==
  /\ spc[s] = "mkdirs"
  /\ levelDir' = [levelDir EXCEPT ![LevelIn(s)] = TRUE]
  /\ SGoto(s, "mkdir")
  /\ UNCHANGED <<tileDir, mtime, cleanVars, tile, renewed, raced>>

\* os.mkdir of the tile's directory; without its parent ENOENT is raised.
MkDir(s) ==
  /\ spc[s] = "mkdir"
  /\ IF levelDir[LevelIn(s)]
       THEN /\ tileDir' = [tileDir EXCEPT ![LevelIn(s)] = TRUE]
            /\ SGoto(s, "open") /\ UNCHANGED tile
       ELSE Return(s) /\ UNCHANGED tileDir
  /\ UNCHANGED <<levelDir, mtime, cleanVars, renewed, raced>>

\* write_atomic: the temporary file is written; ENOENT if the directory is gone.
\* Its random name is not one the cleanup has listed before.
OpenTemp(s) ==
  /\ spc[s] = "open" /\ s \notin names \cup {name}
  /\ IF tileDir[LevelIn(s)]
       THEN mtime' = [mtime EXCEPT ![s] = session] /\ SGoto(s, "rename") /\ UNCHANGED tile
       ELSE Return(s) /\ UNCHANGED mtime
  /\ UNCHANGED <<dirVars, cleanVars, renewed, raced>>

\* os.rename replaces the tile, or raises when the temporary file is gone.
Rename(s) ==
  /\ spc[s] = "rename"
  /\ IF mtime[s] = NoFile
       THEN UNCHANGED <<mtime, renewed, raced>>
       ELSE /\ mtime' = [mtime EXCEPT ![tile[s]] = mtime[s], ![s] = NoFile]
            /\ renewed' = renewed \cup {tile[s]}
            /\ raced' = raced \cup {tile[s]}
  /\ Return(s)
  /\ UNCHANGED <<dirVars, cleanVars>>

\* The server dies for good.  A temporary file stays.
Die(s) ==
  /\ spc[s] \in Storing
  /\ SGoto(s, "dead")
  /\ UNCHANGED <<dirVars, mtime, cleanVars, tile, renewed, raced>>

-----------------------------------------------------------------------------
Handle == \E n \in Names : Check(n)
Clean == \/ NextLevel \/ Finish \/ Enter \/ Walk \/ ListDir \/ RmDir
         \/ Handle \/ Remove \/ Prune \/ Leave
Store(s) == \/ IsDir(s) \/ IsLevelDir(s) \/ MkLevelDir(s) \/ MkDir(s)
            \/ OpenTemp(s) \/ Rename(s)

Next ==
  \/ StartCleanup \/ Clean \/ Interrupt
  \/ \E s \in Servers : (\E t \in Tiles : StoreTile(s, t)) \/ Store(s) \/ Die(s)

Spec == Init /\ [][Next]_vars

-----------------------------------------------------------------------------
(* Properties *)

Types ==
  /\ levelDir \in [Levels -> BOOLEAN] /\ tileDir \in [Levels -> BOOLEAN]
  /\ mtime \in [Names -> 0 .. NoFile]
  /\ session \in 0 .. MaxSessions
  /\ cpc \in Running \cup {"idle", "done"} /\ level \in 0 .. NLevels
  /\ names \subseteq Names /\ name \in Names \cup {NoName}
  /\ progress \in 0 .. NLevels /\ oldProgress \in 0 .. NLevels
  /\ spc \in [Servers -> Storing \cup {"idle", "dead"}]
  /\ tile \in [Servers -> Tiles \cup {NoTile}]
  /\ renewed \subseteq Tiles /\ raced \subseteq renewed

FilesInDirs ==
  \A l \in Levels : (Files(l) # {} => tileDir[l]) /\ (tileDir[l] => levelDir[l])

\* Types, and that files are in directories that exist: whatever the rmdirs of
\* the cleanup and the mkdirs of the servers meet.
TypeOK == Types /\ FilesInDirs

\* A tile of before the cleanup started.
Leftover(t) == mtime[t] # NoFile /\ t \notin renewed

\* seed.rst: "A `cleanup` can be used to remove old tiles."  When the task ends
\* regularly, in one go or continued after interruptions, only tiles are left that were
\* stored since it was started first.
CleanupComplete == cpc = "done" => \A t \in Tiles : ~Leftover(t)

\* What --continue relies on: the levels before the stored one are clean,
\* whatever was stored, listed or interrupted meanwhile.
StoredProgressIsClean ==
  \A t \in Tiles : LevelOf[t] < progress => ~Leftover(t)

\* seed.rst, remove_before: the default is the start time, "so that newly
\* created tile will not be removed".  The file that is about to be removed
\* is an old one, or took its place after the look at its mtime.
NewTilesStay ==
  cpc = "remove" => mtime[name] < session \/ mtime[name] = NoFile \/ name \in raced
=============================================================================
