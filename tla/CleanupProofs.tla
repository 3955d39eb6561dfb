--------------------------- MODULE CleanupProofs ---------------------------
(***************************************************************************)
(* Theorems about Cleanup, for any number of levels, tiles, servers and    *)
(* sessions.                                                               *)
(***************************************************************************)
EXTENDS Cleanup, TLAPS

\* Where the task is, the level and the name it works on exist.
PlaceInv ==
  /\ cpc \in Running \ {"level"} => level \in Levels
  /\ cpc = "remove" => name \in Names

\* A temporary file belongs to a server that is about to rename it, or dead.
TempInv ==
  \A s \in Servers : /\ mtime[s] # NoFile => spc[s] \in {"rename", "dead"}
                     /\ spc[s] \in Storing \cup {"dead"} => tile[s] \in Tiles

\* Before the first start nothing is recorded.
FirstInv == session = 0 => cpc = "idle" /\ progress = 0 /\ oldProgress = 0 /\ level = 0

\* Files of before the first start have the oldest mtime.
AgeInv ==
  /\ session = 0 => \A n \in Names : mtime[n] \in {0, NoFile}
  /\ \A t \in Tiles : Leftover(t) => mtime[t] = 0

\* Where the task has been, no old tile is left; on the current level those
\* that are left are still on its list.
WorkInv ==
  \A t \in Tiles : Leftover(t) =>
    /\ LevelOf[t] >= progress /\ LevelOf[t] >= oldProgress
    /\ cpc # "done"
    /\ cpc \in Running => LevelOf[t] >= level
    /\ cpc \in {"level", "listdir", "rmdir", "prune", "leave"} => LevelOf[t] # level
    /\ cpc = "check" /\ LevelOf[t] = level => t \in names
    /\ cpc = "remove" /\ LevelOf[t] = level => t \in names \cup {name}

CleanupInv == TypeOK /\ PlaceInv /\ TempInv /\ FirstInv /\ AgeInv /\ WorkInv

\* The listing of a directory has names of files.
LEMMA FilesAreNames == \A l : Files(l) \subseteq Names
BY DEF Files

\* Types are preserved.
LEMMA TypesStep == ASSUME CleanupInv, Next PROVE Types'
<1>1. CASE StartCleanup
  BY <1>1, LevelsAssumption, TilesAssumption DEF CleanupInv, TypeOK, Types,
       Levels, Names, Running, Storing, NoFile, NoName, NoTile, PlaceInv,
       TempInv, StartCleanup, CGoto, dirVars, cleanVars, serverVars
<1>2. CASE NextLevel
  BY <1>2, LevelsAssumption, TilesAssumption DEF CleanupInv, TypeOK, Types,
       Levels, Names, Running, Storing, NoFile, NoName, NoTile, PlaceInv,
       TempInv, NextLevel, CGoto, Skip, dirVars, cleanVars, serverVars
<1>3. CASE Finish
  BY <1>3, LevelsAssumption, TilesAssumption DEF CleanupInv, TypeOK, Types,
       Levels, Names, Running, Storing, NoFile, NoName, NoTile, PlaceInv,
       TempInv, Finish, CGoto, dirVars, cleanVars, serverVars
<1>4. CASE Enter
  BY <1>4, LevelsAssumption, TilesAssumption DEF CleanupInv, TypeOK, Types,
       Levels, Names, Running, Storing, NoFile, NoName, NoTile, PlaceInv,
       TempInv, Enter, CGoto, RemoveLevelDir, dirVars, cleanVars, serverVars
<1>5. CASE Walk
  <2>1. names' \subseteq Names
    BY <1>5, FilesAreNames DEF Walk
  <2>2. cpc' \in Running
    BY <1>5 DEF Walk, CGoto, Running
  <2>. QED
    BY <1>5, <2>1, <2>2 DEF CleanupInv, TypeOK, Types, Walk, dirVars, serverVars
<1>6. CASE ListDir
  BY <1>6, LevelsAssumption, TilesAssumption DEF CleanupInv, TypeOK, Types,
       Levels, Names, Running, Storing, NoFile, NoName, NoTile, PlaceInv,
       TempInv, ListDir, CGoto, dirVars, cleanVars, serverVars
<1>7. CASE RmDir
  <2>1. CASE Files(level) = {}
    BY <1>7, <2>1 DEF CleanupInv, TypeOK, Types, RmDir, CGoto, Running, serverVars
  <2>2. CASE Files(level) # {}
    BY <1>7, <2>2, LevelsAssumption DEF CleanupInv, TypeOK, Types, RmDir, CGoto, serverVars
  <2>. QED  BY <2>1, <2>2
<1>8. ASSUME NEW n \in Names, Check(n) PROVE Types'
  BY <1>8, LevelsAssumption, TilesAssumption DEF CleanupInv, TypeOK, Types,
       Levels, Names, Running, Storing, NoFile, NoName, NoTile, PlaceInv,
       TempInv, Check, CGoto, Due, dirVars, cleanVars, serverVars
<1>9. CASE Remove
  BY <1>9, LevelsAssumption, TilesAssumption DEF CleanupInv, TypeOK, Types,
       Levels, Names, Running, Storing, NoFile, NoName, NoTile, PlaceInv,
       TempInv, Remove, CGoto, dirVars, cleanVars, serverVars
<1>10. CASE Prune
  BY <1>10, LevelsAssumption, TilesAssumption DEF CleanupInv, TypeOK, Types,
       Levels, Names, Running, Storing, NoFile, NoName, NoTile, PlaceInv,
       TempInv, Prune, CGoto, dirVars, cleanVars, serverVars
<1>11. CASE Leave
  BY <1>11, LevelsAssumption, TilesAssumption DEF CleanupInv, TypeOK, Types,
       Levels, Names, Running, Storing, NoFile, NoName, NoTile, PlaceInv,
       TempInv, Leave, CGoto, RemoveLevelDir, dirVars, cleanVars, serverVars
<1>12. CASE Interrupt
  BY <1>12, LevelsAssumption, TilesAssumption DEF CleanupInv, TypeOK, Types,
       Levels, Names, Running, Storing, NoFile, NoName, NoTile, PlaceInv,
       TempInv, Interrupt, CGoto, dirVars, cleanVars, serverVars
<1>13. ASSUME NEW s \in Servers, NEW t \in Tiles, StoreTile(s, t) PROVE Types'
  BY <1>13, LevelsAssumption, TilesAssumption DEF CleanupInv, TypeOK, Types,
       Levels, Names, Running, Storing, NoFile, NoName, NoTile, PlaceInv,
       TempInv, StoreTile, SGoto, dirVars, cleanVars, serverVars
<1>14. ASSUME NEW s \in Servers, IsDir(s) PROVE Types'
  BY <1>14, LevelsAssumption, TilesAssumption DEF CleanupInv, TypeOK, Types,
       Levels, Names, Running, Storing, NoFile, NoName, NoTile, PlaceInv,
       TempInv, IsDir, SGoto, LevelIn, dirVars, cleanVars, serverVars
<1>15. ASSUME NEW s \in Servers, IsLevelDir(s) PROVE Types'
  BY <1>15, LevelsAssumption, TilesAssumption DEF CleanupInv, TypeOK, Types,
       Levels, Names, Running, Storing, NoFile, NoName, NoTile, PlaceInv,
       TempInv, IsLevelDir, SGoto, LevelIn, dirVars, cleanVars, serverVars
<1>16. ASSUME NEW s \in Servers, MkLevelDir(s) PROVE Types'
  BY <1>16, LevelsAssumption, TilesAssumption DEF CleanupInv, TypeOK, Types,
       Levels, Names, Running, Storing, NoFile, NoName, NoTile, PlaceInv,
       TempInv, MkLevelDir, SGoto, LevelIn, dirVars, cleanVars, serverVars
<1>17. ASSUME NEW s \in Servers, MkDir(s) PROVE Types'
  BY <1>17, LevelsAssumption, TilesAssumption DEF CleanupInv, TypeOK, Types,
       Levels, Names, Running, Storing, NoFile, NoName, NoTile, PlaceInv,
       TempInv, MkDir, SGoto, LevelIn, Return, dirVars, cleanVars, serverVars
<1>18. ASSUME NEW s \in Servers, OpenTemp(s) PROVE Types'
  <2>1. s \in Names /\ session \in 0 .. NoFile /\ NoFile \in Nat
    BY LevelsAssumption DEF CleanupInv, TypeOK, Types, Names, NoFile
  <2>2. mtime' \in [Names -> 0 .. NoFile]
    BY <1>18, <2>1 DEF CleanupInv, TypeOK, Types, OpenTemp
  <2>3. spc' \in [Servers -> Storing \cup {"idle", "dead"}]
    BY <1>18 DEF CleanupInv, TypeOK, Types, OpenTemp, SGoto, Return, Storing
  <2>4. tile' \in [Servers -> Tiles \cup {NoTile}]
    BY <1>18 DEF CleanupInv, TypeOK, Types, OpenTemp, Return
  <2>. QED
    BY <1>18, <2>2, <2>3, <2>4 DEF CleanupInv, TypeOK, Types, OpenTemp, dirVars, cleanVars
<1>19. ASSUME NEW s \in Servers, Rename(s) PROVE Types'
  <2>1. tile[s] \in Tiles /\ s \in Names /\ tile[s] \in Names /\ NoFile \in 0 .. NoFile
    BY <1>19, LevelsAssumption DEF CleanupInv, TempInv, Rename, Storing, Names, NoFile
  <2>2. mtime' \in [Names -> 0 .. NoFile] /\ renewed' \subseteq Tiles /\ raced' \subseteq renewed'
    BY <1>19, <2>1 DEF CleanupInv, TypeOK, Types, Rename
  <2>3. spc' \in [Servers -> Storing \cup {"idle", "dead"}]
    BY <1>19 DEF CleanupInv, TypeOK, Types, Rename, SGoto, Return, Storing
  <2>4. tile' \in [Servers -> Tiles \cup {NoTile}]
    BY <1>19 DEF CleanupInv, TypeOK, Types, Rename, Return
  <2>. QED
    BY <1>19, <2>2, <2>3, <2>4 DEF CleanupInv, TypeOK, Types, Rename, dirVars, cleanVars
<1>20. ASSUME NEW s \in Servers, Die(s) PROVE Types'
  BY <1>20, LevelsAssumption, TilesAssumption DEF CleanupInv, TypeOK, Types,
       Levels, Names, Running, Storing, NoFile, NoName, NoTile, PlaceInv,
       TempInv, Die, SGoto, dirVars, cleanVars, serverVars
<1>. QED
  BY ONLY Next, <1>1, <1>2, <1>3, <1>4, <1>5, <1>6, <1>7, <1>8, <1>9, <1>10,
       <1>11, <1>12, <1>13, <1>14, <1>15, <1>16, <1>17, <1>18, <1>19, <1>20,
       Zenon DEF Next, Clean, Handle, Store

\* The place of the task is preserved.
LEMMA PlaceStep == ASSUME CleanupInv, Next PROVE PlaceInv'
<1>1. CASE StartCleanup
  BY <1>1, LevelsAssumption DEF CleanupInv, TypeOK, Types, Levels, Running,
       PlaceInv, StartCleanup, CGoto, dirVars, cleanVars, serverVars
<1>2. CASE NextLevel
  BY <1>2, LevelsAssumption DEF CleanupInv, TypeOK, Types, Levels, Running,
       PlaceInv, NextLevel, CGoto, Skip, dirVars, cleanVars, serverVars
<1>3. CASE Finish
  BY <1>3, LevelsAssumption DEF CleanupInv, TypeOK, Types, Levels, Running,
       PlaceInv, Finish, CGoto, dirVars, cleanVars, serverVars
<1>4. CASE Enter
  BY <1>4, LevelsAssumption DEF CleanupInv, TypeOK, Types, Levels, Running,
       PlaceInv, Enter, CGoto, RemoveLevelDir, dirVars, cleanVars, serverVars
<1>5. CASE Walk
  BY <1>5, LevelsAssumption DEF CleanupInv, TypeOK, Types, Levels, Running,
       PlaceInv, Walk, CGoto, dirVars, cleanVars, serverVars
<1>6. CASE ListDir
  BY <1>6, LevelsAssumption DEF CleanupInv, TypeOK, Types, Levels, Running,
       PlaceInv, ListDir, CGoto, dirVars, cleanVars, serverVars
<1>7. CASE RmDir
  BY <1>7, LevelsAssumption DEF CleanupInv, TypeOK, Types, Levels, Running,
       PlaceInv, RmDir, CGoto, dirVars, cleanVars, serverVars
<1>8. ASSUME NEW n \in Names, Check(n) PROVE PlaceInv'
  BY <1>8, LevelsAssumption DEF CleanupInv, TypeOK, Types, Levels, Running,
       PlaceInv, Check, CGoto, Due, dirVars, cleanVars, serverVars
<1>9. CASE Remove
  BY <1>9, LevelsAssumption DEF CleanupInv, TypeOK, Types, Levels, Running,
       PlaceInv, Remove, CGoto, dirVars, cleanVars, serverVars
<1>10. CASE Prune
  BY <1>10, LevelsAssumption DEF CleanupInv, TypeOK, Types, Levels, Running,
       PlaceInv, Prune, CGoto, dirVars, cleanVars, serverVars
<1>11. CASE Leave
  BY <1>11, LevelsAssumption DEF CleanupInv, TypeOK, Types, Levels, Running,
       PlaceInv, Leave, CGoto, RemoveLevelDir, dirVars, cleanVars, serverVars
<1>12. CASE Interrupt
  BY <1>12, LevelsAssumption DEF CleanupInv, TypeOK, Types, Levels, Running,
       PlaceInv, Interrupt, CGoto, dirVars, cleanVars, serverVars
<1>13. ASSUME NEW s \in Servers, NEW t \in Tiles, StoreTile(s, t) PROVE PlaceInv'
  BY <1>13, LevelsAssumption DEF CleanupInv, TypeOK, Types, Levels, Running,
       PlaceInv, StoreTile, SGoto, dirVars, cleanVars, serverVars
<1>14. ASSUME NEW s \in Servers, IsDir(s) PROVE PlaceInv'
  BY <1>14, LevelsAssumption DEF CleanupInv, TypeOK, Types, Levels, Running,
       PlaceInv, IsDir, SGoto, LevelIn, dirVars, cleanVars, serverVars
<1>15. ASSUME NEW s \in Servers, IsLevelDir(s) PROVE PlaceInv'
  BY <1>15, LevelsAssumption DEF CleanupInv, TypeOK, Types, Levels, Running,
       PlaceInv, IsLevelDir, SGoto, LevelIn, dirVars, cleanVars, serverVars
<1>16. ASSUME NEW s \in Servers, MkLevelDir(s) PROVE PlaceInv'
  BY <1>16, LevelsAssumption DEF CleanupInv, TypeOK, Types, Levels, Running,
       PlaceInv, MkLevelDir, SGoto, LevelIn, dirVars, cleanVars, serverVars
<1>17. ASSUME NEW s \in Servers, MkDir(s) PROVE PlaceInv'
  BY <1>17, LevelsAssumption DEF CleanupInv, TypeOK, Types, Levels, Running,
       PlaceInv, MkDir, SGoto, LevelIn, Return, dirVars, cleanVars, serverVars
<1>18. ASSUME NEW s \in Servers, OpenTemp(s) PROVE PlaceInv'
  BY <1>18, LevelsAssumption DEF CleanupInv, TypeOK, Types, Levels, Running,
       PlaceInv, OpenTemp, SGoto, LevelIn, Return, dirVars, cleanVars,
       serverVars
<1>19. ASSUME NEW s \in Servers, Rename(s) PROVE PlaceInv'
  BY <1>19, LevelsAssumption DEF CleanupInv, TypeOK, Types, Levels, Running,
       PlaceInv, Rename, SGoto, Return, dirVars, cleanVars, serverVars
<1>20. ASSUME NEW s \in Servers, Die(s) PROVE PlaceInv'
  BY <1>20, LevelsAssumption DEF CleanupInv, TypeOK, Types, Levels, Running,
       PlaceInv, Die, SGoto, dirVars, cleanVars, serverVars
<1>. QED
  BY ONLY Next, <1>1, <1>2, <1>3, <1>4, <1>5, <1>6, <1>7, <1>8, <1>9, <1>10,
       <1>11, <1>12, <1>13, <1>14, <1>15, <1>16, <1>17, <1>18, <1>19, <1>20,
       Zenon DEF Next, Clean, Handle, Store

\* Temporary files keep their servers.
LEMMA TempStep == ASSUME CleanupInv, Next PROVE TempInv'
<1>1. CASE StartCleanup
  BY <1>1, TilesAssumption, NamesAssumption DEF CleanupInv, TypeOK, Types,
       Levels, Names, Running, Storing, NoFile, NoName, NoTile, TempInv,
       StartCleanup, CGoto, dirVars, cleanVars, serverVars
<1>2. CASE NextLevel
  BY <1>2, TilesAssumption, NamesAssumption DEF CleanupInv, TypeOK, Types,
       Levels, Names, Running, Storing, NoFile, NoName, NoTile, TempInv,
       NextLevel, CGoto, Skip, dirVars, cleanVars, serverVars
<1>3. CASE Finish
  BY <1>3, TilesAssumption, NamesAssumption DEF CleanupInv, TypeOK, Types,
       Levels, Names, Running, Storing, NoFile, NoName, NoTile, TempInv,
       Finish, CGoto, dirVars, cleanVars, serverVars
<1>4. CASE Enter
  BY <1>4, TilesAssumption, NamesAssumption DEF CleanupInv, TypeOK, Types,
       Levels, Names, Running, Storing, NoFile, NoName, NoTile, TempInv,
       Enter, CGoto, RemoveLevelDir, dirVars, cleanVars, serverVars
<1>5. CASE Walk
  BY <1>5, TilesAssumption, NamesAssumption DEF CleanupInv, TypeOK, Types,
       Levels, Names, Running, Storing, NoFile, NoName, NoTile, TempInv, Walk,
       CGoto, dirVars, cleanVars, serverVars
<1>6. CASE ListDir
  BY <1>6, TilesAssumption, NamesAssumption DEF CleanupInv, TypeOK, Types,
       Levels, Names, Running, Storing, NoFile, NoName, NoTile, TempInv,
       ListDir, CGoto, dirVars, cleanVars, serverVars
<1>7. CASE RmDir
  BY <1>7, TilesAssumption, NamesAssumption DEF CleanupInv, TypeOK, Types,
       Levels, Names, Running, Storing, NoFile, NoName, NoTile, TempInv,
       RmDir, CGoto, dirVars, cleanVars, serverVars
<1>8. ASSUME NEW n \in Names, Check(n) PROVE TempInv'
  BY <1>8, TilesAssumption, NamesAssumption DEF CleanupInv, TypeOK, Types,
       Levels, Names, Running, Storing, NoFile, NoName, NoTile, TempInv,
       Check, CGoto, Due, dirVars, cleanVars, serverVars
<1>9. CASE Remove
  BY <1>9, TilesAssumption, NamesAssumption DEF CleanupInv, TypeOK, Types,
       Levels, Names, Running, Storing, NoFile, NoName, NoTile, TempInv,
       Remove, CGoto, dirVars, cleanVars, serverVars
<1>10. CASE Prune
  BY <1>10, TilesAssumption, NamesAssumption DEF CleanupInv, TypeOK, Types,
       Levels, Names, Running, Storing, NoFile, NoName, NoTile, TempInv,
       Prune, CGoto, dirVars, cleanVars, serverVars
<1>11. CASE Leave
  BY <1>11, TilesAssumption, NamesAssumption DEF CleanupInv, TypeOK, Types,
       Levels, Names, Running, Storing, NoFile, NoName, NoTile, TempInv,
       Leave, CGoto, RemoveLevelDir, dirVars, cleanVars, serverVars
<1>12. CASE Interrupt
  BY <1>12, TilesAssumption, NamesAssumption DEF CleanupInv, TypeOK, Types,
       Levels, Names, Running, Storing, NoFile, NoName, NoTile, TempInv,
       Interrupt, CGoto, dirVars, cleanVars, serverVars
<1>13. ASSUME NEW s \in Servers, NEW t \in Tiles, StoreTile(s, t) PROVE TempInv'
  BY <1>13, TilesAssumption, NamesAssumption DEF CleanupInv, TypeOK, Types,
       Levels, Names, Running, Storing, NoFile, NoName, NoTile, TempInv,
       StoreTile, SGoto, dirVars, cleanVars, serverVars
<1>14. ASSUME NEW s \in Servers, IsDir(s) PROVE TempInv'
  BY <1>14, TilesAssumption, NamesAssumption DEF CleanupInv, TypeOK, Types,
       Levels, Names, Running, Storing, NoFile, NoName, NoTile, TempInv,
       IsDir, SGoto, LevelIn, dirVars, cleanVars, serverVars
<1>15. ASSUME NEW s \in Servers, IsLevelDir(s) PROVE TempInv'
  BY <1>15, TilesAssumption, NamesAssumption DEF CleanupInv, TypeOK, Types,
       Levels, Names, Running, Storing, NoFile, NoName, NoTile, TempInv,
       IsLevelDir, SGoto, LevelIn, dirVars, cleanVars, serverVars
<1>16. ASSUME NEW s \in Servers, MkLevelDir(s) PROVE TempInv'
  BY <1>16, TilesAssumption, NamesAssumption DEF CleanupInv, TypeOK, Types,
       Levels, Names, Running, Storing, NoFile, NoName, NoTile, TempInv,
       MkLevelDir, SGoto, LevelIn, dirVars, cleanVars, serverVars
<1>17. ASSUME NEW s \in Servers, MkDir(s) PROVE TempInv'
  BY <1>17, TilesAssumption, NamesAssumption DEF CleanupInv, TypeOK, Types,
       Levels, Names, Running, Storing, NoFile, NoName, NoTile, TempInv,
       MkDir, SGoto, LevelIn, Return, dirVars, cleanVars, serverVars
<1>18. ASSUME NEW s \in Servers, OpenTemp(s) PROVE TempInv'
  BY <1>18, TilesAssumption, NamesAssumption DEF CleanupInv, TypeOK, Types,
       Levels, Names, Running, Storing, NoFile, NoName, NoTile, TempInv,
       OpenTemp, SGoto, LevelIn, Return, dirVars, cleanVars, serverVars
<1>19. ASSUME NEW s \in Servers, Rename(s) PROVE TempInv'
  BY <1>19, TilesAssumption, NamesAssumption DEF CleanupInv, TypeOK, Types,
       Levels, Names, Running, Storing, NoFile, NoName, NoTile, TempInv,
       Rename, SGoto, Return, dirVars, cleanVars, serverVars
<1>20. ASSUME NEW s \in Servers, Die(s) PROVE TempInv'
  BY <1>20, TilesAssumption, NamesAssumption DEF CleanupInv, TypeOK, Types,
       Levels, Names, Running, Storing, NoFile, NoName, NoTile, TempInv, Die,
       SGoto, dirVars, cleanVars, serverVars
<1>. QED
  BY ONLY Next, <1>1, <1>2, <1>3, <1>4, <1>5, <1>6, <1>7, <1>8, <1>9, <1>10,
       <1>11, <1>12, <1>13, <1>14, <1>15, <1>16, <1>17, <1>18, <1>19, <1>20,
       Zenon DEF Next, Clean, Handle, Store

\* The task works only after a start.
LEMMA FirstStep == ASSUME CleanupInv, Next PROVE FirstInv'
<1>1. CASE StartCleanup
  BY <1>1, LevelsAssumption DEF CleanupInv, TypeOK, Types, Running, FirstInv,
       StartCleanup, CGoto, dirVars, cleanVars, serverVars
<1>2. CASE NextLevel
  BY <1>2, LevelsAssumption DEF CleanupInv, TypeOK, Types, Running, FirstInv,
       NextLevel, CGoto, Skip, dirVars, cleanVars, serverVars
<1>3. CASE Finish
  BY <1>3, LevelsAssumption DEF CleanupInv, TypeOK, Types, Running, FirstInv,
       Finish, CGoto, dirVars, cleanVars, serverVars
<1>4. CASE Enter
  BY <1>4, LevelsAssumption DEF CleanupInv, TypeOK, Types, Running, FirstInv,
       Enter, CGoto, RemoveLevelDir, dirVars, cleanVars, serverVars
<1>5. CASE Walk
  BY <1>5, LevelsAssumption DEF CleanupInv, TypeOK, Types, Running, FirstInv,
       Walk, CGoto, dirVars, cleanVars, serverVars
<1>6. CASE ListDir
  BY <1>6, LevelsAssumption DEF CleanupInv, TypeOK, Types, Running, FirstInv,
       ListDir, CGoto, dirVars, cleanVars, serverVars
<1>7. CASE RmDir
  BY <1>7, LevelsAssumption DEF CleanupInv, TypeOK, Types, Running, FirstInv,
       RmDir, CGoto, dirVars, cleanVars, serverVars
<1>8. ASSUME NEW n \in Names, Check(n) PROVE FirstInv'
  BY <1>8, LevelsAssumption DEF CleanupInv, TypeOK, Types, Running, FirstInv,
       Check, CGoto, Due, dirVars, cleanVars, serverVars
<1>9. CASE Remove
  BY <1>9, LevelsAssumption DEF CleanupInv, TypeOK, Types, Running, FirstInv,
       Remove, CGoto, dirVars, cleanVars, serverVars
<1>10. CASE Prune
  BY <1>10, LevelsAssumption DEF CleanupInv, TypeOK, Types, Running, FirstInv,
       Prune, CGoto, dirVars, cleanVars, serverVars
<1>11. CASE Leave
  BY <1>11, LevelsAssumption DEF CleanupInv, TypeOK, Types, Running, FirstInv,
       Leave, CGoto, RemoveLevelDir, dirVars, cleanVars, serverVars
<1>12. CASE Interrupt
  BY <1>12, LevelsAssumption DEF CleanupInv, TypeOK, Types, Running, FirstInv,
       Interrupt, CGoto, dirVars, cleanVars, serverVars
<1>13. ASSUME NEW s \in Servers, NEW t \in Tiles, StoreTile(s, t) PROVE FirstInv'
  BY <1>13, LevelsAssumption DEF CleanupInv, TypeOK, Types, Running, FirstInv,
       StoreTile, SGoto, dirVars, cleanVars, serverVars
<1>14. ASSUME NEW s \in Servers, IsDir(s) PROVE FirstInv'
  BY <1>14, LevelsAssumption DEF CleanupInv, TypeOK, Types, Running, FirstInv,
       IsDir, SGoto, LevelIn, dirVars, cleanVars, serverVars
<1>15. ASSUME NEW s \in Servers, IsLevelDir(s) PROVE FirstInv'
  BY <1>15, LevelsAssumption DEF CleanupInv, TypeOK, Types, Running, FirstInv,
       IsLevelDir, SGoto, LevelIn, dirVars, cleanVars, serverVars
<1>16. ASSUME NEW s \in Servers, MkLevelDir(s) PROVE FirstInv'
  BY <1>16, LevelsAssumption DEF CleanupInv, TypeOK, Types, Running, FirstInv,
       MkLevelDir, SGoto, LevelIn, dirVars, cleanVars, serverVars
<1>17. ASSUME NEW s \in Servers, MkDir(s) PROVE FirstInv'
  BY <1>17, LevelsAssumption DEF CleanupInv, TypeOK, Types, Running, FirstInv,
       MkDir, SGoto, LevelIn, Return, dirVars, cleanVars, serverVars
<1>18. ASSUME NEW s \in Servers, OpenTemp(s) PROVE FirstInv'
  BY <1>18, LevelsAssumption DEF CleanupInv, TypeOK, Types, Running, FirstInv,
       OpenTemp, SGoto, LevelIn, Return, dirVars, cleanVars, serverVars
<1>19. ASSUME NEW s \in Servers, Rename(s) PROVE FirstInv'
  BY <1>19, LevelsAssumption DEF CleanupInv, TypeOK, Types, Running, FirstInv,
       Rename, SGoto, Return, dirVars, cleanVars, serverVars
<1>20. ASSUME NEW s \in Servers, Die(s) PROVE FirstInv'
  BY <1>20, LevelsAssumption DEF CleanupInv, TypeOK, Types, Running, FirstInv,
       Die, SGoto, dirVars, cleanVars, serverVars
<1>. QED
  BY ONLY Next, <1>1, <1>2, <1>3, <1>4, <1>5, <1>6, <1>7, <1>8, <1>9, <1>10,
       <1>11, <1>12, <1>13, <1>14, <1>15, <1>16, <1>17, <1>18, <1>19, <1>20,
       Zenon DEF Next, Clean, Handle, Store

\* The files of a level depend on their mtimes and on who stores what.
LEMMA SameFiles ==
  ASSUME UNCHANGED <<mtime, tile>>
  PROVE  \A l : Files(l)' = Files(l)
BY DEF Files, LevelOfName

\* A tile's file is one of its level, a temporary file one of the tile's level.
LEMMA LevelsOfNames ==
  /\ \A t \in Tiles : LevelOfName(t) = LevelOf[t] /\ LevelOf[t] \in Levels /\ t \in Names
  /\ \A s \in Servers : tile[s] \in Tiles =>
       LevelOfName(s) = LevelOf[tile[s]] /\ s \in Names /\ s \notin Tiles
BY TilesAssumption, NamesAssumption DEF LevelOfName, Levels, Names, NoTile

\* Files stay in directories that exist.
LEMMA FilesStep == ASSUME CleanupInv, Next PROVE FilesInDirs'
<1>1. CASE StartCleanup
  <2>1. UNCHANGED <<mtime, tile>>
    BY <1>1 DEF StartCleanup, serverVars
  <2>. QED
    BY <1>1, <2>1, SameFiles DEF CleanupInv, TypeOK, FilesInDirs, Types, StartCleanup, dirVars
<1>2. CASE NextLevel
  <2>1. UNCHANGED <<mtime, tile>>
    BY <1>2 DEF NextLevel, serverVars
  <2>. QED
    BY <1>2, <2>1, SameFiles DEF CleanupInv, TypeOK, FilesInDirs, Types, NextLevel, dirVars
<1>3. CASE Finish
  <2>1. UNCHANGED <<mtime, tile>>
    BY <1>3 DEF Finish, serverVars
  <2>. QED
    BY <1>3, <2>1, SameFiles DEF CleanupInv, TypeOK, FilesInDirs, Types, Finish, dirVars
<1>4. CASE Enter
  <2>1. UNCHANGED <<mtime, tile>>
    BY <1>4 DEF Enter, serverVars
  <2>. QED
    BY <1>4, <2>1, SameFiles DEF CleanupInv, TypeOK, FilesInDirs, Types, Enter, RemoveLevelDir, dirVars
<1>5. CASE Walk
  <2>1. UNCHANGED <<mtime, tile>>
    BY <1>5 DEF Walk, serverVars
  <2>. QED
    BY <1>5, <2>1, SameFiles DEF CleanupInv, TypeOK, FilesInDirs, Types, Walk, dirVars
<1>6. CASE ListDir
  <2>1. UNCHANGED <<mtime, tile>>
    BY <1>6 DEF ListDir, serverVars
  <2>. QED
    BY <1>6, <2>1, SameFiles DEF CleanupInv, TypeOK, FilesInDirs, Types, ListDir, dirVars
<1>7. CASE RmDir
  <2>1. UNCHANGED <<mtime, tile>>
    BY <1>7 DEF RmDir, serverVars
  <2>. QED
    BY <1>7, <2>1, SameFiles DEF CleanupInv, TypeOK, FilesInDirs, Types, RmDir, dirVars
<1>8. ASSUME NEW n \in Names, Check(n) PROVE FilesInDirs'
  <2>1. UNCHANGED <<mtime, tile>>
    BY <1>8 DEF Check, serverVars
  <2>. QED
    BY <1>8, <2>1, SameFiles DEF CleanupInv, TypeOK, FilesInDirs, Types, Check, dirVars
<1>9. CASE Remove
  <2>1. \A l : Files(l)' \subseteq Files(l)
    BY <1>9 DEF CleanupInv, TypeOK, Types, Remove, Files, LevelOfName, serverVars
  <2>. QED
    BY <1>9, <2>1 DEF CleanupInv, TypeOK, FilesInDirs, Remove, dirVars
<1>10. CASE Prune
  <2>1. UNCHANGED <<mtime, tile>>
    BY <1>10 DEF Prune, serverVars
  <2>. QED
    BY <1>10, <2>1, SameFiles DEF CleanupInv, TypeOK, FilesInDirs, Types, Prune, dirVars
<1>11. CASE Leave
  <2>1. UNCHANGED <<mtime, tile>>
    BY <1>11 DEF Leave, serverVars
  <2>. QED
    BY <1>11, <2>1, SameFiles DEF CleanupInv, TypeOK, FilesInDirs, Types, Leave, RemoveLevelDir, dirVars
<1>12. CASE Interrupt
  <2>1. UNCHANGED <<mtime, tile>>
    BY <1>12 DEF Interrupt, serverVars
  <2>. QED
    BY <1>12, <2>1, SameFiles DEF CleanupInv, TypeOK, FilesInDirs, Types, Interrupt, dirVars
<1>13. ASSUME NEW s \in Servers, NEW t \in Tiles, StoreTile(s, t) PROVE FilesInDirs'
  <2>1. mtime[s] = NoFile
    BY <1>13 DEF CleanupInv, TempInv, StoreTile
  <2>2. \A l : Files(l)' \subseteq Files(l)
    BY <1>13, <2>1 DEF CleanupInv, TypeOK, Types, StoreTile, Files, LevelOfName
  <2>. QED
    BY <1>13, <2>2 DEF CleanupInv, TypeOK, FilesInDirs, StoreTile, dirVars
<1>14. ASSUME NEW s \in Servers, IsDir(s) PROVE FilesInDirs'
  <2>1. UNCHANGED <<mtime, tile>>
    BY <1>14 DEF IsDir, serverVars
  <2>. QED
    BY <1>14, <2>1, SameFiles DEF CleanupInv, TypeOK, FilesInDirs, Types, IsDir, dirVars
<1>15. ASSUME NEW s \in Servers, IsLevelDir(s) PROVE FilesInDirs'
  <2>1. UNCHANGED <<mtime, tile>>
    BY <1>15 DEF IsLevelDir, serverVars
  <2>. QED
    BY <1>15, <2>1, SameFiles DEF CleanupInv, TypeOK, FilesInDirs, Types, IsLevelDir, dirVars
<1>16. ASSUME NEW s \in Servers, MkLevelDir(s) PROVE FilesInDirs'
  <2>1. UNCHANGED <<mtime, tile>>
    BY <1>16 DEF MkLevelDir, serverVars
  <2>. QED
    BY <1>16, <2>1, SameFiles DEF CleanupInv, TypeOK, FilesInDirs, Types, MkLevelDir, LevelIn, dirVars
<1>17. ASSUME NEW s \in Servers, MkDir(s) PROVE FilesInDirs'
  <2>1. mtime[s] = NoFile /\ tile[s] \in Tiles
    BY <1>17 DEF CleanupInv, TempInv, MkDir, Storing
  <2>2. mtime' = mtime /\ \A u \in Servers : u # s => tile'[u] = tile[u]
    BY <1>17 DEF CleanupInv, TypeOK, Types, MkDir, Return
  <2>3. \A l : Files(l)' \subseteq Files(l)
    BY <2>2, <2>1 DEF Files, LevelOfName, Names
  <2>4. LevelIn(s) \in Levels
    BY <2>1, LevelsOfNames DEF LevelIn
  <2>. QED
    BY <1>17, <2>3, <2>4 DEF CleanupInv, TypeOK, Types, FilesInDirs, MkDir
<1>18. ASSUME NEW s \in Servers, OpenTemp(s) PROVE FilesInDirs'
  <2>1. mtime[s] = NoFile /\ tile[s] \in Tiles
    BY <1>18 DEF CleanupInv, TempInv, OpenTemp, Storing
  <2>2. CASE tileDir[LevelIn(s)]
    <3>1. tile' = tile /\ \A n \in Names : n # s => mtime'[n] = mtime[n]
      BY <1>18, <2>2 DEF CleanupInv, TypeOK, Types, OpenTemp
    <3>2. \A l : Files(l)' \subseteq Files(l) \cup {s}
      BY <3>1 DEF Files, LevelOfName
    <3>3. \A l : s \in Files(l)' => l = LevelIn(s)
      BY <3>1, <2>1, LevelsOfNames DEF Files, LevelOfName, LevelIn
    <3>. QED
      BY <1>18, <2>2, <3>2, <3>3 DEF CleanupInv, TypeOK, FilesInDirs, OpenTemp, dirVars
  <2>3. CASE ~tileDir[LevelIn(s)]
    <3>1. mtime' = mtime /\ \A u \in Servers : u # s => tile'[u] = tile[u]
      BY <1>18, <2>3 DEF CleanupInv, TypeOK, Types, OpenTemp, Return
    <3>2. \A l : Files(l)' \subseteq Files(l)
      BY <3>1, <2>1 DEF Files, LevelOfName, Names
    <3>. QED
      BY <1>18, <3>2 DEF CleanupInv, TypeOK, FilesInDirs, OpenTemp, dirVars
  <2>. QED  BY <2>2, <2>3
<1>19. ASSUME NEW s \in Servers, Rename(s) PROVE FilesInDirs'
  <2>1. tile[s] \in Tiles /\ tile[s] \in Names /\ s \in Names /\ s # tile[s]
    BY <1>19, TilesAssumption DEF CleanupInv, TempInv, Rename, Storing, Names
  <2>2. \A n \in Names : n # s => LevelOfName(n)' = LevelOfName(n)
    BY <1>19 DEF CleanupInv, TypeOK, Types, Rename, Return, LevelOfName, Names
  <2>3. mtime'[s] = NoFile
    BY <1>19, <2>1 DEF CleanupInv, TypeOK, Types, Rename
  <2>4. \A n \in Names \ {s, tile[s]} : mtime'[n] = mtime[n]
    BY <1>19, <2>1 DEF CleanupInv, TypeOK, Types, Rename
  <2>5. mtime'[tile[s]] # NoFile => mtime[s] # NoFile \/ mtime[tile[s]] # NoFile
    BY <1>19, <2>1 DEF CleanupInv, TypeOK, Types, Rename
  <2>6. LevelOfName(s) = LevelOfName(tile[s])
    BY <2>1, LevelsOfNames
  <2>7. \A l : Files(l)' # {} => Files(l) # {}
    BY <2>1, <2>2, <2>3, <2>4, <2>5, <2>6 DEF Files
  <2>. QED
    BY <1>19, <2>7 DEF CleanupInv, TypeOK, FilesInDirs, Rename, dirVars
<1>20. ASSUME NEW s \in Servers, Die(s) PROVE FilesInDirs'
  <2>1. UNCHANGED <<mtime, tile>>
    BY <1>20 DEF Die, serverVars
  <2>. QED
    BY <1>20, <2>1, SameFiles DEF CleanupInv, TypeOK, FilesInDirs, Types, Die, dirVars
<1>. QED
  BY ONLY Next, <1>1, <1>2, <1>3, <1>4, <1>5, <1>6, <1>7, <1>8, <1>9, <1>10,
       <1>11, <1>12, <1>13, <1>14, <1>15, <1>16, <1>17, <1>18, <1>19, <1>20,
       Zenon DEF Next, Clean, Handle, Store

\* Old files keep their mtime, and no file becomes an old one.
LEMMA AgeStep == ASSUME CleanupInv, Next PROVE AgeInv'
<1>1. CASE StartCleanup
  BY <1>1, LevelsAssumption, TilesAssumption DEF CleanupInv, TypeOK, Types,
       Names, Running, NoFile, FirstInv, TempInv, AgeInv, Leftover, Storing,
       StartCleanup, CGoto, dirVars, cleanVars, serverVars
<1>2. CASE NextLevel
  BY <1>2, LevelsAssumption, TilesAssumption DEF CleanupInv, TypeOK, Types,
       Names, Running, NoFile, FirstInv, TempInv, AgeInv, Leftover, Storing,
       NextLevel, CGoto, Skip, dirVars, cleanVars, serverVars
<1>3. CASE Finish
  BY <1>3, LevelsAssumption, TilesAssumption DEF CleanupInv, TypeOK, Types,
       Names, Running, NoFile, FirstInv, TempInv, AgeInv, Leftover, Storing,
       Finish, CGoto, dirVars, cleanVars, serverVars
<1>4. CASE Enter
  BY <1>4, LevelsAssumption, TilesAssumption DEF CleanupInv, TypeOK, Types,
       Names, Running, NoFile, FirstInv, TempInv, AgeInv, Leftover, Storing,
       Enter, CGoto, RemoveLevelDir, dirVars, cleanVars, serverVars
<1>5. CASE Walk
  BY <1>5, LevelsAssumption, TilesAssumption DEF CleanupInv, TypeOK, Types,
       Names, Running, NoFile, FirstInv, TempInv, AgeInv, Leftover, Storing,
       Walk, CGoto, dirVars, cleanVars, serverVars
<1>6. CASE ListDir
  BY <1>6, LevelsAssumption, TilesAssumption DEF CleanupInv, TypeOK, Types,
       Names, Running, NoFile, FirstInv, TempInv, AgeInv, Leftover, Storing,
       ListDir, CGoto, dirVars, cleanVars, serverVars
<1>7. CASE RmDir
  BY <1>7, LevelsAssumption, TilesAssumption DEF CleanupInv, TypeOK, Types,
       Names, Running, NoFile, FirstInv, TempInv, AgeInv, Leftover, Storing,
       RmDir, CGoto, dirVars, cleanVars, serverVars
<1>8. ASSUME NEW n \in Names, Check(n) PROVE AgeInv'
  BY <1>8, LevelsAssumption, TilesAssumption DEF CleanupInv, TypeOK, Types,
       Names, Running, NoFile, FirstInv, TempInv, AgeInv, Leftover, Storing,
       Check, CGoto, Due, dirVars, cleanVars, serverVars
<1>9. CASE Remove
  BY <1>9, LevelsAssumption, TilesAssumption DEF CleanupInv, TypeOK, Types,
       Names, Running, NoFile, FirstInv, TempInv, AgeInv, Leftover, Storing,
       Remove, CGoto, dirVars, cleanVars, serverVars
<1>10. CASE Prune
  BY <1>10, LevelsAssumption, TilesAssumption DEF CleanupInv, TypeOK, Types,
       Names, Running, NoFile, FirstInv, TempInv, AgeInv, Leftover, Storing,
       Prune, CGoto, dirVars, cleanVars, serverVars
<1>11. CASE Leave
  BY <1>11, LevelsAssumption, TilesAssumption DEF CleanupInv, TypeOK, Types,
       Names, Running, NoFile, FirstInv, TempInv, AgeInv, Leftover, Storing,
       Leave, CGoto, RemoveLevelDir, dirVars, cleanVars, serverVars
<1>12. CASE Interrupt
  BY <1>12, LevelsAssumption, TilesAssumption DEF CleanupInv, TypeOK, Types,
       Names, Running, NoFile, FirstInv, TempInv, AgeInv, Leftover, Storing,
       Interrupt, CGoto, dirVars, cleanVars, serverVars
<1>13. ASSUME NEW s \in Servers, NEW t \in Tiles, StoreTile(s, t) PROVE AgeInv'
  BY <1>13, LevelsAssumption, TilesAssumption DEF CleanupInv, TypeOK, Types,
       Names, Running, NoFile, FirstInv, TempInv, AgeInv, Leftover, Storing,
       StoreTile, SGoto, dirVars, cleanVars, serverVars
<1>14. ASSUME NEW s \in Servers, IsDir(s) PROVE AgeInv'
  BY <1>14, LevelsAssumption, TilesAssumption DEF CleanupInv, TypeOK, Types,
       Names, Running, NoFile, FirstInv, TempInv, AgeInv, Leftover, Storing,
       IsDir, SGoto, LevelIn, dirVars, cleanVars, serverVars
<1>15. ASSUME NEW s \in Servers, IsLevelDir(s) PROVE AgeInv'
  BY <1>15, LevelsAssumption, TilesAssumption DEF CleanupInv, TypeOK, Types,
       Names, Running, NoFile, FirstInv, TempInv, AgeInv, Leftover, Storing,
       IsLevelDir, SGoto, LevelIn, dirVars, cleanVars, serverVars
<1>16. ASSUME NEW s \in Servers, MkLevelDir(s) PROVE AgeInv'
  BY <1>16, LevelsAssumption, TilesAssumption DEF CleanupInv, TypeOK, Types,
       Names, Running, NoFile, FirstInv, TempInv, AgeInv, Leftover, Storing,
       MkLevelDir, SGoto, LevelIn, dirVars, cleanVars, serverVars
<1>17. ASSUME NEW s \in Servers, MkDir(s) PROVE AgeInv'
  BY <1>17, LevelsAssumption, TilesAssumption DEF CleanupInv, TypeOK, Types,
       Names, Running, NoFile, FirstInv, TempInv, AgeInv, Leftover, Storing,
       MkDir, SGoto, LevelIn, Return, dirVars, cleanVars, serverVars
<1>18. ASSUME NEW s \in Servers, OpenTemp(s) PROVE AgeInv'
  BY <1>18, LevelsAssumption, TilesAssumption DEF CleanupInv, TypeOK, Types,
       Names, Running, NoFile, FirstInv, TempInv, AgeInv, Leftover, Storing,
       OpenTemp, SGoto, LevelIn, Return, dirVars, cleanVars, serverVars
<1>19. ASSUME NEW s \in Servers, Rename(s) PROVE AgeInv'
  BY <1>19, LevelsAssumption, TilesAssumption DEF CleanupInv, TypeOK, Types,
       Names, Running, NoFile, FirstInv, TempInv, AgeInv, Leftover, Storing,
       Rename, SGoto, Return, dirVars, cleanVars, serverVars
<1>20. ASSUME NEW s \in Servers, Die(s) PROVE AgeInv'
  BY <1>20, LevelsAssumption, TilesAssumption DEF CleanupInv, TypeOK, Types,
       Names, Running, NoFile, FirstInv, TempInv, AgeInv, Leftover, Storing,
       Die, SGoto, dirVars, cleanVars, serverVars
<1>. QED
  BY ONLY Next, <1>1, <1>2, <1>3, <1>4, <1>5, <1>6, <1>7, <1>8, <1>9, <1>10,
       <1>11, <1>12, <1>13, <1>14, <1>15, <1>16, <1>17, <1>18, <1>19, <1>20,
       Zenon DEF Next, Clean, Handle, Store

\* An old tile is a file of its level, whose directories are there.
LEMMA LeftoversAreFiles ==
  ASSUME CleanupInv, NEW t \in Tiles, Leftover(t)
  PROVE  t \in Files(LevelOf[t]) /\ tileDir[LevelOf[t]] /\ levelDir[LevelOf[t]]
BY LevelsOfNames DEF CleanupInv, TypeOK, FilesInDirs, Leftover, Files

\* What the task has done stays done.
LEMMA WorkStep == ASSUME CleanupInv, Next PROVE WorkInv'
<1>1. CASE StartCleanup
  BY <1>1, LevelsAssumption, TilesAssumption DEF CleanupInv, TypeOK, Types,
       PlaceInv, Names, Levels, Running, NoFile, FirstInv, TempInv, AgeInv,
       WorkInv, Leftover, StartCleanup, CGoto, dirVars, cleanVars, serverVars
<1>2. CASE NextLevel
  BY <1>2, LevelsAssumption, TilesAssumption DEF CleanupInv, TypeOK, Types,
       PlaceInv, Names, Levels, Running, NoFile, FirstInv, TempInv, AgeInv,
       WorkInv, Leftover, NextLevel, CGoto, Skip, dirVars, cleanVars,
       serverVars
<1>3. CASE Finish
  BY <1>3, LevelsAssumption, TilesAssumption DEF CleanupInv, TypeOK, Types,
       PlaceInv, Names, Levels, Running, NoFile, FirstInv, TempInv, AgeInv,
       WorkInv, Leftover, Finish, CGoto, dirVars, cleanVars, serverVars
<1>4. CASE Enter
  <2>1. \A t \in Tiles : Leftover(t)' <=> Leftover(t)
    BY <1>4 DEF Enter, serverVars, Leftover
  <2>2. level \in Levels /\ levelDir \in [Levels -> BOOLEAN]
    BY <1>4 DEF CleanupInv, TypeOK, Types, PlaceInv, Enter, Running
  <2>3. \A t \in Tiles : Leftover(t) /\ LevelOf[t] = level => levelDir'[level]
    BY <1>4, <2>2, LeftoversAreFiles DEF Enter, RemoveLevelDir
  <2>. QED
    BY <1>4, <2>1, <2>3 DEF CleanupInv, WorkInv, Enter, CGoto, Running
<1>5. CASE Walk
  <2>1. \A t \in Tiles : Leftover(t)' <=> Leftover(t)
    BY <1>5 DEF Walk, serverVars, Leftover
  <2>2. \A t \in Tiles : Leftover(t) /\ LevelOf[t] = level =>
          tileDir[level] /\ t \in Files(level)
    BY LeftoversAreFiles
  <2>. QED
    BY <1>5, <2>1, <2>2 DEF CleanupInv, WorkInv, Walk, CGoto, Running
<1>6. CASE ListDir
  BY <1>6, LevelsAssumption, TilesAssumption DEF CleanupInv, TypeOK, Types,
       PlaceInv, Names, Levels, Running, NoFile, FirstInv, TempInv, AgeInv,
       WorkInv, Leftover, ListDir, CGoto, dirVars, cleanVars, serverVars
<1>7. CASE RmDir
  BY <1>7, LevelsAssumption, TilesAssumption DEF CleanupInv, TypeOK, Types,
       PlaceInv, Names, Levels, Running, NoFile, FirstInv, TempInv, AgeInv,
       WorkInv, Leftover, RmDir, CGoto, dirVars, cleanVars, serverVars
<1>8. ASSUME NEW n \in Names, Check(n) PROVE WorkInv'
  BY <1>8, LevelsAssumption, TilesAssumption DEF CleanupInv, TypeOK, Types,
       PlaceInv, Names, Levels, Running, NoFile, FirstInv, TempInv, AgeInv,
       WorkInv, Leftover, Check, CGoto, Due, dirVars, cleanVars, serverVars
<1>9. CASE Remove
  BY <1>9, LevelsAssumption, TilesAssumption DEF CleanupInv, TypeOK, Types,
       PlaceInv, Names, Levels, Running, NoFile, FirstInv, TempInv, AgeInv,
       WorkInv, Leftover, Remove, CGoto, dirVars, cleanVars, serverVars
<1>10. CASE Prune
  BY <1>10, LevelsAssumption, TilesAssumption DEF CleanupInv, TypeOK, Types,
       PlaceInv, Names, Levels, Running, NoFile, FirstInv, TempInv, AgeInv,
       WorkInv, Leftover, Prune, CGoto, dirVars, cleanVars, serverVars
<1>11. CASE Leave
  BY <1>11, LevelsAssumption, TilesAssumption DEF CleanupInv, TypeOK, Types,
       PlaceInv, Names, Levels, Running, NoFile, FirstInv, TempInv, AgeInv,
       WorkInv, Leftover, Leave, CGoto, RemoveLevelDir, dirVars, cleanVars,
       serverVars
<1>12. CASE Interrupt
  BY <1>12, LevelsAssumption, TilesAssumption DEF CleanupInv, TypeOK, Types,
       PlaceInv, Names, Levels, Running, NoFile, FirstInv, TempInv, AgeInv,
       WorkInv, Leftover, Interrupt, CGoto, dirVars, cleanVars, serverVars
<1>13. ASSUME NEW s \in Servers, NEW t \in Tiles, StoreTile(s, t) PROVE WorkInv'
  BY <1>13, LevelsAssumption, TilesAssumption DEF CleanupInv, TypeOK, Types,
       PlaceInv, Names, Levels, Running, NoFile, FirstInv, TempInv, AgeInv,
       WorkInv, Leftover, StoreTile, SGoto, dirVars, cleanVars, serverVars
<1>14. ASSUME NEW s \in Servers, IsDir(s) PROVE WorkInv'
  BY <1>14, LevelsAssumption, TilesAssumption DEF CleanupInv, TypeOK, Types,
       PlaceInv, Names, Levels, Running, NoFile, FirstInv, TempInv, AgeInv,
       WorkInv, Leftover, IsDir, SGoto, LevelIn, dirVars, cleanVars,
       serverVars
<1>15. ASSUME NEW s \in Servers, IsLevelDir(s) PROVE WorkInv'
  BY <1>15, LevelsAssumption, TilesAssumption DEF CleanupInv, TypeOK, Types,
       PlaceInv, Names, Levels, Running, NoFile, FirstInv, TempInv, AgeInv,
       WorkInv, Leftover, IsLevelDir, SGoto, LevelIn, dirVars, cleanVars,
       serverVars
<1>16. ASSUME NEW s \in Servers, MkLevelDir(s) PROVE WorkInv'
  BY <1>16, LevelsAssumption, TilesAssumption DEF CleanupInv, TypeOK, Types,
       PlaceInv, Names, Levels, Running, NoFile, FirstInv, TempInv, AgeInv,
       WorkInv, Leftover, MkLevelDir, SGoto, LevelIn, dirVars, cleanVars,
       serverVars
<1>17. ASSUME NEW s \in Servers, MkDir(s) PROVE WorkInv'
  BY <1>17, LevelsAssumption, TilesAssumption DEF CleanupInv, TypeOK, Types,
       PlaceInv, Names, Levels, Running, NoFile, FirstInv, TempInv, AgeInv,
       WorkInv, Leftover, MkDir, SGoto, LevelIn, Return, dirVars, cleanVars,
       serverVars
<1>18. ASSUME NEW s \in Servers, OpenTemp(s) PROVE WorkInv'
  BY <1>18, LevelsAssumption, TilesAssumption DEF CleanupInv, TypeOK, Types,
       PlaceInv, Names, Levels, Running, NoFile, FirstInv, TempInv, AgeInv,
       WorkInv, Leftover, OpenTemp, SGoto, LevelIn, Return, dirVars,
       cleanVars, serverVars
<1>19. ASSUME NEW s \in Servers, Rename(s) PROVE WorkInv'
  BY <1>19, LevelsAssumption, TilesAssumption DEF CleanupInv, TypeOK, Types,
       PlaceInv, Names, Levels, Running, NoFile, FirstInv, TempInv, AgeInv,
       WorkInv, Leftover, Rename, SGoto, Return, dirVars, cleanVars,
       serverVars
<1>20. ASSUME NEW s \in Servers, Die(s) PROVE WorkInv'
  BY <1>20, LevelsAssumption, TilesAssumption DEF CleanupInv, TypeOK, Types,
       PlaceInv, Names, Levels, Running, NoFile, FirstInv, TempInv, AgeInv,
       WorkInv, Leftover, Die, SGoto, dirVars, cleanVars, serverVars
<1>. QED
  BY ONLY Next, <1>1, <1>2, <1>3, <1>4, <1>5, <1>6, <1>7, <1>8, <1>9, <1>10,
       <1>11, <1>12, <1>13, <1>14, <1>15, <1>16, <1>17, <1>18, <1>19, <1>20,
       Zenon DEF Next, Clean, Handle, Store

-----------------------------------------------------------------------------
\* The invariant holds at first,
LEMMA CleanupInit == Init => CleanupInv
<1> SUFFICES ASSUME Init PROVE CleanupInv
  OBVIOUS
<1>1. Types
  BY LevelsAssumption DEF Init, Types, Levels, Names, NoFile, Running, Storing
<1>2. FilesInDirs
  <2>1. \A s \in Servers : mtime[s] = NoFile
    BY DEF Init
  <2>2. \A n \in Names : mtime[n] # NoFile => n \in Tiles /\ mtime[n] = 0
    BY <2>1 DEF Init, Names
  <2>. QED
    BY <2>2, LevelsOfNames DEF Init, FilesInDirs, Files
<1>3. PlaceInv /\ TempInv /\ FirstInv
  BY DEF Init, PlaceInv, TempInv, FirstInv, Running, Storing
<1>4. AgeInv /\ WorkInv
  BY TilesAssumption DEF Init, AgeInv, WorkInv, Leftover, Names, Running
<1>. QED
  BY <1>1, <1>2, <1>3, <1>4 DEF CleanupInv, TypeOK

\* and after each step.
LEMMA CleanupStep == CleanupInv /\ [Next]_vars => CleanupInv'
<1> SUFFICES ASSUME CleanupInv, [Next]_vars PROVE CleanupInv'
  OBVIOUS
<1>1. CASE Next
  <2>1. Types'
    BY <1>1, TypesStep
  <2>2. FilesInDirs'
    BY <1>1, FilesStep
  <2>3. PlaceInv' /\ TempInv' /\ FirstInv'
    BY <1>1, PlaceStep, TempStep, FirstStep
  <2>4. AgeInv' /\ WorkInv'
    BY <1>1, AgeStep, WorkStep
  <2>. QED
    BY <2>1, <2>2, <2>3, <2>4 DEF CleanupInv, TypeOK
<1>2. CASE UNCHANGED vars
  <2>1. \A l : Files(l)' = Files(l)
    BY <1>2, SameFiles DEF vars, serverVars
  <2>. QED
    BY <1>2, <2>1 DEF CleanupInv, TypeOK, Types, FilesInDirs, PlaceInv, TempInv, FirstInv,
         AgeInv, WorkInv, Leftover, vars, dirVars, cleanVars, serverVars
<1>. QED
  BY <1>1, <1>2

\* Every state of a cleanup satisfies it.
LEMMA CleanupInvariant == Spec => []CleanupInv
BY CleanupInit, CleanupStep, PTL DEF Spec

\* Types, and files are in directories that exist: no rmdir of the cleanup
\* takes a directory away from a file that a server has written.
THEOREM TypeCorrect == Spec => []TypeOK
<1>1. CleanupInv => TypeOK
  BY DEF CleanupInv
<1>. QED
  BY <1>1, CleanupInvariant, PTL

\* A task that ends regularly has removed all tiles of before its first start,
\* however often it was interrupted and continued.
THEOREM CleanupIsComplete == Spec => []CleanupComplete
<1>1. CleanupInv => CleanupComplete
  BY DEF CleanupInv, WorkInv, CleanupComplete
<1>. QED
  BY <1>1, CleanupInvariant, PTL

\* The stored progress leaves no old tile behind it, so that --continue may skip
\* the levels before.
THEOREM ProgressIsClean == Spec => []StoredProgressIsClean
<1>1. CleanupInv => StoredProgressIsClean
  BY LevelsAssumption, TilesAssumption
     DEF CleanupInv, WorkInv, TypeOK, Types, StoredProgressIsClean
<1>. QED
  BY <1>1, CleanupInvariant, PTL

\* The file that is about to be removed stays an old one unless it is replaced.
LEMMA NewTilesStep == ASSUME CleanupInv, NewTilesStay, Next PROVE NewTilesStay'
<1>1. CASE StartCleanup
  BY <1>1, LevelsAssumption, TilesAssumption DEF CleanupInv, TypeOK, Types,
       Names, Running, NoFile, TempInv, NewTilesStay, StartCleanup, CGoto,
       dirVars, cleanVars, serverVars
<1>2. CASE NextLevel
  BY <1>2, LevelsAssumption, TilesAssumption DEF CleanupInv, TypeOK, Types,
       Names, Running, NoFile, TempInv, NewTilesStay, NextLevel, CGoto, Skip,
       dirVars, cleanVars, serverVars
<1>3. CASE Finish
  BY <1>3, LevelsAssumption, TilesAssumption DEF CleanupInv, TypeOK, Types,
       Names, Running, NoFile, TempInv, NewTilesStay, Finish, CGoto, dirVars,
       cleanVars, serverVars
<1>4. CASE Enter
  BY <1>4, LevelsAssumption, TilesAssumption DEF CleanupInv, TypeOK, Types,
       Names, Running, NoFile, TempInv, NewTilesStay, Enter, CGoto,
       RemoveLevelDir, dirVars, cleanVars, serverVars
<1>5. CASE Walk
  BY <1>5, LevelsAssumption, TilesAssumption DEF CleanupInv, TypeOK, Types,
       Names, Running, NoFile, TempInv, NewTilesStay, Walk, CGoto, dirVars,
       cleanVars, serverVars
<1>6. CASE ListDir
  BY <1>6, LevelsAssumption, TilesAssumption DEF CleanupInv, TypeOK, Types,
       Names, Running, NoFile, TempInv, NewTilesStay, ListDir, CGoto, dirVars,
       cleanVars, serverVars
<1>7. CASE RmDir
  BY <1>7, LevelsAssumption, TilesAssumption DEF CleanupInv, TypeOK, Types,
       Names, Running, NoFile, TempInv, NewTilesStay, RmDir, CGoto, dirVars,
       cleanVars, serverVars
<1>8. ASSUME NEW n \in Names, Check(n) PROVE NewTilesStay'
  BY <1>8, LevelsAssumption, TilesAssumption DEF CleanupInv, TypeOK, Types,
       Names, Running, NoFile, TempInv, NewTilesStay, Check, CGoto, Due,
       dirVars, cleanVars, serverVars
<1>9. CASE Remove
  BY <1>9, LevelsAssumption, TilesAssumption DEF CleanupInv, TypeOK, Types,
       Names, Running, NoFile, TempInv, NewTilesStay, Remove, CGoto, dirVars,
       cleanVars, serverVars
<1>10. CASE Prune
  BY <1>10, LevelsAssumption, TilesAssumption DEF CleanupInv, TypeOK, Types,
       Names, Running, NoFile, TempInv, NewTilesStay, Prune, CGoto, dirVars,
       cleanVars, serverVars
<1>11. CASE Leave
  BY <1>11, LevelsAssumption, TilesAssumption DEF CleanupInv, TypeOK, Types,
       Names, Running, NoFile, TempInv, NewTilesStay, Leave, CGoto,
       RemoveLevelDir, dirVars, cleanVars, serverVars
<1>12. CASE Interrupt
  BY <1>12, LevelsAssumption, TilesAssumption DEF CleanupInv, TypeOK, Types,
       Names, Running, NoFile, TempInv, NewTilesStay, Interrupt, CGoto,
       dirVars, cleanVars, serverVars
<1>13. ASSUME NEW s \in Servers, NEW t \in Tiles, StoreTile(s, t) PROVE NewTilesStay'
  BY <1>13, LevelsAssumption, TilesAssumption DEF CleanupInv, TypeOK, Types,
       Names, Running, NoFile, TempInv, NewTilesStay, StoreTile, SGoto,
       dirVars, cleanVars, serverVars
<1>14. ASSUME NEW s \in Servers, IsDir(s) PROVE NewTilesStay'
  BY <1>14, LevelsAssumption, TilesAssumption DEF CleanupInv, TypeOK, Types,
       Names, Running, NoFile, TempInv, NewTilesStay, IsDir, SGoto, LevelIn,
       dirVars, cleanVars, serverVars
<1>15. ASSUME NEW s \in Servers, IsLevelDir(s) PROVE NewTilesStay'
  BY <1>15, LevelsAssumption, TilesAssumption DEF CleanupInv, TypeOK, Types,
       Names, Running, NoFile, TempInv, NewTilesStay, IsLevelDir, SGoto,
       LevelIn, dirVars, cleanVars, serverVars
<1>16. ASSUME NEW s \in Servers, MkLevelDir(s) PROVE NewTilesStay'
  BY <1>16, LevelsAssumption, TilesAssumption DEF CleanupInv, TypeOK, Types,
       Names, Running, NoFile, TempInv, NewTilesStay, MkLevelDir, SGoto,
       LevelIn, dirVars, cleanVars, serverVars
<1>17. ASSUME NEW s \in Servers, MkDir(s) PROVE NewTilesStay'
  BY <1>17, LevelsAssumption, TilesAssumption DEF CleanupInv, TypeOK, Types,
       Names, Running, NoFile, TempInv, NewTilesStay, MkDir, SGoto, LevelIn,
       Return, dirVars, cleanVars, serverVars
<1>18. ASSUME NEW s \in Servers, OpenTemp(s) PROVE NewTilesStay'
  <2>1. cpc = "remove" => name # s /\ name \in Names
    BY <1>18 DEF OpenTemp, CleanupInv, PlaceInv
  <2>2. \A n \in Names : n # s => mtime'[n] = mtime[n]
    BY <1>18 DEF OpenTemp, CleanupInv, TypeOK, Types
  <2>. QED
    BY <1>18, <2>1, <2>2 DEF NewTilesStay, OpenTemp, cleanVars
<1>19. ASSUME NEW s \in Servers, Rename(s) PROVE NewTilesStay'
  <2>1. CASE mtime[s] = NoFile
    BY <1>19, <2>1 DEF NewTilesStay, Rename, cleanVars
  <2>2. CASE mtime[s] # NoFile
    <3>1. tile[s] \in Names /\ s \in Names
      BY <1>19 DEF CleanupInv, TempInv, Rename, Storing, Names
    <3>2. mtime'[s] = NoFile /\ \A n \in Names \ {s, tile[s]} : mtime'[n] = mtime[n]
      BY <1>19, <2>2, <3>1 DEF Rename, CleanupInv, TypeOK, Types
    <3>3. cpc = "remove" => name \in Names
      BY DEF CleanupInv, PlaceInv
    <3>. QED
      BY <1>19, <2>2, <3>2, <3>3 DEF NewTilesStay, Rename, cleanVars
  <2>. QED  BY <2>1, <2>2
<1>20. ASSUME NEW s \in Servers, Die(s) PROVE NewTilesStay'
  BY <1>20, LevelsAssumption, TilesAssumption DEF CleanupInv, TypeOK, Types,
       Names, Running, NoFile, TempInv, NewTilesStay, Die, SGoto, dirVars,
       cleanVars, serverVars
<1>. QED
  BY ONLY Next, <1>1, <1>2, <1>3, <1>4, <1>5, <1>6, <1>7, <1>8, <1>9, <1>10,
       <1>11, <1>12, <1>13, <1>14, <1>15, <1>16, <1>17, <1>18, <1>19, <1>20,
       Zenon DEF Next, Clean, Handle, Store

\* Only tiles of before the current session are chosen for removal; a new tile
\* can only be removed in place of one.
THEOREM OnlyOldTilesAreChosen == Spec => []NewTilesStay
<1>1. Init => NewTilesStay
  BY DEF Init, NewTilesStay
<1>2. CleanupInv /\ NewTilesStay /\ [Next]_vars => NewTilesStay'
  <2>1. CleanupInv /\ NewTilesStay /\ Next => NewTilesStay'
    BY NewTilesStep
  <2>2. NewTilesStay /\ UNCHANGED vars => NewTilesStay'
    BY DEF NewTilesStay, vars, cleanVars, serverVars
  <2>. QED
    BY <2>1, <2>2
<1>. QED
  BY <1>1, <1>2, CleanupInvariant, PTL DEF Spec
=============================================================================
