--------------------------- MODULE HostInit_proofs ---------------------------
(***************************************************************************)
(* Theorems about HostInit, and about the base it hands over to BaseData:  *)
(* for every set of files, passwords, pools and installations, and every   *)
(* number of snapshots, faults, loading threads and inits.                 *)
(*                                                                         *)
(* Typing comes first, with which command is at which of its steps.  Then  *)
(* the invariant of the host (HostInv); of the data and who has them open  *)
(* (BaseInv); of an import (Imports), the init of a mac (DevInv) and a     *)
(* refresh (BuildsInv) at each of their steps, as long as no other came in *)
(* their way; and of the snapshots they leave (ShotsInv).  Each part has a *)
(* lemma per action or group of actions, and one that joins them           *)
(* (...Kept); IInv at the end is all of it together.                       *)
(***************************************************************************)
EXTENDS HostInit, NaturalsInduction, WellFoundedInduction, TLAPS

-----------------------------------------------------------------------------
(***************************************************************************)
(* The steps of a command: which command is at which of its steps          *)
(***************************************************************************)

LastStep == CASE cli.path = "none"   -> 1
              [] cli.path = "stream" -> 5
              [] cli.path = "init"   -> 6
              [] cli.path = "import" -> IF Mysql THEN 10 ELSE 8

\* The command under way is at a step it has.
CliTyped == site \in Sites /\ cli \in Commands /\ cli.at <= LastStep

ImportAt(n) == cli.path = "import" /\ cli.at = n
StreamAt(n) == cli.path = "stream" /\ cli.at = n
InitAt(n)   == cli.path = "init" /\ cli.at = n

\* Every step of each sequence, by its number.
LEMMA MysqlImportSteps ==
    ASSUME NEW i \in 1..10, NEW seq \in {ZfsMysqlImport, LocalMysqlImport}
    PROVE  /\ seq[i] \in {"fresh", "clear"} => i = 1
           /\ seq[i] = "initialize" => i = 2
           /\ seq[i] = "start" => i = 3
           /\ seq[i] = "load" => i = 4
           /\ seq[i] = "user" => i = 5
           /\ seq[i] = "shutdown" => i = 6
           /\ seq[i] = "gone" => i = 7
           /\ seq[i] = "autocnf" => i = 8
           /\ seq[i] \in {"snapshot", "copy"} => i = 9
           /\ seq[i] = "register" => i = 10
           /\ seq[i] \in {"fresh", "clear", "initialize", "start", "load", "user", "shutdown",
                          "gone", "autocnf", "snapshot", "copy", "register"}
BY DEF ZfsMysqlImport, LocalMysqlImport

\* Of postgres,
LEMMA PostgresImportSteps ==
    ASSUME NEW i \in 1..8, NEW seq \in {ZfsPostgresImport, LocalPostgresImport}
    PROVE  /\ seq[i] \in {"fresh", "clear"} => i = 1
           /\ seq[i] = "initialize" => i = 2
           /\ seq[i] = "pgStart" => i = 3
           /\ seq[i] = "pgLoad" => i = 4
           /\ seq[i] = "role" => i = 5
           /\ seq[i] = "pgStop" => i = 6
           /\ seq[i] \in {"snapshot", "copy"} => i = 7
           /\ seq[i] = "register" => i = 8
           /\ seq[i] \in {"fresh", "clear", "initialize", "pgStart", "pgLoad", "role", "pgStop",
                          "snapshot", "copy", "register"}
BY DEF ZfsPostgresImport, LocalPostgresImport

\* of `import-stream`,
LEMMA StreamSteps ==
    ASSUME NEW i \in 1..5
    PROVE  /\ ImportStream[i] = "spare" => i = 1
           /\ ImportStream[i] = "replace" => i = 2
           /\ ImportStream[i] = "open" => i = 3
           /\ ImportStream[i] = "recv" => i = 4
           /\ ImportStream[i] = "register" => i = 5
           /\ ImportStream[i] \in {"spare", "replace", "open", "recv", "register"}
BY DEF ImportStream

\* and of the init of a mac.
LEMMA DarwinInitSteps ==
    ASSUME NEW i \in 1..6, NEW seq \in {DarwinMysqlInit, DarwinPostgresInit}
    PROVE  /\ seq[i] = "datadir" => i = 1
           /\ seq[i] = "devStart" => i = 2
           /\ seq[i] \in {"devUser", "devRole"} => i = 3
           /\ seq[i] \in {"devStop", "devPgStop"} => i = 4
           /\ seq[i] = "clonefile" => i = 5
           /\ seq[i] = "config" => i = 6
           /\ seq[i] \in {"datadir", "devStart", "devUser", "devRole", "devStop", "devPgStop",
                          "clonefile", "config"}
           /\ seq[i] \in {"devRole", "devPgStop"} => seq = DarwinPostgresInit
           /\ seq[i] \in {"devUser", "devStop"} => seq = DarwinMysqlInit
BY DEF DarwinMysqlInit, DarwinPostgresInit

\* Which commands a step belongs to, and where in them it comes.
LEMMA Places ==
    ASSUME CliTyped
    PROVE  /\ At("fresh") \/ At("clear") => ImportAt(1)
           /\ At("initialize") => ImportAt(2)
           /\ At("start") => ImportAt(3) /\ Mysql
           /\ At("pgStart") => ImportAt(3) /\ ~Mysql
           /\ At("load") => ImportAt(4) /\ Mysql
           /\ At("pgLoad") => ImportAt(4) /\ ~Mysql
           /\ At("user") => ImportAt(5) /\ Mysql
           /\ At("role") => ImportAt(5) /\ ~Mysql
           /\ At("shutdown") => ImportAt(6) /\ Mysql
           /\ At("pgStop") => ImportAt(6) /\ ~Mysql
           /\ At("gone") => ImportAt(7) /\ Mysql
           /\ At("autocnf") => ImportAt(8) /\ Mysql
           /\ At("snapshot") \/ At("copy") => \/ ImportAt(9) /\ Mysql
                                              \/ ImportAt(7) /\ ~Mysql
           /\ At("spare") => StreamAt(1)
           /\ At("replace") => StreamAt(2)
           /\ At("open") => StreamAt(3)
           /\ At("recv") => StreamAt(4)
           /\ At("datadir") => InitAt(1)
           /\ At("devStart") => InitAt(2)
           /\ At("devUser") => InitAt(3) /\ Mysql
           /\ At("devRole") => InitAt(3) /\ ~Mysql
           /\ At("devStop") => InitAt(4) /\ Mysql
           /\ At("devPgStop") => InitAt(4) /\ ~Mysql
           /\ At("clonefile") => InitAt(5)
           /\ At("config") => InitAt(6)
           /\ At("register") => cli.path \in {"import", "stream"}
<1> DEFINE at == cli.at
           p == cli.path
<1>1. at \in 1..10 /\ p \in Paths /\ site.zfs \in BOOLEAN
  BY BaseAssumption DEF CliTyped, Commands
<1>2. CASE p = "none"
  <2>1. at = 1 /\ Path(p) = <<"idle">>
    BY <1>1, <1>2 DEF CliTyped, LastStep, Path
  <2>2. Path(p)[at] = "idle"
    BY <2>1
  <2>3. QED
    BY <2>2 DEF At
<1>3. CASE p = "stream"
  <2>1. at \in 1..5 /\ Path(p) = ImportStream
    BY <1>1, <1>3 DEF CliTyped, LastStep, Path
  <2>2. QED
    BY <2>1, <1>3, StreamSteps DEF At, StreamAt
<1>4. CASE p = "init"
  <2>1. at \in 1..6 /\ Path(p) = IF Mysql THEN DarwinMysqlInit ELSE DarwinPostgresInit
    BY <1>1, <1>4 DEF CliTyped, LastStep, Path
  <2>2. DarwinMysqlInit # DarwinPostgresInit
    BY DEF DarwinMysqlInit, DarwinPostgresInit
  <2>3. QED
    BY <2>1, <2>2, <1>4, DarwinInitSteps DEF At, InitAt
<1>5. CASE p = "import" /\ Mysql
  <2>1. at \in 1..10 /\ Path(p) \in {ZfsMysqlImport, LocalMysqlImport}
    BY <1>1, <1>5 DEF CliTyped, LastStep, Path
  <2>2. QED
    BY <2>1, <1>5, MysqlImportSteps DEF At, ImportAt
<1>6. CASE p = "import" /\ ~Mysql
  <2>1. at \in 1..8 /\ Path(p) \in {ZfsPostgresImport, LocalPostgresImport}
    BY <1>1, <1>6 DEF CliTyped, LastStep, Path
  <2>2. QED
    BY <2>1, <1>6, PostgresImportSteps DEF At, ImportAt
<1>7. QED
  BY <1>1, <1>2, <1>3, <1>4, <1>5, <1>6 DEF Paths

-----------------------------------------------------------------------------
(***************************************************************************)
(* Types                                                                   *)
(*                                                                         *)
(* One lemma for each record, helper and action, called after it: what it  *)
(* makes has its type.                                                     *)
(***************************************************************************)

\* What is recorded is a file.
Building == {b \in Builds : b.pc = "record" => b.file \in Files}

BaseTyped ==
    /\ CliTyped
    /\ data \in DataRecords /\ server \in [Sockets -> States]
    /\ shots \in [Ids -> Shots] /\ current \in 0..MaxShots
    /\ pass \in {0} \cup Passwords /\ known \in {0} \cup Passwords
    /\ daemon \in Building

LEMMA EmptyTyped == Empty \in DataRecords /\ NoShot \in Shots
BY DEF Empty, DataRecords, NoShot, Shots, Makers

LEMMA NoCommandTyped ==
    ASSUME BaseTyped, site' = site, cli' = NoCommand
    PROVE  CliTyped'
<1>1. NoCommand \in Commands
  BY BaseAssumption DEF NoCommand, Commands, Paths
<1>2. LastStep' = 1 /\ cli'.at = 1
  BY DEF LastStep, NoCommand
<1>3. QED
  BY <1>1, <1>2 DEF CliTyped, BaseTyped

LEMMA NoBuildTyped == NoBuild \in Building
BY BaseAssumption DEF NoBuild, Building, Builds, Pcs, Hows

\* A command that stays what it is can be at any step it has.
LEMMA SameCommandTyped ==
    ASSUME BaseTyped, site' = site, cli' \in Commands, cli'.path = cli.path,
           cli'.at <= LastStep
    PROVE  CliTyped'
<1>1. LastStep' = LastStep
  BY DEF LastStep, Mysql
<1>2. QED
  BY <1>1 DEF CliTyped, BaseTyped

\* The last step of a command is not one that is followed by another.
LEMMA SkipsTyped ==
    ASSUME BaseTyped, site' = site, NEW n \in 1..3, Skips(n), cli.at + n <= LastStep
    PROVE  CliTyped'
<1>1. cli.at + n \in 1..10
  BY DEF LastStep, BaseTyped, CliTyped, Commands, Paths
<1>2. cli' \in Commands /\ cli'.path = cli.path /\ cli'.at = cli.at + n
  BY <1>1 DEF Skips, BaseTyped, CliTyped, Commands
<1>3. QED
  BY <1>2, SameCommandTyped

LEMMA ProceedsTyped ==
    ASSUME BaseTyped, site' = site, Proceeds, NEW n \in 1..9,
           \/ ImportAt(n) /\ (Mysql \/ n < 8)
           \/ StreamAt(n) /\ n < 5
           \/ InitAt(n) /\ n < 6
    PROVE  CliTyped'
<1>1. cli.at + 1 <= LastStep
  BY DEF LastStep, ImportAt, StreamAt, InitAt
<1>2. QED
  BY <1>1, SkipsTyped DEF Proceeds

LEMMA BegunTyped ==
    ASSUME BaseTyped
    PROVE  Begun \in DataRecords
BY DEF Begun, BaseTyped, DataRecords, Mysql

LEMMA ServersTyped ==
    ASSUME BaseTyped
    PROVE  \A k : \A s \in States : ServerTo(k, s) => server' \in [Sockets -> States]
BY DEF ServerTo, BaseTyped

LEMMA StartsTyped ==
    ASSUME BaseTyped, NEW k, Starts(k)
    PROVE  server' \in [Sockets -> States] /\ data' \in DataRecords
<1>1. "up" \in States
  BY DEF States
<1>2. ServerTo(k, "up") /\ data' = Begun
  BY DEF Starts
<1>3. QED
  BY <1>1, <1>2, BegunTyped, ServersTyped

LEMMA ShotTyped ==
    ASSUME BaseTyped, NEW by \in Makers, NEW first \in BOOLEAN, Shot(by, first)
    PROVE  shots' \in [Ids -> Shots]
<1> DEFINE shot == [by |-> by, there |-> TRUE, first |-> first]
<1>1. shot \in Shots
  BY DEF Shots
<1>2. PICK s \in Fresh : shots' = [shots EXCEPT ![s] = shot]
  BY DEF Shot
<1> HIDE DEF shot
<1>3. QED
  BY <1>1, <1>2 DEF BaseTyped

LEMMA TakesShotTyped ==
    ASSUME BaseTyped, site' = site, NEW by \in Makers, TakesShot(by),
           cli.at + 1 <= LastStep
    PROVE  shots' \in [Ids -> Shots] /\ CliTyped'
<1>1. shots' \in [Ids -> Shots]
  BY ShotTyped DEF TakesShot
<1>2. PICK s \in Fresh : cli' = [cli EXCEPT !.at = @ + 1, !.shot = s]
  BY DEF TakesShot
<1>3. cli.at + 1 \in 1..10 /\ s \in 0..MaxShots
  BY BaseAssumption, SMTT(30) DEF LastStep, BaseTyped, CliTyped, Commands, Paths, Fresh, Ids
<1>4. cli' \in Commands /\ cli'.path = cli.path /\ cli'.at = cli.at + 1
  BY <1>2, <1>3 DEF BaseTyped, CliTyped, Commands
<1>5. QED
  BY <1>1, <1>4, SameCommandTyped

LEMMA CopyCutTyped ==
    ASSUME BaseTyped, CopyCut
    PROVE  shots' \in [Ids -> Shots]
<1>1. "cut" \in Makers
  BY DEF Makers
<1>2. QED
  BY <1>1, ShotTyped DEF CopyCut

\* What the steps of a command leave alone.
LEMMA CliStepTyped ==
    ASSUME BaseTyped, CliFrame, CliTyped', data' \in DataRecords,
           server' \in [Sockets -> States], shots' \in [Ids -> Shots],
           current' \in 0..MaxShots, pass' \in {0} \cup Passwords
    PROVE  BaseTyped'
BY DEF BaseTyped, CliFrame

LEMMA EndsTyped ==
    ASSUME BaseTyped, CliFrame, Ends
    PROVE  CliTyped'
BY NoCommandTyped DEF Ends, CliFrame

LEMMA QuitsTyped ==
    ASSUME BaseTyped, CliFrame, NEW c, Quits(c)
    PROVE  BaseTyped'
<1>1. Ends /\ StaysDown /\ SameShots /\ SameHost
  BY DEF Quits
<1>2. QED
  BY <1>1, EndsTyped, CliStepTyped DEF BaseTyped, StaysDown, SameShots, SameHost

LEMMA AbandonsTyped ==
    ASSUME BaseTyped, CliFrame, NEW c, Abandons(c)
    PROVE  BaseTyped'
<1>1. Ends /\ SameShots /\ SameHost /\ UNCHANGED data
  BY DEF Abandons
<1>2. {"closing", "down"} \subseteq States
  BY DEF States
<1>3. server' \in [Sockets -> States]
  <2>1. CASE UNCHANGED server
    BY <2>1 DEF BaseTyped
  <2>2. CASE ServerTo("import", IF Mysql THEN "closing" ELSE "down")
    BY <2>2, <1>2, ServersTyped
  <2>3. QED
    BY <2>1, <2>2 DEF Abandons
<1>4. QED
  BY <1>1, <1>3, EndsTyped, CliStepTyped DEF BaseTyped, SameShots, SameHost

LEMMA GoesOnTyped ==
    ASSUME BaseTyped, CliFrame, Proceeds, SameShots, SameHost, NEW n \in 1..9,
           \/ ImportAt(n) /\ (Mysql \/ n < 8)
           \/ StreamAt(n) /\ n < 5
           \/ InitAt(n) /\ n < 6,
           data' \in DataRecords, server' \in [Sockets -> States]
    PROVE  BaseTyped'
<1>1. CliTyped'
  BY ProceedsTyped DEF CliFrame
<1>2. QED
  BY <1>1, CliStepTyped DEF BaseTyped, SameShots, SameHost

LEMMA DataTyped ==
    ASSUME BaseTyped
    PROVE  /\ \A m \in {"none", "half", "whole"} : [data EXCEPT !.made = m] \in DataRecords
           /\ \A u \in {0} \cup Passwords : [data EXCEPT !.user = u] \in DataRecords
           /\ \A v \in BOOLEAN : [data EXCEPT !.clean = v] \in DataRecords
           /\ \A v \in BOOLEAN : [data EXCEPT !.uuid = v] \in DataRecords
           /\ \A s \in SUBSET Pieces : /\ [data EXCEPT !.loaded = @ \cup s] \in DataRecords
                                       /\ [data EXCEPT !.torn = @ \cup s] \in DataRecords
BY DEF BaseTyped, DataRecords

LEMMA CheckFreshTyped ==
    ASSUME BaseTyped, CheckFresh
    PROVE  BaseTyped'
<1>1. ImportAt(1) /\ CliFrame
  BY Places DEF CheckFresh, BaseTyped
<1>2. ASSUME Proceeds, StaysDown, SameShots, SameHost PROVE BaseTyped'
  BY <1>1, <1>2, GoesOnTyped DEF BaseTyped, StaysDown
<1>3. QED
  BY <1>1, <1>2, QuitsTyped DEF CheckFresh

LEMMA ClearDirTyped ==
    ASSUME BaseTyped, ClearDir
    PROVE  BaseTyped'
<1>1. ImportAt(1) /\ CliFrame
  BY Places DEF ClearDir, BaseTyped
<1>2. ASSUME Proceeds, SameShots, UNCHANGED pass, base' = TRUE, data' = Empty,
             server' = [k \in Sockets |-> IF k \in OnData THEN "removed" ELSE server[k]]
      PROVE  BaseTyped'
  <2>1. server' \in [Sockets -> States]
    BY <1>2 DEF BaseTyped, States
  <2>2. CliTyped'
    BY <1>1, <1>2, ProceedsTyped DEF CliFrame
  <2>3. QED
    BY <1>1, <1>2, <2>1, <2>2, EmptyTyped, CliStepTyped DEF BaseTyped, SameShots
<1>3. QED
  BY <1>1, <1>2, QuitsTyped DEF ClearDir

LEMMA InitializeTyped ==
    ASSUME BaseTyped, Initialize
    PROVE  BaseTyped'
<1>1. ImportAt(2) /\ CliFrame /\ SameShots /\ SameHost /\ UNCHANGED server
  BY Places DEF Initialize, BaseTyped
<1>2. data' \in DataRecords
  BY DataTyped DEF Initialize
<1>3. CASE Proceeds
  BY <1>1, <1>2, <1>3, GoesOnTyped DEF BaseTyped
<1>4. CASE Ends
  BY <1>1, <1>2, <1>4, EndsTyped, CliStepTyped DEF BaseTyped, SameShots, SameHost
<1>5. QED
  BY <1>3, <1>4 DEF Initialize

LEMMA StartServerTyped ==
    ASSUME BaseTyped, StartServer
    PROVE  BaseTyped'
<1>1. ImportAt(3) /\ CliFrame
  BY Places DEF StartServer, BaseTyped
<1>2. ASSUME Proceeds, Starts("import"), SameShots, SameHost PROVE BaseTyped'
  BY <1>1, <1>2, StartsTyped, GoesOnTyped
<1>3. ASSUME Ends, Starts("import"), SameShots, SameHost PROVE BaseTyped'
  BY <1>1, <1>3, StartsTyped, EndsTyped, CliStepTyped DEF BaseTyped, SameShots, SameHost
<1>4. QED
  BY <1>1, <1>2, <1>3, QuitsTyped DEF StartServer

\* The two ways to give the data a user.
LEMMA UserTyped ==
    ASSUME BaseTyped, CreateUser \/ CreateRole
    PROVE  BaseTyped'
<1>1. ImportAt(5) /\ CliFrame
  BY Places DEF CreateUser, CreateRole, BaseTyped
<1>2. ASSUME Proceeds, SameShots, SameHost, UNCHANGED server,
             data' = [data EXCEPT !.user = cli.pass]
      PROVE  BaseTyped'
  <2>1. cli.pass \in {0} \cup Passwords
    BY DEF BaseTyped, CliTyped, Commands
  <2>2. data' \in DataRecords
    BY <2>1, <1>2, DataTyped
  <2>3. QED
    BY <1>1, <1>2, <2>2, GoesOnTyped DEF BaseTyped
<1>3. QED
  BY <1>1, <1>2, AbandonsTyped DEF CreateUser, CreateRole

\* The steps that stop the server, or see that it has stopped.
LEMMA StopTyped ==
    ASSUME BaseTyped, ShutdownServer \/ AwaitGone \/ StopPostgres \/ RemoveAutoCnf
    PROVE  BaseTyped'
<1>1. CliFrame /\ (ImportAt(6) \/ ((ImportAt(7) \/ ImportAt(8)) /\ Mysql))
  BY Places DEF ShutdownServer, AwaitGone, StopPostgres, RemoveAutoCnf, BaseTyped
<1>2. {"closing", "down"} \subseteq States
  BY DEF States
<1>3. ASSUME Proceeds, SameShots, SameHost, data' \in DataRecords,
             server' \in [Sockets -> States]
      PROVE  BaseTyped'
  BY <1>1, <1>3, GoesOnTyped
<1>4. CASE ShutdownServer
  BY <1>1, <1>2, <1>3, <1>4, ServersTyped, AbandonsTyped DEF ShutdownServer, BaseTyped
<1>5. CASE AwaitGone
  BY <1>1, <1>3, <1>5, QuitsTyped DEF AwaitGone, BaseTyped, StaysDown
<1>6. CASE StopPostgres
  BY <1>1, <1>2, <1>3, <1>6, ServersTyped, DataTyped, AbandonsTyped
     DEF StopPostgres, BaseTyped
<1>7. CASE RemoveAutoCnf
  BY <1>1, <1>3, <1>7, DataTyped, QuitsTyped DEF RemoveAutoCnf, BaseTyped
<1>8. QED
  BY <1>4, <1>5, <1>6, <1>7

\* Loading: the command changes, and stays where it is.
LEMMA LoadingTyped ==
    ASSUME BaseTyped, Loading, cli' \in Commands, cli'.path = cli.path, cli'.at = cli.at,
           data' \in DataRecords, server' = server
    PROVE  BaseTyped'
<1>1. CliTyped'
  BY SameCommandTyped DEF Loading, CliFrame, BaseTyped, CliTyped
<1>2. QED
  BY <1>1, CliStepTyped DEF Loading, BaseTyped, SameShots, SameHost

LEMMA LoadSchemaTyped ==
    ASSUME BaseTyped, LoadSchema
    PROVE  BaseTyped'
<1> DEFINE p == CHOOSE q \in SchemaTodo : TRUE
<1>1. Loading /\ server' = server
  BY DEF LoadSchema
<1>2. {p} \in SUBSET Pieces /\ cli.todo \in SUBSET Pieces
  BY DEF LoadSchema, SchemaTodo, Pieces, BaseTyped, CliTyped, Commands
<1>3. cli' = [cli EXCEPT !.todo = @ \ {p}] \/ cli' = [cli EXCEPT !.err = TRUE, !.todo = {}]
  BY DEF LoadSchema
<1>4. \/ data' = [data EXCEPT !.loaded = @ \cup {p}]
      \/ data' = [data EXCEPT !.torn = @ \cup {p}]
  BY DEF LoadSchema
<1> HIDE DEF p
<1>5. cli' \in Commands /\ cli'.path = cli.path /\ cli'.at = cli.at
  BY <1>2, <1>3 DEF BaseTyped, CliTyped, Commands
<1>6. data' \in DataRecords
  BY <1>2, <1>4, DataTyped
<1>7. QED
  BY <1>1, <1>5, <1>6, LoadingTyped

LEMMA DatafilesTyped ==
    ASSUME BaseTyped, ClaimFile \/ LaunchFile \/ FileEnds
    PROVE  BaseTyped'
<1>1. CASE ClaimFile
  <2>1. PICK p \in cli.todo : cli' = [cli EXCEPT !.claim = {p}, !.todo = @ \ {p}]
    BY <1>1 DEF ClaimFile
  <2>2. {p} \in SUBSET Pieces
    BY DEF BaseTyped, CliTyped, Commands
  <2>3. cli' \in Commands /\ cli'.path = cli.path /\ cli'.at = cli.at
    BY <2>1, <2>2 DEF BaseTyped, CliTyped, Commands
  <2>4. QED
    BY <1>1, <2>3, LoadingTyped DEF ClaimFile, Idling, StaysDown, BaseTyped
<1>2. CASE LaunchFile
  <2>1. cli' \in Commands /\ cli'.path = cli.path /\ cli'.at = cli.at
    BY <1>2 DEF LaunchFile, BaseTyped, CliTyped, Commands
  <2>2. QED
    BY <1>2, <2>1, LoadingTyped DEF LaunchFile, Idling, StaysDown, BaseTyped
<1>3. CASE FileEnds
  <2>1. PICK p \in cli.busy :
           /\ \/ cli' = [cli EXCEPT !.busy = @ \ {p}]
              \/ cli' = [cli EXCEPT !.busy = @ \ {p}, !.err = TRUE]
           /\ \/ data' = [data EXCEPT !.loaded = @ \cup {p}]
              \/ data' = [data EXCEPT !.torn = @ \cup {p}]
           /\ UNCHANGED server
    BY <1>3 DEF FileEnds
  <2>2. {p} \in SUBSET Pieces
    BY DEF BaseTyped, CliTyped, Commands
  <2>3. cli' \in Commands /\ cli'.path = cli.path /\ cli'.at = cli.at
    BY <2>1 DEF BaseTyped, CliTyped, Commands
  <2>4. data' \in DataRecords
    BY <2>1, <2>2, DataTyped
  <2>5. QED
    BY <1>3, <2>1, <2>3, <2>4, LoadingTyped DEF FileEnds
<1>4. QED
  BY <1>1, <1>2, <1>3

LEMMA LoadOverTyped ==
    ASSUME BaseTyped, LoadOver
    PROVE  BaseTyped'
<1>1. ImportAt(4) /\ CliFrame
  BY Places DEF LoadOver, BaseTyped
<1>2. ASSUME Proceeds, StaysDown, SameShots, SameHost PROVE BaseTyped'
  BY <1>1, <1>2, GoesOnTyped DEF BaseTyped, StaysDown
<1>3. QED
  BY <1>1, <1>2, AbandonsTyped DEF LoadOver

LEMMA LoadPostgresTyped ==
    ASSUME BaseTyped, LoadPostgres
    PROVE  BaseTyped'
<1>1. ImportAt(4) /\ CliFrame /\ SameShots /\ SameHost
  BY Places DEF LoadPostgres, BaseTyped
<1>2. cli.want \in SUBSET Pieces /\ "down" \in States
  BY DEF BaseTyped, CliTyped, Commands, States
<1>3. data' \in DataRecords /\ server' \in [Sockets -> States]
  BY <1>2, DataTyped, ServersTyped DEF LoadPostgres, BaseTyped
<1>4. CASE Proceeds
  BY <1>1, <1>3, <1>4, GoesOnTyped
<1>5. CASE Ends
  BY <1>1, <1>3, <1>5, EndsTyped, CliStepTyped DEF BaseTyped, SameShots, SameHost
<1>6. QED
  BY <1>4, <1>5 DEF LoadPostgres

LEMMA ImportShotTyped ==
    ASSUME BaseTyped, ImportSnapshot \/ ImportCopy
    PROVE  BaseTyped'
<1>1. /\ CliFrame /\ SameHost /\ StaysDown /\ UNCHANGED current
      /\ cli.path = "import" /\ cli.at + 1 <= LastStep
  BY Places DEF ImportSnapshot, ImportCopy, BaseTyped, LastStep, ImportAt
<1>2. CASE TakesShot("import")
  <2>1. shots' \in [Ids -> Shots] /\ CliTyped'
    BY <1>1, <1>2, TakesShotTyped DEF Makers, CliFrame
  <2>2. QED
    BY <1>1, <2>1, CliStepTyped DEF BaseTyped, SameHost, StaysDown
<1>3. CASE Ends /\ (CopyCut \/ UNCHANGED shots)
  <2>1. shots' \in [Ids -> Shots]
    BY <1>3, CopyCutTyped DEF BaseTyped
  <2>2. QED
    BY <1>1, <1>3, <2>1, EndsTyped, CliStepTyped DEF BaseTyped, SameHost, StaysDown
<1>4. QED
  BY <1>2, <1>3 DEF ImportSnapshot, ImportCopy

LEMMA RegisterTyped ==
    ASSUME BaseTyped, Register
    PROVE  BaseTyped'
<1>1. current' \in 0..MaxShots
  BY DEF Register, BaseTyped, CliTyped, Commands
<1>2. QED
  BY <1>1, EndsTyped, CliStepTyped DEF Register, BaseTyped, SameHost, StaysDown

LEMMA ImportTyped == BaseTyped /\ ImportStep => BaseTyped'
BY CheckFreshTyped, ClearDirTyped, InitializeTyped, StartServerTyped, UserTyped, StopTyped,
   LoadSchemaTyped, DatafilesTyped, LoadOverTyped, LoadPostgresTyped, ImportShotTyped,
   RegisterTyped DEF ImportStep

LEMMA ReplaceBaseTyped ==
    ASSUME BaseTyped, ReplaceBase
    PROVE  BaseTyped'
<1>1. StreamAt(2) /\ CliFrame
  BY Places DEF ReplaceBase, BaseTyped
<1>2. ASSUME Proceeds, StaysDown, SameShots, SameHost PROVE BaseTyped'
  BY <1>1, <1>2, GoesOnTyped DEF BaseTyped, StaysDown
<1>3. ASSUME Proceeds, UNCHANGED <<pass, server, current>>, data' = Empty,
             shots' = [s \in Ids |-> [shots[s] EXCEPT !.there = FALSE]]
      PROVE  BaseTyped'
  <2>1. \A s \in Ids : [shots[s] EXCEPT !.there = FALSE] \in Shots
    BY DEF BaseTyped, Shots
  <2>2. shots' \in [Ids -> Shots]
    BY <1>3, <2>1
  <2>3. CliTyped'
    BY <1>1, <1>3, ProceedsTyped DEF CliFrame
  <2>4. QED
    BY <1>1, <1>3, <2>2, <2>3, EmptyTyped, CliStepTyped DEF BaseTyped
<1>4. QED
  BY <1>1, <1>2, <1>3, QuitsTyped DEF ReplaceBase

LEMMA ReceiveTyped ==
    ASSUME BaseTyped, Receive
    PROVE  BaseTyped'
<1>1. StreamAt(4) /\ CliFrame /\ UNCHANGED <<pass, current, server>>
  BY Places DEF Receive, BaseTyped
<1>2. CASE ~base
  <2>1. CASE Ends /\ UNCHANGED <<base, data, shots>>
    BY <1>1, <2>1, EndsTyped, CliStepTyped DEF BaseTyped
  <2>2. CASE ~(Ends /\ UNCHANGED <<base, data, shots>>)
    <3>1. PICK p \in Passwords, named \in BOOLEAN :
             /\ data' = [Empty EXCEPT !.made = "whole", !.user = p]
             /\ \E s \in Fresh :
                /\ shots' = [shots EXCEPT ![s] = [by |-> "stream", there |-> TRUE,
                                                   first |-> named]]
                /\ \/ cli' = [cli EXCEPT !.at = @ + 1, !.shot = s]
                   \/ Ends
      BY <2>2 DEF Receive
    <3>2. PICK s \in Fresh :
             /\ shots' = [shots EXCEPT ![s] = [by |-> "stream", there |-> TRUE,
                                                first |-> named]]
             /\ \/ cli' = [cli EXCEPT !.at = @ + 1, !.shot = s]
                \/ Ends
      BY <3>1
    <3>3. data' \in DataRecords
      BY <3>1, EmptyTyped DEF DataRecords
    <3>4. [by |-> "stream", there |-> TRUE, first |-> named] \in Shots
      BY DEF Shots, Makers
    <3>5. shots' \in [Ids -> Shots]
      BY <3>2, <3>4 DEF BaseTyped
    <3>6. CASE cli' = [cli EXCEPT !.at = @ + 1, !.shot = s]
      <4>1. s \in 0..MaxShots /\ cli.at = 4 /\ cli.path = "stream"
        BY <1>1, BaseAssumption DEF StreamAt, Fresh, Ids
      <4>2. cli' \in Commands /\ cli'.path = cli.path /\ cli'.at = 5
        <5>1. cli \in Commands /\ 5 \in 1..10
          BY DEF BaseTyped, CliTyped
        <5>2. [cli EXCEPT !.at = 5, !.shot = s] \in Commands
          BY <5>1, <4>1 DEF Commands
        <5>3. cli' = [cli EXCEPT !.at = 5, !.shot = s]
          BY <4>1, <3>6
        <5>4. QED
          BY <5>1, <5>2, <5>3, <4>1 DEF Commands
      <4>3. CliTyped'
        BY <1>1, <4>1, <4>2, SameCommandTyped DEF CliFrame, LastStep
      <4>4. QED
        BY <1>1, <3>3, <3>5, <4>3, CliStepTyped DEF BaseTyped
    <3>7. CASE Ends
      BY <1>1, <3>3, <3>5, <3>7, EndsTyped, CliStepTyped DEF BaseTyped
    <3>8. QED
      BY <3>2, <3>6, <3>7
  <2>3. QED
    BY <2>1, <2>2
<1>3. CASE base
  BY <1>1, <1>3, EndsTyped, CliStepTyped DEF BaseTyped, Receive
<1>4. QED
  BY <1>2, <1>3

LEMMA StreamTyped == BaseTyped /\ StreamStep => BaseTyped'
<1> SUFFICES ASSUME BaseTyped, StreamStep PROVE BaseTyped'
  OBVIOUS
<1>1. ASSUME CliFrame, StreamAt(1) \/ StreamAt(3), Proceeds, StaysDown, SameShots, SameHost
      PROVE  BaseTyped'
  BY <1>1, GoesOnTyped DEF BaseTyped, StaysDown
<1>2. CASE CheckSpare
  <2>1. StreamAt(1)
    BY <1>2, Places DEF CheckSpare, BaseTyped
  <2>2. QED
    BY <1>1, <1>2, <2>1, QuitsTyped DEF CheckSpare
<1>3. CASE OpenSource
  <2>1. StreamAt(3)
    BY <1>3, Places DEF OpenSource, BaseTyped
  <2>2. QED
    BY <1>1, <1>3, <2>1, QuitsTyped DEF OpenSource
<1>4. QED
  BY <1>2, <1>3, ReplaceBaseTyped, ReceiveTyped DEF StreamStep

LEMMA DatadirTyped ==
    ASSUME BaseTyped, InitDatadir
    PROVE  BaseTyped'
<1>1. InitAt(1) /\ CliFrame /\ SameShots /\ UNCHANGED <<pass, server>>
  BY Places DEF InitDatadir, BaseTyped
<1>2. data' \in DataRecords
  BY DataTyped DEF InitDatadir, BaseTyped
<1>3. CliTyped'
  BY <1>1, ProceedsTyped, EndsTyped DEF InitDatadir, CliFrame
<1>4. QED
  BY <1>1, <1>2, <1>3, CliStepTyped DEF BaseTyped, SameShots

LEMMA DevStartTyped ==
    ASSUME BaseTyped, DevStart
    PROVE  BaseTyped'
<1>1. InitAt(2) /\ CliFrame
  BY Places DEF DevStart, BaseTyped
<1>2. ASSUME Skips(3), StaysDown, SameShots, SameHost PROVE BaseTyped'
  <2>1. cli.at + 3 <= LastStep
    BY <1>1 DEF InitAt, LastStep
  <2>2. CliTyped'
    BY <1>1, <1>2, <2>1, SkipsTyped DEF CliFrame
  <2>3. QED
    BY <1>1, <1>2, <2>2, CliStepTyped DEF BaseTyped, StaysDown, SameShots, SameHost
<1>3. ASSUME Proceeds, Starts("init"), SameShots, SameHost PROVE BaseTyped'
  BY <1>1, <1>3, StartsTyped, GoesOnTyped
<1>4. QED
  BY <1>1, <1>2, <1>3, QuitsTyped DEF DevStart

LEMMA DevServerTyped ==
    ASSUME BaseTyped, DevUser \/ DevRole \/ DevStop \/ DevPgStop
    PROVE  BaseTyped'
<1>1. CliFrame /\ (InitAt(3) \/ InitAt(4))
  BY Places DEF DevUser, DevRole, DevStop, DevPgStop, BaseTyped
<1>2. {"closing", "down"} \subseteq States /\ cli.pass \in {0} \cup Passwords
  BY DEF States, BaseTyped, CliTyped, Commands
<1>3. ASSUME SameShots, SameHost, Proceeds \/ Ends, data' \in DataRecords,
             server' \in [Sockets -> States]
      PROVE  BaseTyped'
  <2>1. CliTyped'
    BY <1>1, <1>3, ProceedsTyped, EndsTyped DEF CliFrame
  <2>2. QED
    BY <1>1, <1>3, <2>1, CliStepTyped DEF BaseTyped, SameShots, SameHost
<1>4. CASE DevUser
  <2>1. data' \in DataRecords
    BY <1>2, <1>4, DataTyped, ZenonT(40) DEF DevUser, BaseTyped, DataRecords
  <2>2. server' \in [Sockets -> States]
    BY <1>2, <1>4, ServersTyped DEF DevUser, BaseTyped
  <2>3. QED
    BY <1>3, <1>4, <2>1, <2>2 DEF DevUser
<1>5. CASE DevRole
  <2>1. data' \in DataRecords
    BY <1>2, <1>5, DataTyped DEF DevRole, BaseTyped, StaysDown
  <2>2. server' \in [Sockets -> States]
    BY <1>2, <1>5, ServersTyped DEF DevRole, BaseTyped, StaysDown
  <2>3. QED
    BY <1>3, <1>5, <2>1, <2>2 DEF DevRole
<1>6. CASE DevStop
  <2>1. server' \in [Sockets -> States] /\ data' \in DataRecords
    BY <1>2, <1>6, ServersTyped DEF DevStop, BaseTyped
  <2>2. CASE UNCHANGED cli
    <3>1. CliTyped'
      BY <1>1, <2>2, SameCommandTyped DEF CliFrame, BaseTyped, CliTyped
    <3>2. QED
      BY <1>1, <1>6, <2>1, <3>1, CliStepTyped DEF DevStop, BaseTyped, SameShots, SameHost
  <2>3. QED
    BY <1>3, <1>6, <2>1, <2>2 DEF DevStop
<1>7. CASE DevPgStop
  BY <1>1, <1>2, <1>3, <1>7, ServersTyped, DataTyped, QuitsTyped DEF DevPgStop
<1>8. QED
  BY <1>4, <1>5, <1>6, <1>7

LEMMA CloneFileTyped ==
    ASSUME BaseTyped, CloneFile
    PROVE  BaseTyped'
<1>1. InitAt(5) /\ CliFrame /\ SameHost /\ UNCHANGED <<server, current>>
  BY Places DEF CloneFile, BaseTyped
<1>2. data' \in DataRecords
  BY DataTyped DEF CloneFile, BaseTyped
<1>3. cli.at + 1 <= LastStep
  BY <1>1 DEF InitAt, LastStep
<1>4. shots' \in [Ids -> Shots] /\ CliTyped'
  <2>1. CASE Proceeds /\ UNCHANGED shots
    BY <1>1, <2>1, ProceedsTyped DEF BaseTyped, CliFrame
  <2>2. CASE TakesShot("init")
    BY <1>1, <1>3, <2>2, TakesShotTyped DEF Makers, CliFrame
  <2>3. CASE Ends /\ (CopyCut \/ UNCHANGED shots)
    BY <1>1, <2>3, CopyCutTyped, EndsTyped DEF BaseTyped
  <2>4. QED
    BY <2>1, <2>2, <2>3 DEF CloneFile
<1>5. QED
  BY <1>1, <1>2, <1>4, CliStepTyped DEF BaseTyped, SameHost

LEMMA WriteConfigTyped ==
    ASSUME BaseTyped, WriteConfig
    PROVE  BaseTyped'
<1>1. pass' \in {0} \cup Passwords
  BY DEF WriteConfig, BaseTyped, CliTyped, Commands
<1>2. QED
  BY <1>1, EndsTyped, CliStepTyped DEF WriteConfig, BaseTyped, StaysDown, SameShots

LEMMA InitTyped == BaseTyped /\ InitStep => BaseTyped'
BY DatadirTyped, DevStartTyped, DevServerTyped, CloneFileTyped, WriteConfigTyped DEF InitStep

LEMMA CliStopsTyped ==
    ASSUME BaseTyped, CliStops
    PROVE  BaseTyped'
<1>1. data' \in DataRecords
  BY DataTyped DEF CliStops, BaseTyped
<1>2. shots' \in [Ids -> Shots]
  BY CopyCutTyped DEF CliStops, BaseTyped
<1>3. QED
  BY <1>1, <1>2, EndsTyped, CliStepTyped DEF CliStops, BaseTyped, SameHost

LEMMA BeginTyped ==
    ASSUME BaseTyped, NEW path \in Paths, NEW want \in SUBSET Pieces, NEW force \in BOOLEAN,
           NEW p \in {0} \cup Passwords, Begin(path, want, force, p)
    PROVE  BaseTyped'
<1>1. NoCommand \in Commands
  BY BaseAssumption DEF NoCommand, Commands, Paths
<1>2. cli' \in Commands /\ cli'.at = 1
  BY <1>1 DEF Begin, NoCommand, Commands
<1>3. CliTyped'
  BY <1>2 DEF Begin, LastStep, CliTyped, BaseTyped, Commands, Paths
<1>4. daemon' \in Building
  BY DEF Begin, Mixes, BaseTyped, Building, Builds
<1>5. QED
  BY <1>3, <1>4 DEF Begin, BaseTyped

LEMMA StartTyped ==
    ASSUME BaseTyped, StartImport \/ StartStream \/ StartDarwinInit
    PROVE  BaseTyped'
<1>1. {"import", "stream", "init"} \subseteq Paths /\ {} \in SUBSET Pieces
      /\ pass \in {0} \cup Passwords
  BY DEF Paths, BaseTyped
<1>2. CASE StartImport
  <2>1. PICK want \in {{}, Pieces} : Begin("import", want, FALSE, pass)
    BY <1>2 DEF StartImport
  <2>2. QED
    BY <1>1, <2>1, BeginTyped
<1>3. CASE StartStream
  <2>1. PICK force \in BOOLEAN : Begin("stream", {}, force, pass)
    BY <1>3 DEF StartStream
  <2>2. QED
    BY <1>1, <2>1, BeginTyped
<1>4. CASE StartDarwinInit
  <2>1. PICK p \in Passwords : Begin("init", {}, FALSE, p)
    BY <1>4 DEF StartDarwinInit
  <2>2. QED
    BY <1>1, <2>1, BeginTyped
<1>5. QED
  BY <1>2, <1>3, <1>4

\* What the steps of a build leave alone.
LEMMA BuildStepTyped ==
    ASSUME BaseTyped, DaemonFrame, daemon' \in Building, data' \in DataRecords,
           server' \in [Sockets -> States], shots' \in [Ids -> Shots],
           current' \in 0..MaxShots
    PROVE  BaseTyped'
<1>1. LastStep' = LastStep
  BY DEF DaemonFrame, LastStep, Mysql
<1>2. QED
  BY <1>1 DEF BaseTyped, CliTyped, DaemonFrame

LEMMA BuildTyped ==
    ASSUME BaseTyped
    PROVE  /\ NoBuild \in Building
           /\ \A pc \in Pcs \ {"record"} : Goto(pc) => daemon' \in Building
           /\ PassesBlind \/ Passes => daemon' \in Building
BY NoBuildTyped, ZenonT(40) DEF Goto, BaseTyped, Building, Builds, Pcs, PassesBlind, Passes

LEMMA LoaderTyped ==
    ASSUME BaseTyped, StopLeftover \/ LoaderStarts \/ FilesDone \/ SyncUser \/ RecordFile
                      \/ LoaderStops \/ LoaderGone \/ LoaderFails
    PROVE  BaseTyped'
<1>1. {"files", "reclaim", "sync", "undo", "stop", "gone", "quiesce"}
         \subseteq Pcs \ {"record"}
      /\ "closing" \in States
  BY DEF Pcs, States
<1>2. DaemonFrame /\ SameShots
  BY DEF StopLeftover, LoaderStarts, FilesDone, SyncUser, RecordFile, LoaderStops, LoaderGone,
         LoaderFails, In
<1>3. ASSUME daemon' \in Building, data' \in DataRecords, server' \in [Sockets -> States]
      PROVE  BaseTyped'
  BY <1>2, <1>3, BuildStepTyped DEF BaseTyped, SameShots
<1>4. CASE StopLeftover
  BY <1>1, <1>3, <1>4, ServersTyped DEF StopLeftover, BaseTyped
<1>5. CASE LoaderStarts
  <2>1. daemon' \in Building
    BY <1>1, <1>5, BuildTyped DEF LoaderStarts
  <2>2. server' \in [Sockets -> States] /\ data' \in DataRecords
    BY <1>5, StartsTyped DEF LoaderStarts, BaseTyped, StaysDown
  <2>3. QED
    BY <1>3, <2>1, <2>2
<1>6. CASE FilesDone
  BY <1>1, <1>3, <1>6, BuildTyped DEF FilesDone, StaysDown, BaseTyped
<1>7. CASE SyncUser
  <2>1. daemon' \in Building
    BY <1>1, <1>7, BuildTyped DEF SyncUser
  <2>2. server' \in [Sockets -> States] /\ data' \in DataRecords
    BY <1>7, DataTyped DEF SyncUser, BaseTyped
  <2>3. QED
    BY <1>3, <2>1, <2>2
<1>8. CASE RecordFile
  <2>1. daemon' \in Building
    BY <1>1, <1>8, BuildTyped DEF RecordFile
  <2>2. data' \in DataRecords
    BY <1>8 DEF RecordFile, In, BaseTyped, Building, DataRecords
  <2>3. QED
    BY <1>3, <1>8, <2>1, <2>2 DEF RecordFile, BaseTyped
<1>9. CASE LoaderStops
  BY <1>1, <1>3, <1>9, ServersTyped, BuildTyped DEF LoaderStops, BaseTyped
<1>10. CASE LoaderGone
  BY <1>1, <1>3, <1>10, BuildTyped DEF LoaderGone, BaseTyped, StaysDown
<1>11. CASE LoaderFails
  BY <1>1, <1>3, <1>11, ServersTyped, BuildTyped DEF LoaderFails, BaseTyped
<1>12. QED
  BY <1>4, <1>5, <1>6, <1>7, <1>8, <1>9, <1>10, <1>11

LEMMA ApplyFileTyped ==
    ASSUME BaseTyped, ApplyFile
    PROVE  BaseTyped'
<1>1. DaemonFrame /\ SameShots /\ UNCHANGED server
  BY DEF ApplyFile, In
<1>2. PICK f \in Pending :
         \/ /\ data' = [data EXCEPT !.applied = @ \cup {f}, !.torn = @ \ {f}]
            /\ daemon' = [daemon EXCEPT !.pc = "record", !.file = f]
         \/ Goto("undo") /\ data' \in {data, [data EXCEPT !.torn = @ \cup {f}]}
  BY DEF ApplyFile
<1>3. f \in Files
  BY DEF Pending, BaseTyped, Building, Builds
<1>4. CASE /\ data' = [data EXCEPT !.applied = @ \cup {f}, !.torn = @ \ {f}]
           /\ daemon' = [daemon EXCEPT !.pc = "record", !.file = f]
  <2>1. data' \in DataRecords
    BY <1>3, <1>4 DEF BaseTyped, DataRecords
  <2>2. daemon' \in Building
    BY <1>3, <1>4 DEF BaseTyped, Building, Builds, Pcs
  <2>3. QED
    BY <1>1, <2>1, <2>2, BuildStepTyped DEF BaseTyped, SameShots
<1>5. CASE Goto("undo") /\ data' \in {data, [data EXCEPT !.torn = @ \cup {f}]}
  <2>1. data' \in DataRecords
    BY <1>3, <1>5 DEF BaseTyped, DataRecords
  <2>2. daemon' \in Building
    BY <1>5, BuildTyped DEF Pcs
  <2>3. QED
    BY <1>1, <2>1, <2>2, BuildStepTyped DEF BaseTyped, SameShots
<1>6. QED
  BY <1>2, <1>4, <1>5

LEMMA TerminatesTyped ==
    ASSUME BaseTyped, Terminates
    PROVE  server' \in [Sockets -> States]
BY DEF Terminates, BaseTyped, States

LEMMA ScriptTyped ==
    ASSUME BaseTyped, ScriptRuns
    PROVE  BaseTyped'
<1>1. daemon' \in Building
  BY BuildTyped DEF ScriptRuns, Pcs
<1>2. \A u \in {0} \cup Passwords, c \in BOOLEAN :
         /\ [Begun EXCEPT !.user = u] \in DataRecords
         /\ [Begun EXCEPT !.user = u, !.clean = c] \in DataRecords
  BY BegunTyped DEF DataRecords
<1>3. data' \in DataRecords
  BY <1>2 DEF ScriptRuns, BaseTyped, StaysDown
<1>4. server' \in [Sockets -> States]
  BY ServersTyped DEF ScriptRuns, BaseTyped, StaysDown, States
<1>5. QED
  BY <1>1, <1>3, <1>4, BuildStepTyped DEF ScriptRuns, In, BaseTyped, SameShots

LEMMA CheckTyped ==
    ASSUME BaseTyped, Reclaim \/ Quiesce \/ RemoveBaseAutoCnf
    PROVE  BaseTyped'
<1>1. {"requiesce", "snapshot", "autocnf"} \subseteq Pcs \ {"record"}
  BY DEF Pcs
<1>2. DaemonFrame /\ SameShots
  BY DEF Reclaim, Quiesce, RemoveBaseAutoCnf, In
<1>3. ASSUME daemon' \in Building, data' \in DataRecords, server' \in [Sockets -> States]
      PROVE  BaseTyped'
  BY <1>2, <1>3, BuildStepTyped DEF BaseTyped, SameShots
<1>4. CASE Reclaim
  BY <1>3, <1>4, NoBuildTyped, TerminatesTyped DEF Reclaim, BuildEnds, BaseTyped
<1>5. CASE Quiesce
  <2>1. server' \in [Sockets -> States]
    BY <1>5, TerminatesTyped DEF Quiesce, BaseTyped
  <2>2. daemon' \in Building
    BY <1>1, <1>5, BuildTyped DEF Quiesce, BuildEnds
  <2>3. QED
    BY <1>3, <1>5, <2>1, <2>2 DEF Quiesce, BaseTyped
<1>6. CASE RemoveBaseAutoCnf
  <2>1. data' \in DataRecords
    BY <1>6, DataTyped DEF RemoveBaseAutoCnf, BaseTyped
  <2>2. [daemon EXCEPT !.pc = "snapshot", !.blind = TRUE] \in Building
    BY DEF BaseTyped, Building, Builds, Pcs
  <2>3. daemon' \in Building
    BY <1>1, <1>6, <2>2, BuildTyped DEF RemoveBaseAutoCnf, BuildEnds
  <2>4. QED
    BY <1>3, <1>6, <2>1, <2>3 DEF RemoveBaseAutoCnf, BaseTyped
<1>7. QED
  BY <1>4, <1>5, <1>6

LEMMA PublishTyped ==
    ASSUME BaseTyped, SnapshotBase \/ Publish
    PROVE  BaseTyped'
<1>1. DaemonFrame /\ StaysDown
  BY DEF SnapshotBase, Publish, In
<1>2. CASE SnapshotBase
  <2>1. CASE Shot(daemon.how, FALSE)
             /\ \E s \in Fresh : daemon' = [daemon EXCEPT !.pc = "publish", !.shot = s]
    <3>1. daemon.how \in Makers
      BY DEF BaseTyped, Building, Builds, Hows, Makers
    <3>2. shots' \in [Ids -> Shots]
      BY <2>1, <3>1, ShotTyped
    <3>3. PICK s \in Fresh : daemon' = [daemon EXCEPT !.pc = "publish", !.shot = s]
      BY <2>1
    <3>4. s \in 0..MaxShots
      BY BaseAssumption DEF Fresh, Ids
    <3>5. daemon' \in Building
      BY <3>3, <3>4 DEF BaseTyped, Building, Builds, Pcs
    <3>6. QED
      BY <1>1, <1>2, <3>2, <3>5, BuildStepTyped DEF SnapshotBase, BaseTyped, StaysDown
  <2>2. CASE BuildEnds /\ (UNCHANGED shots \/ CopyCut)
    <3>1. shots' \in [Ids -> Shots] /\ daemon' \in Building
      BY <2>2, CopyCutTyped, NoBuildTyped DEF BuildEnds, BaseTyped
    <3>2. QED
      BY <1>1, <1>2, <3>1, BuildStepTyped DEF SnapshotBase, BaseTyped, StaysDown
  <2>3. QED
    BY <1>2, <2>1, <2>2 DEF SnapshotBase
<1>3. CASE Publish
  <2>1. current' \in 0..MaxShots /\ daemon' \in Building
    BY <1>3, NoBuildTyped DEF Publish, BuildEnds, BaseTyped, Building, Builds
  <2>2. QED
    BY <1>1, <1>3, <2>1, BuildStepTyped DEF Publish, BaseTyped, StaysDown
<1>4. QED
  BY <1>2, <1>3

LEMMA RefreshBeginsTyped ==
    ASSUME BaseTyped, RefreshBegins
    PROVE  BaseTyped'
<1>1. PICK how \in {"script"} \cup (IF CanLoad THEN {Loader} ELSE {}) :
      \E want \in (IF how = "script" THEN {{}} ELSE {{}, Files}) :
          daemon' = [NoBuild EXCEPT !.how = how, !.want = want, !.mixed = ~CliIdle,
                       !.pc = IF how = "script" THEN "script" ELSE "start"]
  BY DEF RefreshBegins
<1>2. how \in Hows
  BY <1>1 DEF Hows, Loader
<1>3. PICK want \in {{}, Files} :
          daemon' = [NoBuild EXCEPT !.how = how, !.want = want, !.mixed = ~CliIdle,
                       !.pc = IF how = "script" THEN "script" ELSE "start"]
  BY <1>1
<1>4. daemon' \in Building
  BY <1>2, <1>3, NoBuildTyped DEF Building, Builds, Pcs, CliIdle
<1>5. cli' \in Commands /\ cli'.path = cli.path /\ cli'.at = cli.at
  BY DEF RefreshBegins, Mixes, BaseTyped, CliTyped, Commands
<1>6. CliTyped'
  BY <1>5, SameCommandTyped DEF RefreshBegins, BaseTyped, CliTyped
<1>7. QED
  BY <1>4, <1>6 DEF RefreshBegins, BaseTyped

LEMMA RestartTyped ==
    ASSUME BaseTyped, DaemonRestarts
    PROVE  BaseTyped'
<1>1. CliTyped'
  BY DEF DaemonRestarts, BaseTyped, CliTyped, LastStep, Mysql
<1>2. shots' \in [Ids -> Shots] /\ daemon' \in Building
  BY CopyCutTyped, NoBuildTyped DEF DaemonRestarts, BuildEnds, BaseTyped
<1>3. QED
  BY <1>1, <1>2 DEF DaemonRestarts, BaseTyped

\* The steps of neither program.
LEMMA OtherTyped ==
    ASSUME BaseTyped,
           \/ CloneBranch \/ DropBranches \/ ChangePassword
           \/ \E k \in Sockets : ServerCloses(k) \/ ServerDies(k)
    PROVE  BaseTyped'
<1>1. UNCHANGED <<site, cli, daemon, shots, current, known>>
  BY DEF CloneBranch, DropBranches, ChangePassword, ServerCloses, ServerDies
<1>2. CliTyped'
  BY <1>1 DEF BaseTyped, CliTyped, LastStep, Mysql
<1>3. pass' \in {0} \cup Passwords
  BY DEF CloneBranch, DropBranches, ChangePassword, ServerCloses, ServerDies, BaseTyped
<1>4. server' \in [Sockets -> States]
  BY ServersTyped
     DEF CloneBranch, DropBranches, ChangePassword, ServerCloses, ServerDies, BaseTyped, States
<1>5. data' \in DataRecords
  BY DataTyped
     DEF CloneBranch, DropBranches, ChangePassword, ServerCloses, ServerDies, BaseTyped
<1>6. QED
  BY <1>1, <1>2, <1>3, <1>4, <1>5 DEF BaseTyped

LEMMA BaseNextTyped == BaseTyped /\ BaseNext => BaseTyped'
<1>1. ASSUME BaseTyped, RefreshStep PROVE BaseTyped'
  BY <1>1, LoaderTyped, ApplyFileTyped, ScriptTyped, CheckTyped, PublishTyped,
     RefreshBeginsTyped, RestartTyped DEF RefreshStep
<1>2. QED
  BY <1>1, StartTyped, ImportTyped, StreamTyped, InitTyped, CliStopsTyped, OtherTyped
     DEF BaseNext

-----------------------------------------------------------------------------
(***************************************************************************)
(* init on Linux                                                           *)
(*                                                                         *)
(* While the host is settled its sudoers and its helper let through what   *)
(* the configuration asks for, and an init under way is one for the pool   *)
(* of the configuration.  An init that is past the helper and the sudoers  *)
(* has left them as its own pool, and the configuration, need them.        *)
(***************************************************************************)

HelperAt == IF Mysql THEN 6 ELSE 5

\* What the configuration of host h asks root for is let through for pool p.
LetThrough(h, p) ==
    IF h.config.helper
    THEN h.sudoers.kind = "helper" /\ h.helper = p
    ELSE h.sudoers = [kind |-> "legacy", pool |-> p]

SettledInv(h, s) ==
    h.settled => /\ h.config.pool # NoPool
                 /\ LetThrough(h, h.config.pool)
                 /\ s.at # 0 => s.pool = h.config.pool

\* What init has done on host h, once it is at step n for pool p.
Progress(h, n, p) ==
    /\ n > HelperAt => h.helper = p
    /\ n > HelperAt + 1 =>
          h.sudoers = (IF h.config.pool = NoPool \/ h.config.helper
                       THEN [kind |-> "helper", pool |-> NoPool]
                       ELSE [kind |-> "legacy", pool |-> p])

ProfileInv(h) ==
    h.profile # NoPool /\ ~h.inherited /\ ~h.warned => h.disabled /\ h.loaded # "stock"

HostInv ==
    /\ setup.at <= Len(InitSteps) /\ (setup.at # 0 => setup.pool \in Pools)
    /\ SettledInv(host, setup) /\ Progress(host, setup.at, setup.pool) /\ ProfileInv(host)

LEMMA NoSetupTyped ==
    ASSUME HostTypeOK
    PROVE  LET s == [NoSetup EXCEPT !.runs = setup.runs] IN s \in Setups /\ s.at = 0
<1>1. setup.runs \in 0..MaxInits
  BY DEF HostTypeOK, Setups
<1>2. NoSetup \in Setups /\ NoSetup.at = 0
  BY HostAssumption DEF NoSetup, Setups, PoolOrNone
<1>3. QED
  BY <1>1, <1>2 DEF Setups

\* There is a first step of init.
LEMMA InitLength == 0 <= Len(InitSteps) /\ 1 <= Len(InitSteps)
<1>1. Len(MysqlInit) = 12 /\ Len(PostgresInit) = 11
  BY DEF MysqlInit, PostgresInit
<1>2. InitSteps = MysqlInit \/ InitSteps = PostgresInit
  BY DEF InitSteps
<1>3. QED
  BY <1>1, <1>2

\* The step of init under way by its number: where the helper and the sudoers
\* are written.
LEMMA InitPlaces ==
    ASSUME HostTypeOK, HostInv, NEW step, AtStep(step)
    PROVE  /\ setup.at \in 1..Len(InitSteps) /\ Len(InitSteps) = HelperAt + 6
           /\ setup.at = HelperAt <=> step = "helper"
           /\ setup.at = HelperAt + 1 <=> step = "sudoers"
           /\ setup.pool \in Pools
<1>1. setup.at \in 1..Len(InitSteps) /\ setup.pool \in Pools /\ step = InitSteps[setup.at]
  BY DEF HostTypeOK, HostInv, Setups, AtStep, InitIdle
<1>2. CASE Mysql
  <2>1. HelperAt = 6 /\ InitSteps = MysqlInit
    BY <1>2 DEF HelperAt, InitSteps
  <2>2. Len(MysqlInit) = 12
    BY DEF MysqlInit
  <2>3. \A i \in 1..12 : /\ i = 6 <=> MysqlInit[i] = "helper"
                         /\ i = 7 <=> MysqlInit[i] = "sudoers"
    BY DEF MysqlInit
  <2>4. QED
    BY <1>1, <2>1, <2>2, <2>3
<1>3. CASE ~Mysql
  <2>1. HelperAt = 5 /\ InitSteps = PostgresInit
    BY <1>3 DEF HelperAt, InitSteps
  <2>2. Len(PostgresInit) = 11
    BY DEF PostgresInit
  <2>3. \A i \in 1..11 : /\ i = 5 <=> PostgresInit[i] = "helper"
                         /\ i = 6 <=> PostgresInit[i] = "sudoers"
    BY DEF PostgresInit
  <2>4. QED
    BY <1>1, <2>1, <2>2, <2>3
<1>4. QED
  BY <1>2, <1>3

\* A step that is done, and left host h: either the next one, or the end.
LEMMA StepDone ==
    ASSUME HostTypeOK, HostInv, NEW step, AtStep(step), site' = site, NEW h \in Hosts,
           SettledInv(h, setup), Progress(h, setup.at + 1, setup.pool), ProfileInv(h),
           Next1(h)
    PROVE  HostTypeOK' /\ HostInv'
<1>1. HelperAt' = HelperAt /\ InitSteps' = InitSteps /\ HelperAt \in 5..6
  BY DEF HelperAt, InitSteps, Mysql
<1>2. /\ setup \in Setups /\ setup.at \in 1..Len(InitSteps) /\ Len(InitSteps) = HelperAt + 6
      /\ setup.pool \in Pools
  BY InitPlaces DEF HostTypeOK
<1>3. CASE setup.at = Len(InitSteps)
  <2>1. setup' = [NoSetup EXCEPT !.runs = setup.runs]
        /\ host' = [h EXCEPT !.settled = setup.pool = h.config.pool]
    BY <1>3 DEF Next1
  <2>2. setup' \in Setups /\ setup'.at = 0
    BY <2>1, NoSetupTyped
  <2>3. host' \in Hosts
    BY <2>1 DEF Hosts
  <2>4. /\ host'.settled <=> setup.pool = h.config.pool
        /\ host'.config = h.config /\ host'.sudoers = h.sudoers /\ host'.helper = h.helper
        /\ host'.profile = h.profile /\ host'.warned = h.warned /\ host'.disabled = h.disabled
        /\ host'.inherited = h.inherited /\ host'.loaded = h.loaded
    BY <2>1 DEF Hosts
  <2>5. h.helper = setup.pool
        /\ h.sudoers = (IF h.config.pool = NoPool \/ h.config.helper
                       THEN [kind |-> "helper", pool |-> NoPool]
                       ELSE [kind |-> "legacy", pool |-> setup.pool])
    BY <1>1, <1>2, <1>3 DEF Progress
  <2>6. setup.pool = h.config.pool => h.config.pool # NoPool /\ LetThrough(h, h.config.pool)
    BY <1>2, <2>5, HostAssumption DEF LetThrough
  <2>7. SettledInv(host', setup')
    BY <2>2, <2>4, <2>6 DEF SettledInv, LetThrough
  <2>8. Progress(host', setup'.at, setup'.pool) /\ ProfileInv(host')
    BY <1>1, <2>2, <2>4 DEF Progress, ProfileInv
  <2>9. QED
    BY <1>1, <1>2, <2>2, <2>3, <2>7, <2>8 DEF HostTypeOK, HostInv, SettledInv, LetThrough,
                                              Progress, ProfileInv
<1>4. CASE setup.at # Len(InitSteps)
  <2>1. setup' = [setup EXCEPT !.at = @ + 1] /\ host' = h
    BY <1>4 DEF Next1
  <2>2. setup.at + 1 \in 1..Len(InitSteps) /\ setup.at + 1 \in 0..14
    BY <1>1, <1>2, <1>4, SMTT(30)
  <2>3. setup' \in Setups /\ setup'.at = setup.at + 1 /\ setup'.pool = setup.pool
    BY <1>2, <2>1, <2>2 DEF Setups
  <2>4. SettledInv(host', setup')
    BY <1>2, <2>1, <2>3 DEF SettledInv
  <2>5. QED
    BY <1>1, <1>2, <2>1, <2>2, <2>3, <2>4
       DEF HostTypeOK, HostInv, SettledInv, LetThrough, Progress, ProfileInv
<1>5. QED
  BY <1>3, <1>4

\* A step that failed, or in which init was stopped.
LEMMA StepCut ==
    ASSUME HostTypeOK, HostInv, site' = site, host' \in Hosts, SettledInv(host', setup),
           ProfileInv(host'), setup' = [NoSetup EXCEPT !.runs = setup.runs]
    PROVE  HostTypeOK' /\ HostInv'
<1>1. HelperAt' = HelperAt /\ InitSteps' = InitSteps /\ HelperAt \in 5..6
  BY DEF HelperAt, InitSteps, Mysql
<1>2. setup' \in Setups /\ setup'.at = 0
  BY NoSetupTyped
<1>3. 0 <= Len(InitSteps)
  BY InitLength
<1>4. SettledInv(host', setup')
  BY <1>2 DEF SettledInv
<1>5. QED
  BY <1>1, <1>2, <1>3, <1>4 DEF HostTypeOK, HostInv, SettledInv, LetThrough, Progress, ProfileInv

\* Host h is as far as it matters here what the host was.
Alike(h) ==
    /\ h \in Hosts
    /\ h.helper = host.helper /\ h.sudoers = host.sudoers /\ h.settled = host.settled
    /\ h.config.pool = host.config.pool /\ h.config.helper = host.config.helper
    /\ ProfileInv(h)

\* A host that differs in nothing the invariant asks of keeps it.
LEMMA AlikeKeeps ==
    ASSUME HostTypeOK, HostInv, NEW h, Alike(h)
    PROVE  /\ h \in Hosts /\ SettledInv(h, setup) /\ ProfileInv(h)
           /\ \A step : AtStep(step) /\ step \notin {"helper", "sudoers"} =>
                 Progress(h, setup.at + 1, setup.pool)
<1>1. h \in Hosts /\ SettledInv(h, setup) /\ ProfileInv(h)
  BY DEF Alike, HostInv, SettledInv, LetThrough
<1>2. ASSUME NEW step, AtStep(step), step \notin {"helper", "sudoers"}
      PROVE  Progress(h, setup.at + 1, setup.pool)
  <2>1. setup.at \in Nat /\ setup.at # HelperAt /\ setup.at # HelperAt + 1
    BY <1>2, InitPlaces DEF HostTypeOK, Setups
  <2>2. HelperAt \in Nat
    BY DEF HelperAt
  <2>3. Progress(host, setup.at, setup.pool)
    BY DEF HostInv
  <2>4. QED
    BY <2>1, <2>2, <2>3 DEF Alike, Progress
<1>3. QED
  BY <1>1, <1>2

\* The host is such a host itself.
LEMMA HostIsAlike ==
    ASSUME HostTypeOK, HostInv
    PROVE  Alike(host)
BY DEF HostTypeOK, HostInv, Alike

\* Every step but those of the helper and of the sudoers.
LEMMA PlainStep ==
    ASSUME HostTypeOK, HostInv, NEW step, AtStep(step), step \notin {"helper", "sudoers"},
           NEW h, NEW cut, Runs(h, cut), Alike(h), \A g \in cut : Alike(g)
    PROVE  HostTypeOK' /\ HostInv'
<1>1. site' = site
  BY DEF Runs, SameBase
<1>2. CASE Next1(h)
  BY <1>1, <1>2, AlikeKeeps, StepDone
<1>3. CASE setup' = [NoSetup EXCEPT !.runs = setup.runs] /\ host' \in {host} \cup cut
  <2>1. host' \in Hosts /\ SettledInv(host', setup) /\ ProfileInv(host')
    BY <1>3, HostIsAlike, AlikeKeeps
  <2>2. QED
    BY <1>1, <1>3, <2>1, StepCut
<1>4. QED
  BY <1>2, <1>3 DEF Runs

\* A step that leaves such a host behind keeps the invariant, however it
\* ends.
LEMMA DoneStep ==
    ASSUME HostTypeOK, HostInv, NEW step, NEW done, Done(step, done),
           step \notin {"helper", "sudoers"}
    PROVE  HostTypeOK' /\ HostInv'
<1>1. AtStep(step) /\ Next1(host) /\ site' = site
  BY DEF Done, SameBase
<1>2. QED
  BY <1>1, HostIsAlike, AlikeKeeps, StepDone

\* The distribution's own mysqld is stopped.
LEMMA ServiceKeeps ==
    ASSUME HostTypeOK, HostInv, ServiceStep
    PROVE  HostTypeOK' /\ HostInv'
<1>1. Alike([host EXCEPT !.stopped = TRUE])
  BY HostIsAlike DEF Alike, Hosts, ProfileInv
<1>2. CASE Todo("service", host.stopped) /\ Runs([host EXCEPT !.stopped = TRUE], {})
  BY <1>1, <1>2, PlainStep DEF Todo
<1>3. QED
  BY <1>2, DoneStep DEF ServiceStep

\* The pool is imported or made.
LEMMA ZpoolKeeps ==
    ASSUME HostTypeOK, HostInv, ZpoolStep
    PROVE  HostTypeOK' /\ HostInv'
<1> DEFINE there == host.zpool[setup.pool] = "imported"
           made  == [host EXCEPT !.zpool[setup.pool] = "imported"]
<1>1. CASE Todo("zpool", there) /\ Runs(made, {made})
  <2>1. AtStep("zpool") /\ setup.pool \in Pools
    BY <1>1, InitPlaces DEF Todo
  <2>2. Alike(made)
    BY <2>1, HostIsAlike DEF Alike, Hosts, ProfileInv
  <2>3. QED
    BY <1>1, <2>1, <2>2, PlainStep
<1>2. CASE Todo("zpool", there) /\ setup' = [NoSetup EXCEPT !.runs = setup.runs]
           /\ UNCHANGED <<host, faults>> /\ SameBase
  BY <1>2, HostIsAlike, AlikeKeeps, StepCut DEF SameBase
<1>3. CASE Done("zpool", there)
  BY <1>3, DoneStep
<1>4. QED
  BY <1>1, <1>2, <1>3 DEF ZpoolStep

\* The datasets are made.
LEMMA DatasetKeeps ==
    ASSUME HostTypeOK, HostInv, DatasetStep
    PROVE  HostTypeOK' /\ HostInv'
<1> DEFINE based    == [host EXCEPT !.base = @ \cup {setup.pool}]
           branched == [host EXCEPT !.branches = @ \cup {setup.pool}]
<1>1. ASSUME setup.pool \in Pools
      PROVE  Alike(based) /\ Alike(branched)
  BY <1>1, HostIsAlike DEF Alike, Hosts, ProfileInv
<1>2. CASE Todo("base", setup.pool \in host.base) /\ Runs(based, {})
  BY <1>1, <1>2, InitPlaces, PlainStep DEF Todo
<1>3. CASE Todo("branches", setup.pool \in host.branches) /\ Runs(branched, {})
  BY <1>1, <1>3, InitPlaces, PlainStep DEF Todo
<1>4. QED
  BY <1>2, <1>3, DoneStep DEF DatasetStep

\* Whatever is cut off, the link that keeps the stock profile off is made before
\* the profile is written, or init has said that it is not.
LEMMA ApparmorKeeps ==
    ASSUME HostTypeOK, HostInv, ApparmorStep
    PROVE  HostTypeOK' /\ HostInv'
<1> DEFINE same     == host.profile = setup.pool
           unloaded == [host EXCEPT !.loaded = Unstocked]
           linked   == [unloaded EXCEPT !.disabled = TRUE]
           written(h) == [h EXCEPT !.profile = setup.pool, !.inherited = FALSE]
           loaded(h)  == [written(h) EXCEPT !.loaded = "sashiki"]
           warned   == [unloaded EXCEPT !.warned = TRUE]
<1>1. CASE Done("apparmor", same)
  BY <1>1, DoneStep
<1>2. CASE Todo("apparmor", same /\ ~host.inherited) /\ ~Done("apparmor", same)
  <2>1. AtStep("apparmor") /\ setup.pool \in PoolOrNone
    BY <1>2, InitPlaces DEF Todo, PoolOrNone
  <2>0. Unstocked \in {"none", "sashiki"}
    BY DEF Unstocked, HostTypeOK, Hosts
  <2>2. /\ Alike(unloaded) /\ Alike(linked) /\ Alike(warned)
        /\ linked.disabled /\ warned.warned /\ linked.loaded # "stock"
    BY <2>0, HostIsAlike DEF Alike, Hosts, ProfileInv
  <2>3. ASSUME NEW h, Alike(h), h.disabled \/ h.warned
        PROVE  /\ h.loaded # "stock" => Alike(written(h))
               /\ Alike(loaded(h))
    BY <2>1, <2>3 DEF Alike, Hosts, ProfileInv
  <2>4. Alike(written(linked)) /\ Alike(loaded(linked)) /\ Alike(loaded(warned))
    BY <2>2, <2>3
  <2> HIDE DEF unloaded, linked, written, loaded, warned
  <2>5. CASE Runs(loaded(linked), {unloaded, linked, written(linked)})
    BY <2>1, <2>2, <2>4, <2>5, PlainStep
  <2>6. ASSUME SameBase, NEW h, Next1(h), Alike(h)
        PROVE  HostTypeOK' /\ HostInv'
    BY <2>1, <2>6, AlikeKeeps, StepDone DEF SameBase
  <2>7. \/ Runs(loaded(linked), {unloaded, linked, written(linked)})
        \/ SameBase /\ (Next1(loaded(warned)) \/ Next1(written(linked)))
    BY <1>2 DEF ApparmorStep, unloaded, linked, written, loaded, warned
  <2>8. QED
    BY <2>4, <2>5, <2>6, <2>7
<1>3. QED
  BY <1>1, <1>2 DEF ApparmorStep

\* The root helper is installed for the pool of this init.
LEMMA HelperKeeps ==
    ASSUME HostTypeOK, HostInv, HelperStep
    PROVE  HostTypeOK' /\ HostInv'
<1> DEFINE h == [host EXCEPT !.helper = setup.pool]
<1>1. AtStep("helper")
  BY DEF HelperStep, Done, Todo
<1>2. setup.at = HelperAt /\ HelperAt \in 5..6 /\ setup.pool \in Pools
  BY <1>1, InitPlaces DEF HelperAt
<1>3. h \in Hosts /\ h.helper = setup.pool /\ ProfileInv(h)
  BY <1>2 DEF HostTypeOK, Hosts, PoolOrNone, HostInv, ProfileInv
<1>4. SettledInv(h, setup)
  BY <1>2 DEF HostTypeOK, Hosts, HostInv, SettledInv, LetThrough
<1>5. \A g : g.helper = setup.pool => Progress(g, setup.at + 1, setup.pool)
  BY <1>2 DEF Progress
<1>6. CASE Done("helper", host.helper = setup.pool)
  BY <1>1, <1>5, <1>6, HostIsAlike, AlikeKeeps, StepDone DEF Done, SameBase
<1>7. CASE Runs(h, {})
  <2>1. CASE Next1(h)
    BY <1>1, <1>3, <1>4, <1>5, <1>7, <2>1, StepDone DEF Runs, SameBase
  <2>2. CASE setup' = [NoSetup EXCEPT !.runs = setup.runs] /\ host' = host
    BY <1>7, <2>2, HostIsAlike, AlikeKeeps, StepCut DEF Runs, SameBase
  <2>3. QED
    BY <1>7, <2>1, <2>2 DEF Runs
<1>8. QED
  BY <1>6, <1>7 DEF HelperStep

\* The sudoers are written for what the configuration asks for.
LEMMA SudoersKeeps ==
    ASSUME HostTypeOK, HostInv, SudoersStep
    PROVE  HostTypeOK' /\ HostInv'
<1> DEFINE h == [host EXCEPT !.sudoers = SudoersFor]
<1>1. AtStep("sudoers")
  BY DEF SudoersStep, Done, Todo
<1>2. setup.at = HelperAt + 1 /\ HelperAt \in 5..6 /\ setup.pool \in Pools
  BY <1>1, InitPlaces DEF HelperAt
<1>3. SudoersFor \in [kind : {"none", "legacy", "helper"}, pool : PoolOrNone]
  BY <1>2 DEF SudoersFor, PoolOrNone
<1>4. /\ h \in Hosts /\ h.sudoers = SudoersFor /\ ProfileInv(h)
      /\ h.helper = host.helper /\ h.config = host.config /\ h.settled = host.settled
  BY <1>3 DEF HostTypeOK, Hosts, HostInv, ProfileInv
<1>5. SudoersFor = IF host.config.pool = NoPool \/ host.config.helper
                   THEN [kind |-> "helper", pool |-> NoPool]
                   ELSE [kind |-> "legacy", pool |-> setup.pool]
  BY DEF SudoersFor, useRootHelper, HasConfig
<1>6. host.helper = setup.pool
  BY <1>2 DEF HostInv, Progress
<1>7. SettledInv(h, setup)
  BY <1>2, <1>4, <1>5 DEF HostInv, SettledInv, LetThrough
<1>8. \A g : g.helper = host.helper /\ g.config = host.config /\ g.sudoers = SudoersFor
             => Progress(g, setup.at + 1, setup.pool)
  BY <1>5, <1>6 DEF Progress
<1>9. CASE Done("sudoers", host.sudoers = SudoersFor)
  <2>1. Next1(host) /\ site' = site /\ Progress(host, setup.at + 1, setup.pool)
    BY <1>8, <1>9 DEF Done, SameBase
  <2>2. QED
    BY <1>1, <2>1, HostIsAlike, AlikeKeeps, StepDone
<1>10. CASE Runs(h, {})
  <2>1. CASE Next1(h)
    <3>1. Progress(h, setup.at + 1, setup.pool) /\ site' = site
      BY <1>4, <1>8, <1>10 DEF Runs, SameBase
    <3>2. QED
      BY <1>1, <1>4, <1>7, <2>1, <3>1, StepDone
  <2>2. CASE setup' = [NoSetup EXCEPT !.runs = setup.runs] /\ host' = host
    BY <1>10, <2>2, HostIsAlike, AlikeKeeps, StepCut DEF Runs, SameBase
  <2>3. QED
    BY <1>10, <2>1, <2>2 DEF Runs
<1>11. QED
  BY <1>9, <1>10 DEF SudoersStep

\* Directories, unit, password and permissions are none of the invariant's
\* concern.
LEMMA FilesKeep ==
    ASSUME HostTypeOK, HostInv, DirsStep \/ UnitStep \/ AppPassStep \/ PermStep
    PROVE  HostTypeOK' /\ HostInv'
<1>1. Alike([host EXCEPT !.unit = TRUE]) /\ Alike([host EXCEPT !.config.readable = TRUE])
  BY HostIsAlike DEF Alike, Hosts, ProfileInv
<1>2. Alike([host EXCEPT !.appPass = "root"]) /\ Alike([host EXCEPT !.appPass = "sashiki"])
  BY HostIsAlike DEF Alike, Hosts, ProfileInv
<1>3. CASE DirsStep
  BY <1>3, HostIsAlike, PlainStep DEF DirsStep
<1>4. CASE UnitStep
  <2> DEFINE h == [host EXCEPT !.unit = TRUE]
  <2>1. Done("unit", host.unit) \/ (Todo("unit", host.unit) /\ Runs(h, {h}))
    BY <1>4 DEF UnitStep
  <2>2. Alike(h) /\ \A g \in {h} : Alike(g)
    BY <1>1
  <2> HIDE DEF h
  <2>3. QED
    BY <2>1, <2>2, PlainStep, DoneStep DEF Todo
<1>5. CASE AppPassStep
  BY <1>2, <1>5, PlainStep, DoneStep DEF AppPassStep, Todo
<1>6. CASE PermStep
  BY <1>1, <1>6, PlainStep, DoneStep DEF PermStep, Todo
<1>7. QED
  BY <1>3, <1>4, <1>5, <1>6

\* A first configuration names the helper, and so do the sudoers before it.
LEMMA ConfigKeeps ==
    ASSUME HostTypeOK, HostInv, ConfigStep
    PROVE  HostTypeOK' /\ HostInv'
<1> DEFINE written == [host EXCEPT !.config = [pool |-> setup.pool, helper |-> TRUE,
                                               readable |-> FALSE]]
           readable == [written EXCEPT !.config.readable = TRUE]
<1>1. CASE Done("config", HasConfig)
  BY <1>1, DoneStep
<1>2. CASE Todo("config", HasConfig) /\ Runs(readable, {written})
  <2>1. AtStep("config") /\ host.config.pool = NoPool /\ site' = site
    BY <1>2 DEF Todo, HasConfig, Runs, SameBase
  <2>2. setup.pool \in Pools /\ setup.at \in Nat
        /\ setup.at # HelperAt /\ setup.at # HelperAt + 1
    BY <2>1, InitPlaces DEF HostTypeOK, Setups
  <2>3. ~host.settled
    BY <2>1 DEF HostInv, SettledInv
  <2>4. [pool |-> setup.pool, helper |-> TRUE, readable |-> FALSE]
          \in [pool : PoolOrNone, helper : BOOLEAN, readable : BOOLEAN]
    BY <2>2 DEF PoolOrNone
  <2>5. written \in Hosts
    BY <2>4 DEF HostTypeOK, Hosts
  <2>6. readable \in Hosts
    BY <2>5 DEF Hosts
  <2>7. ASSUME NEW h \in {written, readable}
        PROVE  /\ h.helper = host.helper /\ h.sudoers = host.sudoers /\ h.config.helper
               /\ ~h.settled /\ ProfileInv(h)
    <3>1. /\ written.helper = host.helper /\ written.sudoers = host.sudoers
          /\ written.config.helper /\ ~written.settled /\ ProfileInv(written)
      BY <2>3 DEF HostTypeOK, Hosts, HostInv, ProfileInv
    <3> HIDE DEF written
    <3>2. /\ readable.helper = written.helper /\ readable.sudoers = written.sudoers
          /\ readable.config.helper = written.config.helper
          /\ readable.settled = written.settled
          /\ readable.profile = written.profile /\ readable.warned = written.warned
          /\ readable.disabled = written.disabled
          /\ readable.inherited = written.inherited /\ readable.loaded = written.loaded
      BY <2>5 DEF Hosts
    <3>3. QED
      BY <2>7, <3>1, <3>2 DEF ProfileInv
  <2> HIDE DEF written, readable
  <2>8. ASSUME NEW h \in {written, readable}
        PROVE  SettledInv(h, setup) /\ Progress(h, setup.at + 1, setup.pool)
    <3>1. Progress(host, setup.at, setup.pool) /\ HelperAt \in Nat
      BY DEF HostInv, HelperAt
    <3>2. QED
      BY <2>1, <2>2, <2>7, <3>1 DEF SettledInv, Progress
  <2>9. CASE Next1(readable)
    BY <2>1, <2>6, <2>7, <2>8, <2>9, StepDone
  <2>10. CASE setup' = [NoSetup EXCEPT !.runs = setup.runs] /\ host' \in {host} \cup {written}
    <3>1. host' \in Hosts /\ SettledInv(host', setup) /\ ProfileInv(host')
      BY <2>5, <2>7, <2>8, <2>10, HostIsAlike, AlikeKeeps
    <3>2. QED
      BY <2>1, <2>10, <3>1, StepCut
  <2>11. QED
    BY <1>2, <2>9, <2>10 DEF Runs
<1>3. QED
  BY <1>1, <1>2 DEF ConfigStep

\* The end of an init, a reboot, an edited configuration: the sites they need.
LEMMA HostSteps ==
    ASSUME HostTypeOK, HostInv, StartInit \/ InitHost \/ AddRootHelper \/ DisableStock \/ Reboot
    PROVE  HostTypeOK' /\ HostInv'
<1>1. CASE InitHost
  BY <1>1, ServiceKeeps, ZpoolKeeps, DatasetKeeps, ApparmorKeeps, HelperKeeps, SudoersKeeps,
     FilesKeep, ConfigKeeps DEF InitHost
<1>2. ASSUME site' = site
      PROVE  HelperAt' = HelperAt /\ InitSteps' = InitSteps /\ HelperAt \in 5..6
  BY <1>2 DEF HelperAt, InitSteps, Mysql
<1>3. CASE StartInit
  <2>1. PICK p \in {IF HasConfig THEN host.config.pool ELSE DefaultPool} \cup Pools,
             device \in BOOLEAN :
          /\ setup' = [at |-> 1, pool |-> p, device |-> device, runs |-> setup.runs + 1]
          /\ host' = [host EXCEPT !.settled = @ /\ p = host.config.pool]
    BY <1>3 DEF StartInit
  <2>2. p \in Pools
    BY HostAssumption DEF HasConfig, HostTypeOK, Hosts, PoolOrNone
  <2>3. setup.runs + 1 \in 0..MaxInits
    BY <1>3, HostAssumption DEF StartInit, HostTypeOK, Setups
  <2>4. setup' \in Setups /\ setup'.at = 1 /\ setup'.pool = p
    BY <2>1, <2>2, <2>3 DEF Setups, PoolOrNone
  <2>5. host' \in Hosts
    BY <2>1 DEF HostTypeOK, Hosts
  <2>6. /\ host'.settled <=> host.settled /\ p = host.config.pool
        /\ host'.config = host.config /\ host'.sudoers = host.sudoers
        /\ host'.helper = host.helper /\ host'.profile = host.profile
        /\ host'.warned = host.warned /\ host'.disabled = host.disabled
        /\ host'.inherited = host.inherited /\ host'.loaded = host.loaded
    BY <2>1 DEF HostTypeOK, Hosts
  <2>7. site' = site
    BY <1>3 DEF StartInit, SameBase
  <2>8. 1 <= Len(InitSteps)
    BY InitLength
  <2>9. SettledInv(host', setup') /\ ProfileInv(host')
    BY <2>4, <2>6 DEF HostInv, SettledInv, LetThrough, ProfileInv
  <2>10. QED
    BY <1>2, <2>2, <2>4, <2>5, <2>7, <2>8, <2>9
       DEF HostTypeOK, HostInv, SettledInv, LetThrough, Progress, ProfileInv
<1>4. CASE AddRootHelper \/ DisableStock \/ Reboot
  <2>1. UNCHANGED setup /\ setup.at = 0 /\ site' = site
    BY <1>4 DEF AddRootHelper, DisableStock, Reboot, SameBase, InitIdle
  <2>2. ASSUME AddRootHelper
        PROVE  host' \in Hosts /\ SettledInv(host', setup) /\ ProfileInv(host')
    <3>1. host' = [host EXCEPT !.config.helper = TRUE, !.settled = FALSE]
      BY <2>2 DEF AddRootHelper
    <3>2. host' \in Hosts /\ ~host'.settled /\ ProfileInv(host')
      BY <3>1 DEF HostTypeOK, Hosts, HostInv, ProfileInv
    <3>3. QED
      BY <3>2 DEF SettledInv
  <2>3. ASSUME Reboot
        PROVE  host' \in Hosts /\ SettledInv(host', setup) /\ ProfileInv(host')
    <3> DEFINE l == IF ~host.disabled THEN "stock"
                    ELSE IF host.profile # NoPool THEN "sashiki" ELSE "none"
    <3>1. /\ host' = [host EXCEPT !.loaded = l] /\ l \in {"none", "stock", "sashiki"}
          /\ host.disabled => l # "stock"
      BY <2>3 DEF Reboot
    <3> HIDE DEF l
    <3>2. Alike(host')
      BY <3>1, HostIsAlike DEF Alike, Hosts, ProfileInv
    <3>3. QED
      BY <3>2, AlikeKeeps
  <2>4. ASSUME DisableStock
        PROVE  host' \in Hosts /\ SettledInv(host', setup) /\ ProfileInv(host')
    <3>1. Unstocked \in {"none", "sashiki"}
      BY DEF Unstocked, HostTypeOK, Hosts
    <3>2. host' = [host EXCEPT !.disabled = TRUE, !.loaded = Unstocked]
      BY <2>4 DEF DisableStock
    <3> HIDE DEF Unstocked
    <3>3. host \in Hosts
      BY DEF HostTypeOK
    <3>4. host' \in Hosts /\ host'.disabled /\ host'.loaded # "stock"
      BY <3>1, <3>2, <3>3 DEF Hosts
    <3>5. /\ host'.helper = host.helper /\ host'.sudoers = host.sudoers
          /\ host'.settled = host.settled /\ host'.config = host.config
      BY <3>2, <3>3 DEF Hosts
    <3>6. Alike(host')
      BY <3>4, <3>5 DEF Alike, ProfileInv
    <3>7. QED
      BY <3>6, AlikeKeeps
  <2>5. host' \in Hosts /\ SettledInv(host', setup) /\ ProfileInv(host')
    BY <1>4, <2>2, <2>3, <2>4
  <2>6. QED
    BY <1>2, <2>1, <2>5
       DEF HostTypeOK, HostInv, SettledInv, LetThrough, Progress, ProfileInv
<1>5. QED
  BY <1>1, <1>3, <1>4

\* What a host is before the first init, and once it is ready.
LEMMA ReadyHost ==
    /\ NoSetup \in Setups /\ NoSetup.at = 0
    /\ Ready \in Hosts /\ ~Ready.settled /\ Ready.profile = NoPool
    /\ \A z \in [Pools -> {"none", "exported", "imported"}] :
          Bare(z) \in Hosts /\ ~Bare(z).settled /\ Bare(z).profile = NoPool
<1>1. NoSetup \in Setups /\ NoSetup.at = 0
  BY HostAssumption DEF NoSetup, Setups, PoolOrNone
<1>2. ASSUME NEW z \in [Pools -> {"none", "exported", "imported"}]
      PROVE  Bare(z) \in Hosts /\ ~Bare(z).settled /\ Bare(z).profile = NoPool
  BY DEF Bare, Hosts, NoConfig, PoolOrNone
<1>3. Ready \in Hosts /\ ~Ready.settled /\ Ready.profile = NoPool
  <2> DEFINE z == [q \in Pools |-> "none"]
  <2>1. z \in [Pools -> {"none", "exported", "imported"}]
    OBVIOUS
  <2>2. PICK b \in Hosts : b = Bare(z) /\ ~b.settled /\ b.profile = NoPool
    BY <1>2, <2>1
  <2>3. Ready = [b EXCEPT !.unit = TRUE]
    BY <2>2 DEF Ready
  <2>4. QED
    BY <2>2, <2>3 DEF Hosts
<1>4. QED
  BY <1>1, <1>2, <1>3

\* A host of an earlier release: its sudoers and its helper fit its configuration,
\* and its AppArmor profile, if any, is none of this init's.
LEMMA EarlierHost ==
    ASSUME NEW p \in Pools, NEW withHelper \in BOOLEAN
    PROVE  LET h == Earlier(p, withHelper) IN
           /\ h \in Hosts /\ h.config.pool = p /\ LetThrough(h, p) /\ ProfileInv(h)
<1> DEFINE bare    == Bare(Disks(p))
           h       == Earlier(p, withHelper)
           profile == IF Mysql THEN p ELSE NoPool
           loaded  == IF Mysql THEN "sashiki" ELSE bare.loaded
           helper  == IF withHelper THEN p ELSE NoPool
           sudoers == IF withHelper THEN [kind |-> "helper", pool |-> NoPool]
                                    ELSE [kind |-> "legacy", pool |-> p]
           config  == [pool |-> p, helper |-> withHelper, readable |-> TRUE]
           disks   == [bare EXCEPT !.base = {p}, !.branches = {p}, !.stopped = TRUE,
                                   !.unit = TRUE, !.settled = TRUE]
           secured == [disks EXCEPT !.profile = profile, !.inherited = Mysql, !.loaded = loaded]
<1>1. Disks(p) \in [Pools -> {"none", "exported", "imported"}]
  BY DEF Disks
<1>2. bare \in Hosts
  BY <1>1, ReadyHost
<1>3. {p} \in SUBSET Pools
  OBVIOUS
<1>4. disks \in Hosts
  BY <1>2, <1>3 DEF Hosts
<1>5. /\ profile \in PoolOrNone /\ loaded \in {"none", "stock", "sashiki"}
      /\ helper \in PoolOrNone /\ Mysql \in BOOLEAN
      /\ sudoers \in [kind : {"none", "legacy", "helper"}, pool : PoolOrNone]
      /\ config \in [pool : PoolOrNone, helper : BOOLEAN, readable : BOOLEAN]
  BY <1>2 DEF PoolOrNone, Hosts, Mysql
<1>6. h = [secured EXCEPT !.helper = helper, !.sudoers = sudoers, !.config = config]
  BY DEF Earlier
<1>7. config.pool = p /\ config.helper = withHelper /\ (profile # NoPool => Mysql)
  OBVIOUS
<1>8. withHelper => sudoers.kind = "helper" /\ helper = p
  OBVIOUS
<1>9. ~withHelper => sudoers = [kind |-> "legacy", pool |-> p]
  OBVIOUS
<1> HIDE DEF bare, h, profile, loaded, helper, sudoers, config, disks
<1>10. secured \in Hosts /\ secured.profile = profile /\ secured.inherited = Mysql
  BY <1>4, <1>5 DEF Hosts
<1> HIDE DEF secured
<1>11. /\ h \in Hosts /\ h.config = config /\ h.sudoers = sudoers /\ h.helper = helper
       /\ h.profile = profile /\ h.inherited = Mysql
  BY <1>5, <1>6, <1>10 DEF Hosts
<1>12. LetThrough(h, p) /\ ProfileInv(h)
  BY <1>5, <1>7, <1>8, <1>9, <1>11 DEF LetThrough, ProfileInv
<1>13. QED
  BY <1>7, <1>11, <1>12 DEF h

-----------------------------------------------------------------------------
(***************************************************************************)
(* The base: who works on it, what its data are, and who has them open     *)
(***************************************************************************)

\* A command and a refresh that work on the base at the same time both know.
Overlap == ~CliIdle /\ daemon.pc # "idle" => cli.mixed /\ daemon.mixed

\* No server but that of k has the data open.
Quiet(k) == server[k] \in {"down", "removed"}
AllQuiet == \A k \in Sockets : Quiet(k)
Alone(k) == \A j \in Sockets : j = k \/ Quiet(j)

\* Servers run on data that were made; what is recorded was applied to its end.
DataInv ==
    /\ ~AllQuiet => base /\ data.made = "whole"
    /\ base /\ data.made = "none" => data.torn = {}
    /\ daemon.pc \in {"files", "record"} /\ base => data.made # "none"
    /\ data.uuid => Mysql
    /\ data.recorded \subseteq data.applied
    /\ data.recorded \cap data.torn = {}
    /\ daemon.pc = "record" /\ Up("refresh") => daemon.file \in data.applied \ data.torn

\* The data an import finds, and makes.
ImportMakes ==
    cli.path = "import" => /\ cli.at = 2 => data.made = "none"
                           /\ cli.at > 2 => data.made = "whole"

\* A loader runs only where there is a base.
BuildKind ==
    daemon.pc # "idle" =>
        /\ daemon.how # "script" => daemon.pc # "script" /\ site.zfs
        /\ daemon.how = "script" => daemon.pc \notin {"start", "files", "record"}

BaseInv == Overlap /\ DataInv /\ ImportMakes /\ BuildKind

\* No server has the data open iff every socket is quiet.
LEMMA QuietMeansClosed ==
    ASSUME BaseTyped
    PROVE  AllQuiet <=> OnData = {}
<1>1. \A k \in Sockets : Quiet(k) <=> k \notin OnData
  BY DEF Quiet, OnData, BaseTyped, States
<1>2. QED
  BY <1>1 DEF AllQuiet, OnData

\* A server that starts is alone, on data that were made.
LEMMA StartsAlone ==
    ASSUME BaseTyped, NEW k \in Sockets, CanStart(k)
    PROVE  base /\ data.made = "whole" /\ AllQuiet /\ Alone(k)
BY QuietMeansClosed DEF CanStart, AllQuiet, Alone

\* A server that starts changes nothing of the data but whether they are
\* closed in order, and writes auto.cnf.
LEMMA BegunFields ==
    ASSUME BaseTyped
    PROVE  /\ Begun.made = data.made /\ Begun.torn = data.torn /\ Begun.applied = data.applied
           /\ Begun.recorded = data.recorded /\ Begun.user = data.user
           /\ Begun.loaded = data.loaded /\ Begun.uuid = Mysql
BY DEF Begun, BaseTyped, DataRecords

\* Only a command clears the base, in a directory; zfs wants it new.
LEMMA ClearIsLocal ==
    ASSUME BaseTyped, At("clear")
    PROVE  ~site.zfs
<1>1. ImportAt(1) /\ site.zfs \in BOOLEAN
  BY Places, BaseAssumption DEF BaseTyped, CliTyped
<1>2. CASE site.zfs
  <2>1. Path("import") \in {ZfsMysqlImport, ZfsPostgresImport}
    BY <1>2 DEF Path
  <2>2. ZfsMysqlImport[1] = "fresh" /\ ZfsPostgresImport[1] = "fresh"
    BY DEF ZfsMysqlImport, ZfsPostgresImport
  <2>3. QED
    BY <1>1, <2>1, <2>2 DEF At, ImportAt
<1>3. QED
  BY <1>1, <1>2

\* Nothing that DataInv is about changes.
LEMMA DataStays ==
    ASSUME DataInv, UNCHANGED <<site, base, data, server>>, daemon'.pc = daemon.pc,
           daemon'.file = daemon.file
    PROVE  DataInv'
BY DEF DataInv, AllQuiet, Quiet, Up, Mysql

\* Servers are stopped, or stop; fields DataInv is not about may change.
LEMMA DataServed ==
    ASSUME BaseTyped, DataInv, UNCHANGED <<site, base>>, data'.made = data.made,
           data'.torn = data.torn, data'.applied = data.applied,
           data'.recorded = data.recorded, data'.uuid \in {data.uuid, FALSE},
           \A k \in Sockets : server'[k] = server[k] \/ server'[k] \in {"down", "closing"},
           \A k \in Sockets : Quiet(k) => Quiet(k)',
           \/ daemon'.pc = daemon.pc /\ daemon'.file = daemon.file
           \/ daemon'.pc \notin {"files", "record"}
    PROVE  DataInv'
<1>1. AllQuiet => AllQuiet'
  BY DEF AllQuiet
<1>2. Up("refresh")' => Up("refresh")
  BY DEF Up, Sockets
<1>3. Mysql' = Mysql
  BY DEF Mysql
<1>4. daemon'.pc \in {"files", "record"} => daemon'.pc = daemon.pc /\ daemon'.file = daemon.file
  OBVIOUS
<1>5. QED
  BY <1>1, <1>2, <1>3, <1>4 DEF DataInv

\* A server starts.
LEMMA DataStarts ==
    ASSUME BaseTyped, DataInv, UNCHANGED <<site, base>>, NEW k \in Sockets, CanStart(k),
           data'.made = data.made, data'.torn = data.torn, data'.applied = data.applied,
           data'.recorded = data.recorded, data'.uuid = Mysql,
           daemon'.pc # "record" \/ (daemon' = daemon /\ server'["refresh"] = server["refresh"])
    PROVE  DataInv'
<1>1. base' /\ data'.made = "whole"
  BY StartsAlone
<1>2. Mysql' = Mysql
  BY DEF Mysql
<1>3. daemon'.pc = "record" /\ Up("refresh")' => daemon'.file \in data'.applied \ data'.torn
  BY DEF DataInv, Up
<1>4. QED
  BY <1>1, <1>2, <1>3 DEF DataInv

\* What DataServed asks of a server that is stopped, or of none.
Stops ==
    /\ \A k \in Sockets : server'[k] = server[k] \/ server'[k] \in {"down", "closing"}
    /\ \A k \in Sockets : Quiet(k) => Quiet(k)'

\* A server that ends opens nothing.
LEMMA ServerStops ==
    ASSUME BaseTyped
    PROVE  /\ UNCHANGED server => Stops
           /\ \A k \in Sockets : ServerTo(k, "closing") /\ Up(k) => Stops
           /\ \A k \in Sockets : ServerTo(k, "down") => Stops
           /\ Terminates => Stops
<1>1. UNCHANGED server => Stops
  BY DEF Stops, Quiet
<1>2. \A k \in Sockets : ServerTo(k, "closing") /\ Up(k) => Stops
  BY DEF Stops, Quiet, ServerTo, Up, BaseTyped
<1>3. \A k \in Sockets : ServerTo(k, "down") => Stops
  BY DEF Stops, Quiet, ServerTo, BaseTyped
<1>4. Terminates => Stops
  BY DEF Stops, Quiet, Terminates, Up, BaseTyped
<1>5. QED
  BY <1>1, <1>2, <1>3, <1>4

\* A command leaves the refresh as it is.
LEMMA CliServes ==
    ASSUME BaseTyped, DataInv, CliFrame, SameHost, Stops, data'.made = data.made,
           data'.torn = data.torn, data'.applied = data.applied,
           data'.recorded = data.recorded, data'.uuid \in {data.uuid, FALSE}
    PROVE  DataInv'
BY DataServed DEF CliFrame, SameHost, Stops

\* A command that is given up leaves the data, and at most ends its server.
LEMMA QuitsData ==
    ASSUME BaseTyped, DataInv, CliFrame, NEW c, Quits(c) \/ Abandons(c)
    PROVE  DataInv'
<1>1. SameHost /\ UNCHANGED data
  BY DEF Quits, Abandons, StaysDown
<1>2. Stops
  BY ServerStops DEF Quits, Abandons, StaysDown, Sockets
<1>3. QED
  BY <1>1, <1>2, CliServes

\* What an import does to the data before a server runs.
LEMMA FreshData ==
    ASSUME BaseTyped, BaseInv, CheckFresh \/ ClearDir \/ Initialize
    PROVE  DataInv'
<1>1. CliFrame /\ DataInv
  BY DEF CheckFresh, ClearDir, Initialize, BaseInv
<1>2. CASE CheckFresh
  <2>1. CASE StaysDown /\ SameHost
    <3>1. Stops
      BY <2>1, ServerStops DEF StaysDown
    <3>2. QED
      BY <1>1, <2>1, <3>1, CliServes DEF StaysDown
  <2>2. QED
    BY <1>1, <1>2, <2>1, QuitsData DEF CheckFresh
<1>3. CASE ClearDir
  <2>1. CASE /\ base' = TRUE /\ data' = Empty
             /\ server' = [k \in Sockets |-> IF k \in OnData THEN "removed" ELSE server[k]]
    <3>1. AllQuiet'
      BY <2>1 DEF AllQuiet, Quiet, OnData, BaseTyped, States
    <3>2. ~site.zfs
      BY <1>3, ClearIsLocal DEF ClearDir
    <3>3. daemon.pc \notin {"files", "record"}
      BY <3>2 DEF BaseInv, BuildKind
    <3>4. UNCHANGED <<site, daemon>>
      BY <1>1 DEF CliFrame
    <3>5. ~Up("refresh")'
      BY <3>1 DEF AllQuiet, Quiet, Up, Sockets
    <3>6. QED
      BY <2>1, <3>1, <3>3, <3>4, <3>5 DEF DataInv, Empty
  <2>2. QED
    BY <1>1, <1>3, <2>1, QuitsData DEF ClearDir
<1>4. CASE Initialize
  <2>1. data.made = "none"
    BY <1>4, Places DEF Initialize, BaseInv, ImportMakes, ImportAt, BaseTyped
  <2>2. AllQuiet
    BY <1>1, <2>1 DEF DataInv
  <2>3. AllQuiet' /\ ~Up("refresh")'
    BY <1>4, <2>2 DEF Initialize, AllQuiet, Quiet, Up, Sockets
  <2>4. UNCHANGED <<site, base, daemon>>
    BY <1>1, <1>4 DEF CliFrame, Initialize, SameHost
  <2>5. /\ data'.made # "none" /\ data'.torn = data.torn /\ data'.applied = data.applied
        /\ data'.recorded = data.recorded /\ data'.uuid = data.uuid
    BY <1>4 DEF Initialize, BaseTyped, DataRecords
  <2>6. QED
    BY <1>1, <2>3, <2>4, <2>5 DEF DataInv, Mysql
<1>5. QED
  BY <1>2, <1>3, <1>4

\* The server of an import, or of the init of a mac, starts on data that were
\* made.
LEMMA ImportStartsData ==
    ASSUME BaseTyped, DataInv, CliFrame, SameHost, NEW k \in {"import", "init"}, Starts(k)
    PROVE  DataInv'
<1>1. CanStart(k) /\ k \in Sockets
  BY DEF Starts, Sockets
<1>2. /\ data'.made = data.made /\ data'.torn = data.torn /\ data'.applied = data.applied
      /\ data'.recorded = data.recorded /\ data'.uuid = Mysql
  BY BegunFields DEF Starts
<1>3. daemon' = daemon /\ server'["refresh"] = server["refresh"]
  BY DEF Starts, ServerTo, CliFrame, BaseTyped
<1>4. QED
  BY <1>1, <1>2, <1>3, DataStarts DEF CliFrame, SameHost

\* The server of an import, and the fields that are not the loader's.
LEMMA ServedData ==
    ASSUME BaseTyped, DataInv,
           StartServer \/ CreateUser \/ CreateRole \/ ShutdownServer \/ AwaitGone
             \/ StopPostgres \/ RemoveAutoCnf \/ LoadOver
    PROVE  DataInv'
<1>1. CliFrame
  BY DEF StartServer, CreateUser, CreateRole, ShutdownServer, AwaitGone, StopPostgres,
         RemoveAutoCnf, LoadOver
<1>2. ASSUME SameHost, Stops,
             \/ UNCHANGED data
             \/ \E u : data' = [data EXCEPT !.user = u]
             \/ data' = [data EXCEPT !.clean = TRUE]
             \/ data' = [data EXCEPT !.uuid = FALSE]
      PROVE  DataInv'
  <2>1. /\ data'.made = data.made /\ data'.torn = data.torn /\ data'.applied = data.applied
        /\ data'.recorded = data.recorded /\ data'.uuid \in {data.uuid, FALSE}
    BY <1>2 DEF BaseTyped, DataRecords
  <2>2. QED
    BY <1>1, <1>2, <2>1, CliServes
<1>3. "import" \in Sockets
  BY DEF Sockets
<1>4. CASE StartServer
  BY <1>1, <1>4, QuitsData, ImportStartsData DEF StartServer
<1>5. CASE CreateUser \/ CreateRole
  BY <1>1, <1>2, <1>5, QuitsData, ServerStops DEF CreateUser, CreateRole
<1>6. CASE ShutdownServer
  BY <1>1, <1>2, <1>3, <1>6, QuitsData, ServerStops DEF ShutdownServer
<1>7. CASE AwaitGone \/ LoadOver
  BY <1>1, <1>2, <1>7, QuitsData, ServerStops DEF AwaitGone, LoadOver, StaysDown
<1>8. CASE StopPostgres
  BY <1>1, <1>2, <1>3, <1>8, QuitsData, ServerStops DEF StopPostgres
<1>9. CASE RemoveAutoCnf
  BY <1>1, <1>2, <1>9, QuitsData, ServerStops DEF RemoveAutoCnf
<1>10. QED
  BY <1>4, <1>5, <1>6, <1>7, <1>8, <1>9

\* Files of the dump are loaded, or torn: they are not the loader's.
LEMMA LoadedData ==
    ASSUME BaseTyped, BaseInv, CliFrame, SameHost, Stops, cli.path = "import", cli.at > 2,
           NEW P \in SUBSET Pieces,
           \/ UNCHANGED data
           \/ data' = [data EXCEPT !.loaded = @ \cup P]
           \/ data' = [data EXCEPT !.torn = @ \cup P]
    PROVE  DataInv'
<1>1. DataInv /\ data.made = "whole"
  BY DEF BaseInv, ImportMakes
<1>2. P \cap Files = {}
  BY BaseAssumption DEF Pieces
<1>3. data.recorded \subseteq Files /\ (daemon.pc = "record" => daemon.file \in Files)
  BY DEF BaseTyped, DataRecords, Building
<1>4. /\ data'.made = data.made /\ data'.applied = data.applied
      /\ data'.recorded = data.recorded /\ data'.uuid = data.uuid
      /\ data'.torn \in {data.torn, data.torn \cup P}
  BY DEF BaseTyped, DataRecords
<1>5. UNCHANGED <<site, base, daemon>>
  BY DEF CliFrame, SameHost
<1>6. (AllQuiet => AllQuiet') /\ (Up("refresh")' => Up("refresh"))
  BY DEF Stops, AllQuiet, Up, Sockets
<1>7. QED
  BY <1>1, <1>2, <1>3, <1>4, <1>5, <1>6 DEF DataInv, Mysql

\* The loading threads load; an error half way leaves a file torn, and
\* unrecorded.
LEMMA LoadData ==
    ASSUME BaseTyped, BaseInv,
           LoadSchema \/ ClaimFile \/ LaunchFile \/ FileEnds \/ LoadPostgres
    PROVE  DataInv'
<1>1. cli.path = "import" /\ cli.at > 2 /\ CliFrame /\ SameHost
  <2>1. (At("load") \/ At("pgLoad")) /\ CliFrame /\ SameHost
    BY DEF LoadSchema, ClaimFile, LaunchFile, FileEnds, LoadPostgres, Idling, Loading
  <2>2. ImportAt(4)
    BY <2>1, Places DEF BaseTyped
  <2>3. QED
    BY <2>1, <2>2 DEF ImportAt
<1>2. CASE LoadSchema
  <2> DEFINE p == CHOOSE q \in SchemaTodo : TRUE
  <2>1. \/ data' = [data EXCEPT !.loaded = @ \cup {p}]
        \/ data' = [data EXCEPT !.torn = @ \cup {p}]
    BY <1>2 DEF LoadSchema
  <2>2. {p} \in SUBSET Pieces
    BY <1>2 DEF LoadSchema, SchemaTodo, Pieces, BaseTyped, CliTyped, Commands
  <2>3. Stops
    BY <1>2, ServerStops DEF LoadSchema
  <2> HIDE DEF p
  <2>4. QED
    BY <1>1, <2>1, <2>2, <2>3, LoadedData
<1>3. CASE ClaimFile \/ LaunchFile
  <2>1. UNCHANGED data /\ Stops
    BY <1>3, ServerStops DEF ClaimFile, LaunchFile, Idling, StaysDown
  <2>2. {} \in SUBSET Pieces
    OBVIOUS
  <2>3. QED
    BY <1>1, <2>1, <2>2, LoadedData
<1>4. CASE FileEnds
  <2>1. PICK p \in cli.busy : /\ \/ data' = [data EXCEPT !.loaded = @ \cup {p}]
                                 \/ data' = [data EXCEPT !.torn = @ \cup {p}]
                              /\ UNCHANGED server
    BY <1>4 DEF FileEnds
  <2>2. {p} \in SUBSET Pieces
    BY DEF BaseTyped, CliTyped, Commands
  <2>3. QED
    BY <1>1, <2>1, <2>2, ServerStops, LoadedData
<1>5. CASE LoadPostgres
  <2>1. \/ data' = [data EXCEPT !.loaded = @ \cup cli.want]
        \/ data' = [data EXCEPT !.torn = @ \cup cli.want]
    BY <1>5 DEF LoadPostgres
  <2>2. Stops
    BY <1>5, ServerStops DEF LoadPostgres, Sockets
  <2>3. cli.want \in SUBSET Pieces
    BY DEF BaseTyped, CliTyped, Commands
  <2>4. QED
    BY <1>1, <2>1, <2>2, <2>3, LoadedData
<1>6. QED
  BY <1>2, <1>3, <1>4, <1>5

\* Every step of an import keeps DataInv,
LEMMA ImportData == BaseTyped /\ BaseInv /\ ImportStep => DataInv'
<1>1. ASSUME BaseTyped, BaseInv, ImportSnapshot \/ ImportCopy \/ Register
      PROVE  DataInv'
  <2>1. CliFrame /\ SameHost /\ StaysDown /\ DataInv
    BY <1>1 DEF ImportSnapshot, ImportCopy, Register, BaseInv
  <2>2. QED
    BY <1>1, <2>1, ServerStops, CliServes DEF StaysDown
<1>2. QED
  BY <1>1, FreshData, ServedData, LoadData DEF ImportStep, BaseInv

\* every step of a stream,
LEMMA StreamData == BaseTyped /\ BaseInv /\ StreamStep => DataInv'
<1> SUFFICES ASSUME BaseTyped, BaseInv, StreamStep PROVE DataInv'
  OBVIOUS
<1>1. CliFrame /\ DataInv
  BY DEF StreamStep, CheckSpare, ReplaceBase, OpenSource, Receive, BaseInv
<1>2. ASSUME SameHost, StaysDown PROVE DataInv'
  BY <1>1, <1>2, ServerStops, CliServes DEF StaysDown
<1>3. CASE CheckSpare \/ OpenSource
  BY <1>1, <1>2, <1>3, QuitsData DEF CheckSpare, OpenSource
<1>4. CASE ReplaceBase
  <2>1. CASE OnData = {} /\ UNCHANGED server /\ base' = FALSE /\ data' = Empty
    <3>1. AllQuiet /\ AllQuiet'
      BY <2>1, QuietMeansClosed DEF AllQuiet, Quiet
    <3>2. ~Up("refresh")'
      BY <3>1 DEF AllQuiet, Quiet, Up, Sockets
    <3>3. UNCHANGED <<site, daemon>>
      BY <1>1 DEF CliFrame
    <3>4. QED
      BY <2>1, <3>1, <3>2, <3>3 DEF DataInv, Empty
  <2>2. QED
    BY <1>1, <1>2, <1>4, <2>1, QuitsData DEF ReplaceBase
<1>5. CASE Receive
  <2>1. CASE ~base /\ base' = TRUE
             /\ \E p \in Passwords : data' = [Empty EXCEPT !.made = "whole", !.user = p]
    <3>1. /\ data'.made = "whole" /\ data'.torn = {} /\ data'.applied = {}
          /\ data'.recorded = {} /\ data'.uuid = FALSE
      BY <2>1 DEF Empty
    <3>2. AllQuiet
      BY <1>1, <2>1 DEF DataInv
    <3>3. AllQuiet' /\ ~Up("refresh")'
      BY <1>5, <3>2 DEF Receive, AllQuiet, Quiet, Up, Sockets
    <3>4. UNCHANGED <<site, daemon>>
      BY <1>1 DEF CliFrame
    <3>5. QED
      BY <2>1, <3>1, <3>3, <3>4 DEF DataInv
  <2>2. CASE UNCHANGED <<base, data>>
    BY <1>1, <1>2, <1>5, <2>2 DEF Receive, SameHost, StaysDown
  <2>3. QED
    BY <1>5, <2>1, <2>2 DEF Receive
<1>6. QED
  BY <1>3, <1>4, <1>5 DEF StreamStep

\* A directory that is made, or cut off half way, while no server has it.
LEMMA MadeData ==
    ASSUME BaseTyped, DataInv, CliFrame, UNCHANGED server, data.made = "none",
           NEW m \in {"half", "whole"}, data' = [data EXCEPT !.made = m],
           base' \in {base, TRUE}, base => data.torn = {}
    PROVE  DataInv'
<1>1. /\ data'.made # "none" /\ data'.torn = data.torn /\ data'.applied = data.applied
      /\ data'.recorded = data.recorded /\ data'.uuid = data.uuid
  BY DEF BaseTyped, DataRecords
<1>2. AllQuiet' /\ ~Up("refresh")'
  BY DEF DataInv, AllQuiet, Quiet, Up, Sockets
<1>3. UNCHANGED <<site, daemon>>
  BY DEF CliFrame
<1>4. QED
  BY <1>1, <1>2, <1>3 DEF DataInv, Mysql

\* every step of the init of a mac,
LEMMA DevData == BaseTyped /\ BaseInv /\ InitStep => DataInv'
<1> SUFFICES ASSUME BaseTyped, BaseInv, InitStep PROVE DataInv'
  OBVIOUS
<1>1. CliFrame /\ DataInv
  BY DEF InitStep, InitDatadir, DevStart, DevUser, DevRole, DevStop, DevPgStop, CloneFile,
         WriteConfig, BaseInv
<1>2. ASSUME SameHost, Stops,
             \/ UNCHANGED data
             \/ \E u : data' = [data EXCEPT !.user = u]
             \/ data' = [data EXCEPT !.clean = TRUE]
             \/ data' = [data EXCEPT !.uuid = FALSE]
      PROVE  DataInv'
  <2>1. /\ data'.made = data.made /\ data'.torn = data.torn /\ data'.applied = data.applied
        /\ data'.recorded = data.recorded /\ data'.uuid \in {data.uuid, FALSE}
    BY <1>2 DEF BaseTyped, DataRecords
  <2>2. QED
    BY <1>1, <1>2, <2>1, CliServes
<1>3. "init" \in Sockets
  BY DEF Sockets
<1>4. CASE InitDatadir
  <2>1. base' = TRUE /\ UNCHANGED server
    BY <1>4 DEF InitDatadir
  <2>2. CASE data.made # "none" /\ UNCHANGED data
    BY <1>1, <2>1, <2>2 DEF DataInv, AllQuiet, Quiet, Up, Mysql, CliFrame
  <2>3. ASSUME data.made = "none", NEW m \in {"half", "whole"},
               data' = [data EXCEPT !.made = m]
        PROVE  DataInv'
    BY <1>1, <2>1, <2>3, MadeData DEF DataInv
  <2>4. QED
    BY <1>4, <2>2, <2>3 DEF InitDatadir
<1>5. CASE DevStart
  BY <1>1, <1>2, <1>5, ServerStops, QuitsData, ImportStartsData DEF DevStart, StaysDown
<1>6. CASE DevUser
  <2>1. Stops /\ SameHost
    BY <1>3, <1>6, ServerStops DEF DevUser
  <2>2. UNCHANGED data \/ \E u : data' = [data EXCEPT !.user = u]
    BY <1>6 DEF DevUser
  <2>3. QED
    BY <1>2, <2>1, <2>2
<1>7. CASE DevRole
  BY <1>2, <1>3, <1>7, ServerStops DEF DevRole, StaysDown
<1>8. CASE DevStop
  BY <1>2, <1>3, <1>8, ServerStops DEF DevStop
<1>9. CASE DevPgStop
  BY <1>1, <1>2, <1>3, <1>9, ServerStops, QuitsData DEF DevPgStop
<1>10. CASE CloneFile \/ WriteConfig
  <2>1. Stops /\ UNCHANGED base
    BY <1>10, ServerStops DEF CloneFile, WriteConfig, SameHost, StaysDown
  <2>2. UNCHANGED data \/ data' = [data EXCEPT !.uuid = FALSE]
    BY <1>10 DEF CloneFile, WriteConfig, StaysDown
  <2>3. /\ data'.made = data.made /\ data'.torn = data.torn /\ data'.applied = data.applied
        /\ data'.recorded = data.recorded /\ data'.uuid \in {data.uuid, FALSE}
    BY <2>2 DEF BaseTyped, DataRecords
  <2>4. QED
    BY <1>1, <2>1, <2>3, DataServed DEF CliFrame, Stops
<1>11. QED
  BY <1>4, <1>5, <1>6, <1>7, <1>8, <1>9, <1>10 DEF InitStep

\* a command that is stopped in any of them,
LEMMA StoppedData == BaseTyped /\ BaseInv /\ CliStops => DataInv'
<1> SUFFICES ASSUME BaseTyped, BaseInv, CliStops PROVE DataInv'
  OBVIOUS
<1>1. CliFrame /\ SameHost /\ UNCHANGED server /\ DataInv
  BY DEF CliStops, BaseInv
<1>2. CASE UNCHANGED data
  BY <1>1, <1>2, ServerStops, CliServes
<1>3. CASE (At("initialize") \/ (At("datadir") /\ data.made = "none"))
            /\ data' = [data EXCEPT !.made = "half"]
  <2>1. data.made = "none"
    BY <1>3, Places DEF BaseInv, ImportMakes, ImportAt, BaseTyped
  <2>2. QED
    BY <1>1, <1>3, <2>1, MadeData DEF SameHost, DataInv
<1>4. QED
  BY <1>2, <1>3 DEF CliStops

\* The build of a refresh.
LEMMA LoaderData ==
    ASSUME BaseTyped, BaseInv,
           StopLeftover \/ LoaderStarts \/ FilesDone \/ SyncUser \/ RecordFile
             \/ LoaderStops \/ LoaderGone \/ LoaderFails \/ ApplyFile
    PROVE  DataInv'
<1>1. DaemonFrame /\ UNCHANGED <<site, base>> /\ DataInv
  BY DEF StopLeftover, LoaderStarts, FilesDone, SyncUser, RecordFile, LoaderStops, LoaderGone,
         LoaderFails, ApplyFile, In, DaemonFrame, BaseInv
<1>2. "refresh" \in Sockets /\ \A pc : Goto(pc) => daemon'.pc = pc /\ daemon'.file = daemon.file
  BY DEF Sockets, Goto, BaseTyped, Building, Builds
<1>3. ASSUME Stops, UNCHANGED data \/ (\E u : data' = [data EXCEPT !.user = u]),
             \/ UNCHANGED daemon
             \/ Goto("files") /\ daemon.pc \in {"files", "record"}
             \/ \E pc : Goto(pc) /\ pc \notin {"files", "record"}
      PROVE  DataInv'
  <2>1. /\ data'.made = data.made /\ data'.torn = data.torn /\ data'.applied = data.applied
        /\ data'.recorded = data.recorded /\ data'.uuid \in {data.uuid, FALSE}
    BY <1>3 DEF BaseTyped, DataRecords
  <2>2. CASE UNCHANGED daemon \/ \E pc : Goto(pc) /\ pc \notin {"files", "record"}
    BY <1>1, <1>2, <1>3, <2>1, <2>2, DataServed DEF Stops
  <2>3. CASE Goto("files") /\ daemon.pc \in {"files", "record"}
    <3>1. AllQuiet => AllQuiet'
      BY <1>3 DEF Stops, AllQuiet
    <3>2. QED
      BY <1>1, <1>2, <1>3, <2>1, <2>3, <3>1, ZenonT(40) DEF DataInv, Mysql
  <2>4. QED
    BY <1>3, <2>2, <2>3
<1>4. CASE StopLeftover
  BY <1>2, <1>3, <1>4, ServerStops DEF StopLeftover
<1>5. CASE LoaderStarts
  <2>1. CASE Starts("refresh") /\ Goto("files")
    <3>1. /\ data'.made = data.made /\ data'.torn = data.torn
          /\ data'.applied = data.applied /\ data'.recorded = data.recorded
          /\ data'.uuid = Mysql /\ CanStart("refresh")
      BY <2>1, BegunFields DEF Starts
    <3>2. QED
      BY <1>1, <1>2, <2>1, <3>1, DataStarts
  <2>2. QED
    BY <1>3, <1>5, <2>1, ServerStops DEF LoaderStarts, StaysDown
<1>6. CASE FilesDone
  BY <1>3, <1>6, ServerStops DEF FilesDone, StaysDown
<1>7. CASE SyncUser
  BY <1>3, <1>7, ServerStops DEF SyncUser
<1>8. CASE LoaderStops
  BY <1>2, <1>3, <1>8, ServerStops DEF LoaderStops
<1>9. CASE LoaderGone
  BY <1>3, <1>9, ServerStops DEF LoaderGone, StaysDown
<1>10. CASE LoaderFails
  BY <1>2, <1>3, <1>10, ServerStops DEF LoaderFails
<1>11. CASE RecordFile
  <2>1. CASE Goto("undo") /\ UNCHANGED <<data, server>>
    BY <1>3, <2>1, ServerStops
  <2>2. CASE /\ Up("refresh") /\ Goto("files") /\ UNCHANGED server
             /\ data' = [data EXCEPT !.recorded = @ \cup {daemon.file}]
    <3>1. daemon.pc = "record" /\ daemon.file \in data.applied \ data.torn
      BY <1>1, <1>11, <2>2 DEF RecordFile, In, DataInv
    <3>2. /\ data'.made = data.made /\ data'.torn = data.torn
          /\ data'.applied = data.applied /\ data'.uuid = data.uuid
          /\ data'.recorded = data.recorded \cup {daemon.file}
      BY <2>2 DEF BaseTyped, DataRecords
    <3>3. AllQuiet => AllQuiet'
      BY <2>2 DEF AllQuiet, Quiet
    <3>4. QED
      BY <1>1, <1>2, <2>2, <3>1, <3>2, <3>3 DEF DataInv, Mysql
  <2>3. QED
    BY <1>11, <2>1, <2>2 DEF RecordFile
<1>12. CASE ApplyFile
  <2>1. daemon.pc = "files" /\ UNCHANGED server
    BY <1>12 DEF ApplyFile, In
  <2>2. AllQuiet => AllQuiet'
    BY <2>1 DEF AllQuiet, Quiet
  <2>3. PICK f \in Pending :
           \/ /\ data' = [data EXCEPT !.applied = @ \cup {f}, !.torn = @ \ {f}]
              /\ daemon' = [daemon EXCEPT !.pc = "record", !.file = f]
           \/ Goto("undo") /\ data' \in {data, [data EXCEPT !.torn = @ \cup {f}]}
    BY <1>12 DEF ApplyFile
  <2>4. f \notin data.recorded
    BY DEF Pending
  <2>5. CASE /\ data' = [data EXCEPT !.applied = @ \cup {f}, !.torn = @ \ {f}]
             /\ daemon' = [daemon EXCEPT !.pc = "record", !.file = f]
    <3>1. /\ data'.made = data.made /\ data'.torn = data.torn \ {f}
          /\ data'.applied = data.applied \cup {f} /\ data'.uuid = data.uuid
          /\ data'.recorded = data.recorded
      BY <2>5 DEF BaseTyped, DataRecords
    <3>2. daemon'.pc = "record" /\ daemon'.file = f
      BY <2>5 DEF BaseTyped, Building, Builds
    <3>3. QED
      BY <1>1, <2>1, <2>2, <3>1, <3>2 DEF DataInv, Mysql
  <2>6. CASE Goto("undo") /\ data' \in {data, [data EXCEPT !.torn = @ \cup {f}]}
    <3>1. /\ data'.made = data.made /\ data'.torn \in {data.torn, data.torn \cup {f}}
          /\ data'.applied = data.applied /\ data'.uuid = data.uuid
          /\ data'.recorded = data.recorded
      BY <2>6 DEF BaseTyped, DataRecords
    <3>2. daemon'.pc = "undo" /\ (base => data.made # "none")
      BY <1>1, <1>2, <2>1, <2>6 DEF DataInv
    <3>3. QED
      BY <1>1, <2>1, <2>2, <2>4, <3>1, <3>2 DEF DataInv, Mysql
  <2>7. QED
    BY <2>3, <2>5, <2>6
<1>13. QED
  BY <1>4, <1>5, <1>6, <1>7, <1>8, <1>9, <1>10, <1>11, <1>12

\* and what a refresh does beside its loader.
LEMMA CheckData ==
    ASSUME BaseTyped, BaseInv,
           ScriptRuns \/ Reclaim \/ Quiesce \/ RemoveBaseAutoCnf \/ SnapshotBase \/ Publish
    PROVE  DataInv'
<1>1. UNCHANGED <<site, base>> /\ DataInv
  BY DEF ScriptRuns, Reclaim, Quiesce, RemoveBaseAutoCnf, SnapshotBase, Publish, In,
         DaemonFrame, BaseInv
<1>2. daemon'.pc \notin {"files", "record"}
  <2>1. \A pc \in {"quiesce", "reclaim", "requiesce", "snapshot"} : Goto(pc) => daemon'.pc = pc
    BY DEF Goto, BaseTyped, Building, Builds
  <2>2. /\ BuildEnds => daemon'.pc = "idle"
        /\ Passes \/ PassesBlind => daemon'.pc = "autocnf"
    <3>1. BuildEnds => daemon'.pc = "idle"
      BY DEF BuildEnds, NoBuild
    <3>2. Passes => daemon'.pc = "autocnf"
      BY DEF Passes, BaseTyped, Building, Builds
    <3>3. PassesBlind => daemon'.pc = "autocnf"
      BY DEF PassesBlind, BaseTyped, Building, Builds
    <3>4. QED
      BY <3>1, <3>2, <3>3
  <2>3. \A s : daemon' = [daemon EXCEPT !.pc = "publish", !.shot = s] => daemon'.pc = "publish"
    BY DEF BaseTyped, Building, Builds
  <2>4. daemon' = [daemon EXCEPT !.pc = "snapshot", !.blind = TRUE] => daemon'.pc = "snapshot"
    BY DEF BaseTyped, Building, Builds
  <2>5. CASE ScriptRuns
    BY <2>1, <2>5 DEF ScriptRuns
  <2>6. CASE Reclaim \/ Publish
    BY <2>2, <2>6 DEF Reclaim, Publish
  <2>7. CASE Quiesce
    BY <2>1, <2>2, <2>7 DEF Quiesce
  <2>8. CASE RemoveBaseAutoCnf
    BY <2>1, <2>2, <2>4, <2>8 DEF RemoveBaseAutoCnf
  <2>9. CASE SnapshotBase
    BY <2>2, <2>3, <2>9 DEF SnapshotBase
  <2>10. QED
    BY <2>5, <2>6, <2>7, <2>8, <2>9
<1>3. ASSUME Stops, UNCHANGED data \/ data' = [data EXCEPT !.uuid = FALSE]
      PROVE  DataInv'
  <2>1. /\ data'.made = data.made /\ data'.torn = data.torn /\ data'.applied = data.applied
        /\ data'.recorded = data.recorded /\ data'.uuid \in {data.uuid, FALSE}
    BY <1>3 DEF BaseTyped, DataRecords
  <2>2. QED
    BY <1>1, <1>2, <1>3, <2>1, DataServed DEF Stops
<1>4. CASE ScriptRuns
  <2>1. CASE CanStart("refresh") /\ data'.made = Begun.made /\ data'.torn = Begun.torn
             /\ data'.applied = Begun.applied /\ data'.recorded = Begun.recorded
             /\ data'.uuid = Begun.uuid
    BY <1>1, <1>2, <2>1, BegunFields, DataStarts DEF Sockets
  <2>2. CASE StaysDown
    BY <1>3, <2>2, ServerStops DEF StaysDown
  <2>3. ASSUME NEW u, NEW c, data' = [Begun EXCEPT !.user = u]
                             \/ data' = [Begun EXCEPT !.user = u, !.clean = c]
        PROVE  /\ data'.made = Begun.made /\ data'.torn = Begun.torn
               /\ data'.applied = Begun.applied /\ data'.recorded = Begun.recorded
               /\ data'.uuid = Begun.uuid
    BY <2>3, BegunTyped DEF DataRecords
  <2>4. StaysDown \/ (CanStart("refresh") /\ \E u, c : data' = [Begun EXCEPT !.user = u]
                                       \/ data' = [Begun EXCEPT !.user = u, !.clean = c])
    BY <1>4 DEF ScriptRuns
  <2>5. QED
    BY <2>1, <2>2, <2>3, <2>4
<1>5. CASE Reclaim \/ Quiesce
  BY <1>3, <1>5, ServerStops DEF Reclaim, Quiesce
<1>6. CASE RemoveBaseAutoCnf
  BY <1>3, <1>6, ServerStops DEF RemoveBaseAutoCnf
<1>7. CASE SnapshotBase \/ Publish
  BY <1>3, <1>7, ServerStops DEF SnapshotBase, Publish, StaysDown
<1>8. QED
  BY <1>4, <1>5, <1>6, <1>7

\* Programs that begin or end, and the steps of neither.
LEMMA OtherData ==
    ASSUME BaseTyped, BaseInv,
           \/ StartImport \/ StartStream \/ StartDarwinInit \/ RefreshBegins \/ DaemonRestarts
           \/ CloneBranch \/ DropBranches \/ ChangePassword
           \/ \E k \in Sockets : ServerCloses(k) \/ ServerDies(k)
    PROVE  DataInv'
<1>1. UNCHANGED <<site, base>> /\ DataInv
  BY DEF StartImport, StartStream, StartDarwinInit, Begin, RefreshBegins, DaemonRestarts,
         CloneBranch, DropBranches, ChangePassword, ServerCloses, ServerDies, BaseInv
<1>2. \/ daemon'.pc = daemon.pc /\ daemon'.file = daemon.file
      \/ daemon'.pc \notin {"files", "record"}
  <2>1. CASE StartImport \/ StartStream \/ StartDarwinInit
    BY <2>1 DEF StartImport, StartStream, StartDarwinInit, Begin, Mixes, BaseTyped, Building,
                Builds
  <2>2. CASE RefreshBegins
    BY <2>2, NoBuildTyped DEF RefreshBegins, Building, Builds
  <2>3. CASE DaemonRestarts
    BY <2>3 DEF DaemonRestarts, BuildEnds, NoBuild
  <2>4. QED
    BY <2>1, <2>2, <2>3 DEF CloneBranch, DropBranches, ChangePassword, ServerCloses, ServerDies
<1>3. Stops /\ (UNCHANGED data \/ data' = [data EXCEPT !.clean = TRUE])
  <2>1. CASE \E k \in Sockets : ServerCloses(k) \/ ServerDies(k)
    BY <2>1, ServerStops DEF ServerCloses, ServerDies
  <2>2. QED
    BY <2>1, ServerStops
       DEF StartImport, StartStream, StartDarwinInit, Begin, RefreshBegins, DaemonRestarts,
           CloneBranch, DropBranches, ChangePassword
<1>4. /\ data'.made = data.made /\ data'.torn = data.torn /\ data'.applied = data.applied
      /\ data'.recorded = data.recorded /\ data'.uuid \in {data.uuid, FALSE}
  BY <1>3 DEF BaseTyped, DataRecords
<1>5. QED
  BY <1>1, <1>2, <1>3, <1>4, DataServed DEF Stops

\* The steps of a command, and those of a build, each leave the other alone.
CliStep == ImportStep \/ StreamStep \/ InitStep \/ CliStops
BuildStep == \/ StopLeftover \/ LoaderStarts \/ ApplyFile \/ RecordFile \/ FilesDone \/ SyncUser
             \/ LoaderStops \/ LoaderGone \/ LoaderFails \/ ScriptRuns \/ Reclaim \/ Quiesce
             \/ RemoveBaseAutoCnf \/ SnapshotBase \/ Publish

\* A step of a command is not one of a refresh,
LEMMA CliStepLeaves ==
    ASSUME BaseTyped, CliStep
    PROVE  CliFrame /\ ~CliIdle
<1>1. CASE ImportStep
  <2>1. /\ CliFrame
        /\ \/ At("fresh") \/ At("clear") \/ At("initialize") \/ At("start") \/ At("pgStart")
           \/ At("user") \/ At("role") \/ At("shutdown") \/ At("gone") \/ At("pgStop")
           \/ At("autocnf") \/ At("load") \/ At("pgLoad") \/ At("snapshot") \/ At("copy")
           \/ At("register")
    BY <1>1 DEF ImportStep, CheckFresh, ClearDir, Initialize, StartServer, CreateUser, CreateRole,
                ShutdownServer, AwaitGone, StopPostgres, RemoveAutoCnf, LoadSchema, ClaimFile,
                LaunchFile, FileEnds, Idling, Loading, LoadOver, LoadPostgres, ImportSnapshot,
                ImportCopy, Register
  <2>2. cli.path \in {"import", "stream"}
    BY <2>1, Places DEF BaseTyped, ImportAt
  <2>3. QED
    BY <2>1, <2>2 DEF CliIdle
<1>2. CASE StreamStep
  <2>1. CliFrame /\ (At("spare") \/ At("replace") \/ At("open") \/ At("recv"))
    BY <1>2 DEF StreamStep, CheckSpare, ReplaceBase, OpenSource, Receive
  <2>2. QED
    BY <2>1, Places DEF BaseTyped, StreamAt, CliIdle
<1>3. CASE InitStep
  <2>1. /\ CliFrame
        /\ \/ At("datadir") \/ At("devStart") \/ At("devUser") \/ At("devRole")
           \/ At("devStop") \/ At("devPgStop") \/ At("clonefile") \/ At("config")
    BY <1>3 DEF InitStep, InitDatadir, DevStart, DevUser, DevRole, DevStop, DevPgStop, CloneFile,
                WriteConfig
  <2>2. QED
    BY <2>1, Places DEF BaseTyped, InitAt, CliIdle
<1>4. QED
  BY <1>1, <1>2, <1>3 DEF CliStep, CliStops

\* and the other way round.
LEMMA BuildStepLeaves ==
    ASSUME BuildStep
    PROVE  DaemonFrame /\ daemon.pc # "idle"
BY DEF BuildStep, StopLeftover, LoaderStarts, ApplyFile, RecordFile, FilesDone, SyncUser,
       LoaderStops, LoaderGone, LoaderFails, ScriptRuns, Reclaim, Quiesce, RemoveBaseAutoCnf,
       SnapshotBase, Publish, In

\* The steps in which neither program moves on.
OtherStep == CloneBranch \/ DropBranches \/ ChangePassword
             \/ \E k \in Sockets : ServerCloses(k) \/ ServerDies(k)
StartStep == StartImport \/ StartStream \/ StartDarwinInit

\* Who may make the next step.
LEMMA BaseSteps ==
    BaseNext <=> StartStep \/ CliStep \/ BuildStep \/ RefreshBegins \/ DaemonRestarts \/ OtherStep
BY DEF BaseNext, StartStep, CliStep, BuildStep, RefreshStep, OtherStep

\* DataInv is kept by every step.
LEMMA DataKept == BaseTyped /\ BaseInv /\ BaseNext => DataInv'
BY BaseSteps, ImportData, StreamData, DevData, StoppedData, LoaderData, CheckData, OtherData
   DEF StartStep, CliStep, BuildStep, OtherStep

\* An installation stays what it is.
LEMMA SiteStays ==
    ASSUME BaseTyped, BaseNext
    PROVE  site' = site
<1>1. CASE CliStep
  BY <1>1, CliStepLeaves DEF CliFrame
<1>2. CASE BuildStep
  BY <1>2, BuildStepLeaves DEF DaemonFrame
<1>3. QED
  BY <1>1, <1>2, BaseSteps
     DEF StartStep, StartImport, StartStream, StartDarwinInit, Begin, RefreshBegins,
         DaemonRestarts, OtherStep, CloneBranch, DropBranches, ChangePassword, ServerCloses,
         ServerDies

\* A command goes on or ends; what it was begun with does not change.
CliGoesOn ==
    /\ cli'.path = cli.path /\ cli'.pass = cli.pass /\ cli'.want = cli.want
    /\ cli'.mixed = cli.mixed

\* A step of a command ends it or takes it one step on.
LEMMA CliKeeps ==
    ASSUME BaseTyped, CliStep
    PROVE  Ends \/ CliGoesOn
<1>1. /\ Proceeds \/ Skips(3) => CliGoesOn
      /\ UNCHANGED cli => CliGoesOn
  BY DEF CliGoesOn, Proceeds, Skips, BaseTyped, CliTyped, Commands
<1>2. \A s : cli' = [cli EXCEPT !.at = @ + 1, !.shot = s] => CliGoesOn
  BY DEF CliGoesOn, BaseTyped, CliTyped, Commands
<1>3. \A c : Quits(c) \/ Abandons(c) => Ends
  BY DEF Quits, Abandons
<1>4. \A by : TakesShot(by) => CliGoesOn
  BY <1>2 DEF TakesShot
<1>5. CASE LoadSchema \/ ClaimFile \/ LaunchFile \/ FileEnds
  <2>1. \A s, t : /\ cli' = [cli EXCEPT !.todo = s] => CliGoesOn
                  /\ cli' = [cli EXCEPT !.err = TRUE, !.todo = s] => CliGoesOn
                  /\ cli' = [cli EXCEPT !.claim = s, !.todo = t] => CliGoesOn
                  /\ cli' = [cli EXCEPT !.busy = s, !.claim = t] => CliGoesOn
                  /\ cli' = [cli EXCEPT !.busy = s] => CliGoesOn
                  /\ cli' = [cli EXCEPT !.busy = s, !.err = TRUE] => CliGoesOn
    BY DEF CliGoesOn, BaseTyped, CliTyped, Commands
  <2>2. QED
    BY <1>5, <2>1 DEF LoadSchema, ClaimFile, LaunchFile, FileEnds
<1>6. CASE CheckFresh \/ ClearDir \/ Initialize \/ StartServer \/ CreateUser \/ CreateRole
           \/ ShutdownServer \/ AwaitGone \/ StopPostgres \/ RemoveAutoCnf \/ LoadOver
           \/ LoadPostgres
  BY <1>1, <1>3, <1>6
     DEF CheckFresh, ClearDir, Initialize, StartServer, CreateUser, CreateRole, ShutdownServer,
         AwaitGone, StopPostgres, RemoveAutoCnf, LoadOver, LoadPostgres
<1>7. CASE ImportSnapshot \/ ImportCopy \/ Register
  BY <1>4, <1>7 DEF ImportSnapshot, ImportCopy, Register
<1>8. CASE StreamStep
  BY <1>1, <1>2, <1>3, <1>8 DEF StreamStep, CheckSpare, ReplaceBase, OpenSource, Receive
<1>9. CASE InitStep
  BY <1>1, <1>3, <1>4, <1>9 DEF InitStep, InitDatadir, DevStart, DevUser, DevRole, DevStop,
                                DevPgStop, CloneFile, WriteConfig
<1>10. QED
  BY <1>5, <1>6, <1>7, <1>8, <1>9 DEF CliStep, ImportStep, CliStops

\* So does a build; the loader's own steps come one after the other.
BuildGoesOn ==
    /\ daemon'.how = daemon.how /\ daemon'.want = daemon.want /\ daemon'.mixed = daemon.mixed
    /\ daemon'.pc # "script"
    /\ daemon'.pc \in {"start", "files", "record"} => daemon.pc \in {"start", "files", "record"}

\* A step of a refresh ends it or takes it on.
LEMMA BuildKeeps ==
    ASSUME BaseTyped, BuildStep
    PROVE  BuildEnds \/ BuildGoesOn
<1>1. ASSUME NEW pc \in {"files", "reclaim", "undo", "sync", "stop", "gone", "quiesce",
                         "requiesce", "snapshot"},
             Goto(pc), pc = "files" => daemon.pc \in {"start", "record"}
      PROVE  BuildGoesOn
  BY <1>1 DEF BuildGoesOn, Goto, BaseTyped, Building, Builds
<1>2. Passes => BuildGoesOn
  BY DEF BuildGoesOn, Passes, BaseTyped, Building, Builds
<1>3. PassesBlind => BuildGoesOn
  BY DEF BuildGoesOn, PassesBlind, BaseTyped, Building, Builds
<1>4. daemon' = [daemon EXCEPT !.pc = "snapshot", !.blind = TRUE] => BuildGoesOn
  BY DEF BuildGoesOn, BaseTyped, Building, Builds
<1>5. \A s : daemon' = [daemon EXCEPT !.pc = "publish", !.shot = s] => BuildGoesOn
  BY DEF BuildGoesOn, BaseTyped, Building, Builds
<1>6. CASE StopLeftover
  BY <1>6 DEF StopLeftover, In, BuildGoesOn
<1>7. CASE ApplyFile
  <2>1. \A f : daemon.pc = "files" /\ daemon' = [daemon EXCEPT !.pc = "record", !.file = f]
               => BuildGoesOn
    BY DEF BuildGoesOn, BaseTyped, Building, Builds
  <2>2. QED
    BY <1>1, <1>7, <2>1 DEF ApplyFile, In
<1>8. CASE LoaderStarts \/ RecordFile \/ FilesDone \/ SyncUser \/ LoaderStops \/ LoaderGone
           \/ LoaderFails
  BY <1>1, <1>8 DEF LoaderStarts, RecordFile, FilesDone, SyncUser, LoaderStops, LoaderGone,
                    LoaderFails, In
<1>9. CASE ScriptRuns
  BY <1>1, <1>9 DEF ScriptRuns
<1>10. CASE Reclaim \/ Publish
  BY <1>10 DEF Reclaim, Publish
<1>11. CASE Quiesce
  BY <1>1, <1>2, <1>3, <1>11 DEF Quiesce
<1>12. CASE RemoveBaseAutoCnf
  BY <1>1, <1>4, <1>12 DEF RemoveBaseAutoCnf
<1>13. CASE SnapshotBase
  BY <1>5, <1>13 DEF SnapshotBase
<1>14. QED
  BY <1>6, <1>7, <1>8, <1>9, <1>10, <1>11, <1>12, <1>13 DEF BuildStep

\* Begin and RefreshBegins mark both programs.
LEMMA BeginFields ==
    ASSUME BaseTyped, NEW path, NEW want, NEW force, NEW p, Begin(path, want, force, p)
    PROVE  /\ cli'.path = path /\ cli'.at = 1 /\ cli'.pass = p /\ cli'.want = want
           /\ cli'.todo = want /\ cli'.shot = 0 /\ cli'.err = FALSE
           /\ cli'.mixed = (daemon.pc # "idle")
           /\ daemon.pc # "idle" => daemon'.mixed
           /\ daemon'.pc = daemon.pc /\ daemon'.how = daemon.how /\ daemon'.want = daemon.want
           /\ daemon'.blind = daemon.blind /\ daemon'.shot = daemon.shot
           /\ daemon'.mixed = FALSE => daemon' = daemon
<1>1. NoCommand \in Commands
  BY BaseAssumption DEF NoCommand, Commands, Paths
<1>2. cli' = [NoCommand EXCEPT !.path = path, !.pass = p, !.want = want, !.todo = want,
                 !.force = force, !.mixed = daemon.pc # "idle"]
  BY DEF Begin
<1>3. /\ cli'.path = path /\ cli'.at = 1 /\ cli'.pass = p /\ cli'.want = want
      /\ cli'.todo = want /\ cli'.shot = 0 /\ cli'.err = FALSE
      /\ cli'.mixed = (daemon.pc # "idle")
  BY <1>2 DEF NoCommand
<1>4. daemon' = IF daemon.pc = "idle" THEN daemon ELSE [daemon EXCEPT !.mixed = TRUE]
  BY DEF Begin, Mixes
<1>5. QED
  BY <1>3, <1>4 DEF BaseTyped, Building, Builds

\* What a refresh begins with, and what it tells a command under way.
LEMMA RefreshBeginsFields ==
    ASSUME BaseTyped, RefreshBegins
    PROVE  /\ daemon'.pc = (IF daemon'.how = "script" THEN "script" ELSE "start")
           /\ daemon'.how # "script" => site.zfs
           /\ daemon'.mixed = ~CliIdle /\ daemon'.shot = 0
           /\ cli'.path = cli.path /\ cli'.at = cli.at /\ cli'.shot = cli.shot
           /\ ~CliIdle => cli'.mixed
           /\ daemon.pc = "idle"
<1>1. PICK how \in {"script"} \cup (IF CanLoad THEN {Loader} ELSE {}) : \E want :
          daemon' = [NoBuild EXCEPT !.how = how, !.want = want, !.mixed = ~CliIdle,
                       !.pc = IF how = "script" THEN "script" ELSE "start"]
  BY DEF RefreshBegins
<1>2. daemon'.how = how /\ daemon'.pc = (IF how = "script" THEN "script" ELSE "start")
      /\ daemon'.mixed = ~CliIdle /\ daemon'.shot = 0
  BY <1>1 DEF NoBuild
<1>3. how # "script" => site.zfs
  BY <1>1 DEF CanLoad
<1>4. cli' = IF CliIdle THEN cli ELSE [cli EXCEPT !.mixed = TRUE]
  BY DEF RefreshBegins, Mixes
<1>5. /\ cli'.path = cli.path /\ cli'.at = cli.at /\ cli'.shot = cli.shot
      /\ ~CliIdle => cli'.mixed
  BY <1>4 DEF BaseTyped, CliTyped, Commands
<1>6. QED
  BY <1>2, <1>3, <1>5 DEF RefreshBegins

\* Who works on the base at the same time as another knows it.
LEMMA OverlapKept ==
    ASSUME BaseTyped, BaseInv, BaseNext
    PROVE  Overlap' /\ BuildKind'
<1>1. Overlap /\ BuildKind /\ site' = site
  BY SiteStays DEF BaseInv
<1>2. CASE StartStep
  <2>1. PICK path, want, force, p : Begin(path, want, force, p)
    BY <1>2 DEF StartStep, StartImport, StartStream, StartDarwinInit
  <2>2. /\ cli'.mixed = (daemon.pc # "idle")
        /\ daemon.pc # "idle" => daemon'.mixed
        /\ daemon'.pc = daemon.pc /\ daemon'.how = daemon.how
    BY <2>1, BeginFields
  <2>3. QED
    BY <1>1, <2>2 DEF Overlap, BuildKind
<1>3. CASE CliStep
  <2>1. ~CliIdle /\ daemon' = daemon
    BY <1>3, CliStepLeaves DEF CliFrame
  <2>2. CASE Ends
    BY <1>1, <2>1, <2>2 DEF Overlap, BuildKind, Ends, NoCommand, CliIdle
  <2>3. CASE CliGoesOn
    BY <1>1, <2>1, <2>3 DEF Overlap, BuildKind, CliGoesOn, CliIdle
  <2>4. QED
    BY <1>3, <2>2, <2>3, CliKeeps
<1>4. CASE BuildStep
  <2>1. daemon.pc # "idle" /\ cli' = cli
    BY <1>4, BuildStepLeaves DEF DaemonFrame
  <2>2. CASE BuildEnds
    BY <1>1, <2>1, <2>2 DEF Overlap, BuildKind, BuildEnds, NoBuild, CliIdle
  <2>3. CASE BuildGoesOn
    BY <1>1, <2>1, <2>3 DEF Overlap, BuildKind, BuildGoesOn, CliIdle
  <2>4. QED
    BY <1>4, <2>2, <2>3, BuildKeeps
<1>5. CASE RefreshBegins
  BY <1>1, <1>5, RefreshBeginsFields DEF Overlap, BuildKind, CliIdle
<1>6. CASE DaemonRestarts
  BY <1>1, <1>6 DEF DaemonRestarts, BuildEnds, NoBuild, Overlap, BuildKind
<1>7. CASE OtherStep
  <2>1. UNCHANGED <<cli, daemon>>
    BY <1>7 DEF OtherStep, CloneBranch, DropBranches, ChangePassword, ServerCloses, ServerDies
  <2>2. QED
    BY <1>1, <2>1 DEF Overlap, BuildKind, CliIdle
<1>8. QED
  BY <1>2, <1>3, <1>4, <1>5, <1>6, <1>7, BaseSteps

-----------------------------------------------------------------------------
(***************************************************************************)
(* baseline import: what is true of the data at each of its steps          *)
(***************************************************************************)

StopAt == IF Mysql THEN 7 ELSE 6

\* Of an import that no refresh came in the way of: its server is the only one;
\* what is wanted is loaded, or is going to be, or the error is remembered; the
\* user is there; the server was seen to end in order; the uuid is removed.
ImportInv ==
    cli.path = "import" /\ ~cli.mixed =>
        /\ cli.at > 3 => Alone("import")
        /\ cli.at \in 2..3 => data.torn = {}
        /\ cli.at < 4 => cli.want \subseteq cli.todo
        /\ cli.at = 4 /\ ~(Mysql /\ cli.err) =>
              /\ cli.want \subseteq data.loaded \cup cli.todo \cup cli.claim \cup cli.busy
              /\ data.torn = {}
        /\ cli.at > 4 => cli.want \subseteq data.loaded /\ data.torn = {}
        /\ cli.at > 5 => data.user = cli.pass
        /\ cli.at > StopAt => server["import"] = "down" /\ data.clean
        /\ cli.at > 8 => ~data.uuid

Imports == ImportMakes /\ ImportInv

\* The steps of others, under which the import's own record does not change.
LEMMA ImportFrame ==
    ASSUME BaseTyped, Imports, site' = site, UNCHANGED cli, Stops,
           server["import"] = "down" => server'["import"] = "down",
           data'.made = data.made, data'.torn = data.torn, data'.loaded = data.loaded,
           data'.user = data.user, data'.uuid = data.uuid, data'.clean \in {data.clean, TRUE}
    PROVE  Imports'
<1>1. Alone("import") => Alone("import")'
  BY DEF Alone, Stops
<1>2. StopAt' = StopAt
  BY DEF StopAt, Mysql
<1>3. ImportInv'
  BY <1>1, <1>2 DEF Imports, ImportInv, Mysql
<1>4. QED
  BY <1>3 DEF Imports, ImportMakes

\* Nothing is asked of what is no import,
LEMMA NotImport ==
    ASSUME cli'.path # "import"
    PROVE  Imports'
BY DEF Imports, ImportMakes, ImportInv

\* nor of a command that has ended.
LEMMA EndsImport ==
    ASSUME Ends
    PROVE  Imports'
BY NotImport DEF Ends, NoCommand

\* The command after a step that was done.
LEMMA ProceedsFields ==
    ASSUME BaseTyped, Proceeds
    PROVE  /\ cli'.path = cli.path /\ cli'.at = cli.at + 1 /\ cli'.mixed = cli.mixed
           /\ cli'.want = cli.want /\ cli'.todo = cli.todo /\ cli'.claim = cli.claim
           /\ cli'.busy = cli.busy /\ cli'.err = cli.err /\ cli'.pass = cli.pass
           /\ cli'.shot = cli.shot /\ cli.at \in 1..10
BY DEF Proceeds, Skips, BaseTyped, CliTyped, Commands

\* The data are new, and whole from then on.
LEMMA CheckFreshImports ==
    ASSUME BaseTyped, DataInv, Imports, CheckFresh \/ ClearDir \/ Initialize
    PROVE  Imports'
<1>1. CASE CheckFresh
  <2>1. ImportAt(1)
    BY <1>1, Places DEF CheckFresh, BaseTyped
  <2>2. CASE base /\ data.made = "none" /\ Proceeds /\ StaysDown
    BY <2>1, <2>2, ProceedsFields DEF DataInv, StaysDown, ImportAt, Imports, ImportMakes,
                                      ImportInv, StopAt
  <2>3. QED
    BY <1>1, <2>2, EndsImport DEF CheckFresh, Quits
<1>2. CASE ClearDir
  <2>1. ImportAt(1)
    BY <1>2, Places DEF ClearDir, BaseTyped
  <2>2. CASE Proceeds /\ data' = Empty
    <3>1. data'.torn = {} /\ data'.loaded = {} /\ data'.made = "none"
      BY <2>2 DEF Empty
    <3>2. QED
      BY <2>1, <2>2, <3>1, ProceedsFields DEF ImportAt, Imports, ImportMakes, ImportInv, StopAt
  <2>3. QED
    BY <1>2, <2>2, EndsImport DEF ClearDir, Quits
<1>3. CASE Initialize
  <2>1. ImportAt(2)
    BY <1>3, Places DEF Initialize, BaseTyped
  <2>2. CASE Proceeds /\ data' = [data EXCEPT !.made = "whole"]
    <3>1. data'.made = "whole" /\ data'.torn = data.torn /\ data'.loaded = data.loaded
      BY <2>2 DEF BaseTyped, DataRecords
    <3>2. QED
      BY <2>1, <2>2, <3>1, ProceedsFields DEF ImportAt, Imports, ImportMakes, ImportInv, StopAt
  <2>3. QED
    BY <1>3, <2>2, EndsImport DEF Initialize
<1>4. QED
  BY <1>1, <1>2, <1>3

\* The server starts, alone.
LEMMA StartServerImports ==
    ASSUME BaseTyped, Imports, StartServer
    PROVE  Imports'
<1>1. ImportAt(3)
  BY Places DEF StartServer, BaseTyped
<1>2. CASE Proceeds /\ Starts("import")
  <2>1. CanStart("import") /\ ServerTo("import", "up") /\ data' = Begun
    BY <1>2 DEF Starts
  <2>2. Alone("import")'
    BY <2>1, StartsAlone DEF Sockets, Alone, Quiet, ServerTo, BaseTyped
  <2>3. data'.made = data.made /\ data'.torn = data.torn
    BY <2>1, BegunFields
  <2>4. QED
    BY <1>1, <1>2, <2>2, <2>3, ProceedsFields DEF ImportAt, Imports, ImportMakes, ImportInv,
                                                  StopAt
<1>3. QED
  BY <1>2, EndsImport DEF StartServer, Quits

\* What a step of loading may do to the record and to the data: a file leaves it
\* by being loaded, or the error is remembered.
LEMMA LoadingImports ==
    ASSUME BaseTyped, Imports, ImportAt(4), site' = site, UNCHANGED server,
           cli'.path = cli.path, cli'.at = cli.at, cli'.mixed = cli.mixed, cli'.want = cli.want,
           data'.made = data.made, Mysql,
           \/ cli'.err
           \/ /\ cli'.err = cli.err /\ data'.torn = data.torn
              /\ data.loaded \cup cli.todo \cup cli.claim \cup cli.busy \subseteq
                    data'.loaded \cup cli'.todo \cup cli'.claim \cup cli'.busy
    PROVE  Imports'
<1>1. Alone("import") => Alone("import")'
  BY DEF Alone, Quiet
<1>2. StopAt > 4 /\ StopAt' = StopAt
  BY DEF StopAt, Mysql
<1>3. /\ cli.path = "import" /\ cli.at = 4 /\ ImportMakes /\ ImportInv
      /\ cli'.path = "import" /\ cli'.at = 4
  BY DEF Imports, ImportAt
<1>4. ImportMakes'
  BY <1>3 DEF ImportMakes
<1>5. ASSUME ~cli'.mixed
      PROVE  /\ Alone("import")'
             /\ ~cli'.err =>
                   /\ cli'.want \subseteq
                         data'.loaded \cup cli'.todo \cup cli'.claim \cup cli'.busy
                   /\ data'.torn = {}
  <2>1. /\ Alone("import")
        /\ ~cli.err =>
              /\ cli.want \subseteq data.loaded \cup cli.todo \cup cli.claim \cup cli.busy
              /\ data.torn = {}
    BY <1>3, <1>5 DEF ImportInv
  <2>2. QED
    BY <1>1, <2>1
<1>6. ImportInv'
  BY <1>3, <1>5 DEF ImportInv, StopAt, Mysql
<1>7. QED
  BY <1>4, <1>6 DEF Imports

\* What an import wants is loaded, in a thread's hands or still to do; or the
\* error is remembered.
LEMMA LoadImports ==
    ASSUME BaseTyped, Imports, LoadSchema \/ ClaimFile \/ LaunchFile \/ FileEnds
    PROVE  Imports'
<1>1. ImportAt(4) /\ site' = site /\ UNCHANGED server /\ Mysql
  <2>1. At("load") /\ CliFrame /\ UNCHANGED server
    BY DEF LoadSchema, ClaimFile, LaunchFile, FileEnds, Idling, Loading, StaysDown
  <2>2. QED
    BY <2>1, Places DEF BaseTyped, CliFrame
<1> DEFINE same == /\ cli'.path = cli.path /\ cli'.at = cli.at /\ cli'.mixed = cli.mixed
                   /\ cli'.want = cli.want
<1>2. CASE LoadSchema
  <2> DEFINE p == CHOOSE q \in SchemaTodo : TRUE
  <2>1. \/ /\ cli' = [cli EXCEPT !.todo = @ \ {p}]
           /\ data' = [data EXCEPT !.loaded = @ \cup {p}]
        \/ /\ cli' = [cli EXCEPT !.err = TRUE, !.todo = {}]
           /\ data' = [data EXCEPT !.torn = @ \cup {p}]
    BY <1>2 DEF LoadSchema
  <2> HIDE DEF p
  <2>2. CASE /\ cli' = [cli EXCEPT !.todo = @ \ {p}]
             /\ data' = [data EXCEPT !.loaded = @ \cup {p}]
    <3>1. same /\ cli'.err = cli.err /\ cli'.todo = cli.todo \ {p} /\ cli'.claim = cli.claim
          /\ cli'.busy = cli.busy
      BY <2>2 DEF BaseTyped, CliTyped, Commands
    <3>2. data'.made = data.made /\ data'.torn = data.torn
          /\ data'.loaded = data.loaded \cup {p}
      BY <2>2 DEF BaseTyped, DataRecords
    <3>3. QED
      BY <1>1, <3>1, <3>2, LoadingImports
  <2>3. CASE /\ cli' = [cli EXCEPT !.err = TRUE, !.todo = {}]
             /\ data' = [data EXCEPT !.torn = @ \cup {p}]
    <3>1. same /\ cli'.err /\ data'.made = data.made
      BY <2>3 DEF BaseTyped, CliTyped, Commands, DataRecords
    <3>2. QED
      BY <1>1, <3>1, LoadingImports
  <2>4. QED
    BY <2>1, <2>2, <2>3
<1>3. CASE ClaimFile
  <2>1. PICK p \in cli.todo : cli' = [cli EXCEPT !.claim = {p}, !.todo = @ \ {p}]
    BY <1>3 DEF ClaimFile
  <2>2. cli.claim = {} /\ data' = data
    BY <1>3 DEF ClaimFile, Idling, StaysDown
  <2>3. same /\ cli'.err = cli.err /\ cli'.todo = cli.todo \ {p} /\ cli'.claim = {p}
        /\ cli'.busy = cli.busy
    BY <2>1 DEF BaseTyped, CliTyped, Commands
  <2>4. QED
    BY <1>1, <2>2, <2>3, LoadingImports
<1>4. CASE LaunchFile
  <2>1. cli' = [cli EXCEPT !.busy = @ \cup cli.claim, !.claim = {}] /\ data' = data
    BY <1>4 DEF LaunchFile, Idling, StaysDown
  <2>2. same /\ cli'.err = cli.err /\ cli'.todo = cli.todo /\ cli'.claim = {}
        /\ cli'.busy = cli.busy \cup cli.claim
    BY <2>1 DEF BaseTyped, CliTyped, Commands
  <2>3. QED
    BY <1>1, <2>1, <2>2, LoadingImports
<1>5. CASE FileEnds
  <2>1. PICK p \in cli.busy :
          \/ /\ cli' = [cli EXCEPT !.busy = @ \ {p}]
             /\ data' = [data EXCEPT !.loaded = @ \cup {p}]
          \/ /\ cli' = [cli EXCEPT !.busy = @ \ {p}, !.err = TRUE]
             /\ data' = [data EXCEPT !.torn = @ \cup {p}]
    BY <1>5 DEF FileEnds
  <2>2. CASE /\ cli' = [cli EXCEPT !.busy = @ \ {p}]
             /\ data' = [data EXCEPT !.loaded = @ \cup {p}]
    <3>1. same /\ cli'.err = cli.err /\ cli'.todo = cli.todo /\ cli'.claim = cli.claim
          /\ cli'.busy = cli.busy \ {p}
      BY <2>2 DEF BaseTyped, CliTyped, Commands
    <3>2. data'.made = data.made /\ data'.torn = data.torn
          /\ data'.loaded = data.loaded \cup {p}
      BY <2>2 DEF BaseTyped, DataRecords
    <3>3. QED
      BY <1>1, <3>1, <3>2, LoadingImports
  <2>3. CASE /\ cli' = [cli EXCEPT !.busy = @ \ {p}, !.err = TRUE]
             /\ data' = [data EXCEPT !.torn = @ \cup {p}]
    <3>1. same /\ cli'.err /\ data'.made = data.made
      BY <2>3 DEF BaseTyped, CliTyped, Commands, DataRecords
    <3>2. QED
      BY <1>1, <3>1, LoadingImports
  <2>4. QED
    BY <2>1, <2>2, <2>3
<1>6. QED
  BY <1>2, <1>3, <1>4, <1>5

\* What loading has to leave.
LEMMA LoadedMakes ==
    ASSUME BaseTyped, Imports, ImportAt(4), site' = site, data'.made = data.made,
           cli'.path = cli.path, cli'.at = 5, cli'.mixed = cli.mixed, cli'.want = cli.want,
           Alone("import") => Alone("import")',
           ~cli.mixed => cli.want \subseteq data'.loaded /\ data'.torn = {}
    PROVE  Imports'
<1>2. ImportMakes'
  BY DEF Imports, ImportMakes, ImportAt
<1>3. ~cli.mixed => Alone("import")
  BY DEF Imports, ImportInv, ImportAt
<1>4. ImportInv'
  BY <1>3 DEF ImportInv, StopAt
<1>5. QED
  BY <1>2, <1>4 DEF Imports

\* Loading is over only without an error, and with nothing left.
LEMMA LoadedImports ==
    ASSUME BaseTyped, Imports, LoadOver \/ LoadPostgres
    PROVE  Imports'
<1>1. ImportAt(4) /\ site' = site /\ (LoadPostgres => ~Mysql)
  BY Places DEF LoadOver, LoadPostgres, BaseTyped, CliFrame
<1>3. CASE LoadOver
  <2>1. CASE ~cli.err /\ Proceeds /\ StaysDown /\ LoadDone
    <3>1. Alone("import") => Alone("import")'
      BY <2>1 DEF Alone, Quiet, StaysDown
    <3>2. cli.busy = {} /\ cli.claim = {} /\ cli.todo = {} /\ data' = data
      BY <2>1 DEF LoadDone, StaysDown
    <3>3. ~cli.mixed => cli.want \subseteq data'.loaded /\ data'.torn = {}
      BY <1>1, <2>1, <3>2 DEF Imports, ImportInv, ImportAt
    <3>4. QED
      BY <1>1, <2>1, <3>1, <3>2, <3>3, LoadedMakes, ProceedsFields DEF ImportAt
  <2>2. QED
    BY <1>3, <2>1, EndsImport DEF LoadOver, Abandons
<1>4. CASE LoadPostgres
  <2>1. CASE Proceeds /\ UNCHANGED server /\ data' = [data EXCEPT !.loaded = @ \cup cli.want]
    <3>1. Alone("import") => Alone("import")'
      BY <2>1 DEF Alone, Quiet
    <3>2. /\ data'.made = data.made /\ data'.torn = data.torn
          /\ data'.loaded = data.loaded \cup cli.want
      BY <2>1 DEF BaseTyped, DataRecords
    <3>3. ~cli.mixed => data.torn = {}
      BY <1>1, <1>4 DEF Imports, ImportInv, ImportAt
    <3>4. QED
      BY <1>1, <2>1, <3>1, <3>2, <3>3, LoadedMakes, ProceedsFields DEF ImportAt
  <2>2. QED
    BY <1>4, <2>1, EndsImport DEF LoadPostgres
<1>5. QED
  BY <1>3, <1>4

\* A command one step on, with all that a snapshot changes of it.
Arrived ==
    /\ cli'.path = cli.path /\ cli'.at = cli.at + 1 /\ cli'.mixed = cli.mixed
    /\ cli'.want = cli.want /\ cli'.pass = cli.pass /\ cli.at \in 1..10

\* A step that is done takes the command one step on and leaves the rest of
\* it.
LEMMA ArrivedFields ==
    ASSUME BaseTyped
    PROVE  /\ Proceeds => Arrived
           /\ \A by : TakesShot(by) => Arrived
<1>1. Proceeds => Arrived
  BY ProceedsFields DEF Arrived
<1>2. \A s : cli' = [cli EXCEPT !.at = @ + 1, !.shot = s] => Arrived
  BY DEF Arrived, BaseTyped, CliTyped, Commands
<1>3. QED
  BY <1>1, <1>2 DEF TakesShot

\* What a step after the loading has to leave.
LEMMA ArrivedImports ==
    ASSUME BaseTyped, Imports, cli.path = "import", cli.at > 4, Arrived, site' = site,
           data'.made = data.made, data'.torn = data.torn, data'.loaded = data.loaded,
           Alone("import") => Alone("import")',
           ~cli.mixed => data'.user = cli.pass,
           ~cli.mixed /\ cli'.at > StopAt => server'["import"] = "down" /\ data'.clean,
           ~cli.mixed /\ cli'.at > 8 => ~data'.uuid
    PROVE  Imports'
<1>1. cli'.path = "import" /\ cli'.at > 5 /\ cli'.at \in Nat
  BY DEF Arrived
<1>2. ImportMakes'
  BY <1>1 DEF Imports, ImportMakes, Arrived
<1>3. ~cli.mixed => Alone("import")' /\ cli.want \subseteq data.loaded /\ data.torn = {}
  BY DEF Imports, ImportInv, Arrived
<1>4. StopAt' = StopAt
  BY DEF StopAt, Mysql
<1>5. ImportInv'
  BY <1>1, <1>3, <1>4 DEF ImportInv, Arrived
<1>6. QED
  BY <1>2, <1>5 DEF Imports

\* The user: only the data change.
LEMMA UserImports ==
    ASSUME BaseTyped, Imports, CreateUser \/ CreateRole
    PROVE  Imports'
<1>1. ImportAt(5) /\ site' = site
  BY Places DEF CreateUser, CreateRole, BaseTyped, CliFrame
<1>2. CASE Proceeds /\ UNCHANGED server /\ data' = [data EXCEPT !.user = cli.pass]
  <2>1. /\ data'.made = data.made /\ data'.torn = data.torn /\ data'.loaded = data.loaded
        /\ data'.user = cli.pass
    BY <1>2 DEF BaseTyped, DataRecords
  <2>2. Alone("import") => Alone("import")'
    BY <1>2 DEF Alone, Quiet
  <2>3. Arrived
    BY <1>2, ArrivedFields
  <2>4. ~(cli'.at > StopAt) /\ ~(cli'.at > 8)
    BY <1>1, <2>3 DEF ImportAt, Arrived, StopAt
  <2>5. QED
    BY <1>1, <2>1, <2>2, <2>3, <2>4, ArrivedImports DEF ImportAt
<1>3. CASE \E c : Abandons(c)
  BY <1>3, EndsImport DEF Abandons
<1>4. QED
  BY <1>2, <1>3 DEF CreateUser, CreateRole

\* The end of the server: asked for, and seen.
LEMMA StopImports ==
    ASSUME BaseTyped, Imports, ShutdownServer \/ AwaitGone \/ StopPostgres
    PROVE  Imports'
<1>1. /\ site' = site /\ cli.path = "import" /\ cli.at \in 6..7
      /\ ShutdownServer => cli.at = 6 /\ StopAt = 7
  BY Places DEF ShutdownServer, AwaitGone, StopPostgres, BaseTyped, CliFrame, ImportAt, StopAt
<1>2. ~cli.mixed => data.user = cli.pass
  BY <1>1 DEF Imports, ImportInv
<1>3. CASE ShutdownServer /\ Proceeds
  <2>1. UNCHANGED data /\ ServerTo("import", "closing")
    BY <1>3 DEF ShutdownServer, Abandons, Ends, Proceeds, Skips, NoCommand, BaseTyped, CliTyped,
                Commands
  <2>2. Alone("import") => Alone("import")'
    BY <2>1 DEF Alone, Quiet, ServerTo, BaseTyped
  <2>3. Arrived /\ cli'.at = 7
    BY <1>1, <1>3, ArrivedFields DEF Arrived
  <2>4. QED
    BY <1>1, <1>2, <1>3, <2>1, <2>2, <2>3, ArrivedImports
<1>4. CASE AwaitGone /\ server["import"] = "down" /\ data.clean /\ Proceeds /\ StaysDown
  <2>1. Arrived /\ UNCHANGED <<data, server>>
    BY <1>4, ArrivedFields DEF StaysDown
  <2>2. Alone("import") => Alone("import")'
    BY <2>1 DEF Alone, Quiet
  <2>3. ~(cli'.at > 8)
    BY <1>1, <2>1 DEF Arrived
  <2>4. QED
    BY <1>1, <1>2, <1>4, <2>1, <2>2, <2>3, ArrivedImports
<1>5. CASE StopPostgres /\ Proceeds /\ ServerTo("import", "down")
           /\ data' = [data EXCEPT !.clean = TRUE]
  <2>1. /\ data'.made = data.made /\ data'.torn = data.torn /\ data'.loaded = data.loaded
        /\ data'.user = data.user /\ data'.clean
    BY <1>5 DEF BaseTyped, DataRecords
  <2>2. (Alone("import") => Alone("import")') /\ server'["import"] = "down"
    BY <1>5 DEF Alone, Quiet, ServerTo, BaseTyped, Sockets
  <2>3. Arrived /\ ~(cli'.at > 8)
    BY <1>1, <1>5, ArrivedFields DEF Arrived
  <2>4. QED
    BY <1>1, <1>2, <2>1, <2>2, <2>3, ArrivedImports
<1>6. CASE \E c : Abandons(c) \/ Quits(c)
  BY <1>6, EndsImport DEF Abandons, Quits
<1>7. QED
  BY <1>3, <1>4, <1>5, <1>6 DEF ShutdownServer, AwaitGone, StopPostgres

\* The rest is done with the server down.
LEMMA ShotImports ==
    ASSUME BaseTyped, Imports, RemoveAutoCnf \/ ImportSnapshot \/ ImportCopy \/ Register
    PROVE  Imports'
<1>1. CASE RemoveAutoCnf /\ Proceeds /\ UNCHANGED server /\ data' = [data EXCEPT !.uuid = FALSE]
  <2>1. UNCHANGED server /\ data' = [data EXCEPT !.uuid = FALSE]
    BY <1>1
  <2>2. ImportAt(8) /\ site' = site /\ StopAt < 8 /\ StopAt \in Nat
    BY <1>1, Places DEF RemoveAutoCnf, BaseTyped, CliFrame, StopAt
  <2>3. /\ data'.made = data.made /\ data'.torn = data.torn /\ data'.loaded = data.loaded
        /\ data'.user = data.user /\ data'.clean = data.clean /\ ~data'.uuid
    BY <2>1 DEF BaseTyped, DataRecords
  <2>4. Alone("import") => Alone("import")'
    BY <2>1 DEF Alone, Quiet
  <2>5. ~cli.mixed => data.user = cli.pass /\ server["import"] = "down" /\ data.clean
    BY <2>2 DEF Imports, ImportInv, ImportAt
  <2>6. QED
    BY <1>1, <2>1, <2>2, <2>3, <2>4, <2>5, ArrivedFields, ArrivedImports DEF ImportAt
<1>2. CASE (ImportSnapshot \/ ImportCopy) /\ TakesShot("import")
  <2>1. StaysDown /\ site' = site
    BY <1>2 DEF ImportSnapshot, ImportCopy, CliFrame
  <2>2. (ImportAt(9) /\ Mysql) \/ (ImportAt(7) /\ ~Mysql)
    BY <1>2, Places DEF ImportSnapshot, ImportCopy, BaseTyped
  <2>3. /\ cli.path = "import" /\ cli.at \in Nat /\ cli.at > 6 /\ cli.at > StopAt
        /\ cli.at + 1 > 8 => cli.at > 8
    BY <2>2 DEF ImportAt, StopAt
  <2>4. ~cli.mixed => /\ data.user = cli.pass /\ server["import"] = "down" /\ data.clean
                      /\ cli.at > 8 => ~data.uuid
    BY <2>3 DEF Imports, ImportInv
  <2>5. Alone("import") => Alone("import")'
    BY <2>1 DEF Alone, Quiet, StaysDown
  <2>6. Arrived
    BY <1>2, ArrivedFields
  <2>7. QED
    BY <2>1, <2>3, <2>4, <2>5, <2>6, ArrivedImports DEF StaysDown, Arrived
<1>3. CASE Ends
  BY <1>3, EndsImport
<1>4. QED
  BY <1>1, <1>2, <1>3 DEF RemoveAutoCnf, ImportSnapshot, ImportCopy, Register, Quits

\* Every step of an import keeps what is said of it.
LEMMA ImportsKept ==
    ASSUME BaseTyped, BaseInv, Imports, ImportStep
    PROVE  Imports'
BY CheckFreshImports, StartServerImports, LoadImports, LoadedImports, UserImports, StopImports,
   ShotImports DEF ImportStep, BaseInv

\* A build loads data, but does not make them.
LEMMA BuildMakes ==
    ASSUME BaseTyped, BuildStep
    PROVE  data'.made = data.made
<1>1. CASE StopLeftover \/ FilesDone \/ LoaderStops \/ LoaderGone \/ LoaderFails \/ Reclaim
           \/ Quiesce \/ SnapshotBase \/ Publish
  BY <1>1 DEF StopLeftover, FilesDone, LoaderStops, LoaderGone, LoaderFails, Reclaim, Quiesce,
              SnapshotBase, Publish, StaysDown
<1>2. CASE LoaderStarts
  BY <1>2, BegunFields DEF LoaderStarts, Starts, StaysDown
<1>3. CASE ApplyFile
  <2>1. \A s, t : data' = [data EXCEPT !.applied = s, !.torn = t] => data'.made = data.made
    BY DEF BaseTyped, DataRecords
  <2>2. \A t : data' = [data EXCEPT !.torn = t] => data'.made = data.made
    BY DEF BaseTyped, DataRecords
  <2>3. QED
    BY <1>3, <2>1, <2>2 DEF ApplyFile
<1>4. CASE RecordFile \/ SyncUser \/ RemoveBaseAutoCnf
  <2>1. \A s : /\ data' = [data EXCEPT !.recorded = s] => data'.made = data.made
               /\ data' = [data EXCEPT !.user = s] => data'.made = data.made
               /\ data' = [data EXCEPT !.uuid = s] => data'.made = data.made
    BY DEF BaseTyped, DataRecords
  <2>2. QED
    BY <1>4, <2>1 DEF RecordFile, SyncUser, RemoveBaseAutoCnf
<1>5. CASE ScriptRuns
  <2>1. Begun \in DataRecords /\ Begun.made = data.made
    BY BegunFields, BegunTyped DEF BaseTyped
  <2>2. \A u, c : /\ data' = [Begun EXCEPT !.user = u] => data'.made = data.made
                  /\ data' = [Begun EXCEPT !.user = u, !.clean = c] => data'.made = data.made
    BY <2>1 DEF DataRecords
  <2>3. QED
    BY <1>5, <2>2 DEF ScriptRuns, StaysDown
<1>6. QED
  BY <1>1, <1>2, <1>3, <1>4, <1>5 DEF BuildStep

\* Of the steps of neither program, none loads anything or starts a server.
LEMMA OthersServe ==
    ASSUME BaseTyped, DaemonRestarts \/ OtherStep
    PROVE  /\ UNCHANGED <<site, cli>> /\ Stops
           /\ \A k \in Sockets : server[k] = "down" => server'[k] = "down"
           /\ data'.made = data.made /\ data'.torn = data.torn /\ data'.loaded = data.loaded
           /\ data'.applied = data.applied /\ data'.recorded = data.recorded
           /\ data'.user = data.user /\ data'.uuid = data.uuid
           /\ data'.clean \in {data.clean, TRUE}
<1>1. UNCHANGED <<site, cli>>
  BY DEF DaemonRestarts, OtherStep, CloneBranch, DropBranches, ChangePassword, ServerCloses,
         ServerDies
<1>2. CASE UNCHANGED <<data, server>>
  BY <1>1, <1>2, ServerStops
<1>3. CASE \E k \in Sockets : ServerCloses(k) \/ ServerDies(k)
  <2>1. PICK k \in Sockets : ServerCloses(k) \/ ServerDies(k)
    BY <1>3
  <2>2. ServerTo(k, "down") /\ (UNCHANGED data \/ data' = [data EXCEPT !.clean = TRUE])
    BY <2>1 DEF ServerCloses, ServerDies
  <2>3. \A j \in Sockets : server[j] = "down" => server'[j] = "down"
    BY <2>2 DEF ServerTo, BaseTyped, Sockets
  <2>4. Stops
    BY <2>2, ServerStops
  <2>5. /\ data'.made = data.made /\ data'.torn = data.torn /\ data'.loaded = data.loaded
        /\ data'.applied = data.applied /\ data'.recorded = data.recorded
        /\ data'.user = data.user /\ data'.uuid = data.uuid
        /\ data'.clean \in {data.clean, TRUE}
    BY <2>2 DEF BaseTyped, DataRecords
  <2>6. QED
    BY <1>1, <2>3, <2>4, <2>5
<1>4. QED
  BY <1>2, <1>3 DEF DaemonRestarts, OtherStep, CloneBranch, DropBranches, ChangePassword

\* What others do: a command that begins, a build, a server that ends.
LEMMA OthersImports ==
    ASSUME BaseTyped, BaseInv, Imports, BaseNext, ~ImportStep
    PROVE  Imports'
<1>1. CASE StartStep
  <2>1. PICK path, want, force, p : Begin(path, want, force, p)
    BY <1>1 DEF StartStep, StartImport, StartStream, StartDarwinInit
  <2>2. cli'.at = 1 /\ cli'.want = cli'.todo
    BY <2>1, BeginFields
  <2>3. QED
    BY <2>2 DEF Imports, ImportMakes, ImportInv, StopAt
<1>2. CASE StreamStep \/ InitStep
  <2>1. cli.path # "import"
    BY <1>2, Places
       DEF BaseTyped, StreamAt, InitAt, StreamStep, CheckSpare, ReplaceBase, OpenSource, Receive,
           InitStep, InitDatadir, DevStart, DevUser, DevRole, DevStop, DevPgStop, CloneFile,
           WriteConfig
  <2>2. cli'.path # "import"
    BY <1>2, <2>1, CliKeeps DEF CliStep, CliGoesOn, Ends, NoCommand
  <2>3. QED
    BY <2>2, NotImport
<1>3. CASE CliStops
  BY <1>3, EndsImport DEF CliStops
<1>4. CASE BuildStep
  <2>1. UNCHANGED <<cli, base, site>> /\ daemon.pc # "idle"
    BY <1>4, BuildStepLeaves DEF DaemonFrame
  <2>2. data'.made = data.made
    BY <1>4, BuildMakes
  <2>3. cli.path = "import" => cli.mixed
    BY <2>1 DEF BaseInv, Overlap, CliIdle
  <2>4. QED
    BY <2>1, <2>2, <2>3 DEF Imports, ImportMakes, ImportInv
<1>5. CASE RefreshBegins
  <2>1. cli'.path = cli.path /\ cli'.at = cli.at /\ (~CliIdle => cli'.mixed) /\ data' = data
    BY <1>5, RefreshBeginsFields DEF RefreshBegins
  <2>2. QED
    BY <2>1 DEF Imports, ImportMakes, ImportInv, CliIdle
<1>6. CASE DaemonRestarts \/ OtherStep
  BY <1>6, OthersServe, ImportFrame DEF Sockets
<1>7. QED
  BY <1>1, <1>2, <1>3, <1>4, <1>5, <1>6, BaseSteps DEF CliStep

-----------------------------------------------------------------------------
(***************************************************************************)
(* init on darwin                                                          *)
(***************************************************************************)

\* Of an init that no refresh came in the way of: its server is alone; the user
\* is there, unless the snapshot was; and postgres was stopped before the clone.
DevInv ==
    cli.path = "init" /\ ~cli.mixed =>
        /\ cli.pass # 0
        /\ cli.at \in 3..4 => Alone("init")
        /\ cli.at \in 4..5 => First # {} \/ data.user # 0
        /\ cli.at = 5 /\ ~Mysql =>
              \/ First # {}
              \/ Alone("init") /\ server["init"] = "down" /\ data.clean

\* The steps of others, under which the record of this init does not change.
LEMMA DevFrame ==
    ASSUME BaseTyped, DevInv, site' = site, UNCHANGED <<cli, shots>>, Stops,
           server["init"] = "down" => server'["init"] = "down",
           data'.user = data.user, data'.clean \in {data.clean, TRUE}
    PROVE  DevInv'
<1>1. Alone("init") => Alone("init")'
  BY DEF Alone, Stops
<1>2. First' = First
  BY DEF First, Ids
<1>3. Mysql' = Mysql
  BY DEF Mysql
<1>4. QED
  BY <1>1, <1>2, <1>3 DEF DevInv

\* Nothing is asked of what is no init,
LEMMA NotInit ==
    ASSUME cli'.path # "init"
    PROVE  DevInv'
BY DEF DevInv

\* nor of a command that has ended.
LEMMA EndsInit ==
    ASSUME Ends
    PROVE  DevInv'
BY NotInit DEF Ends, NoCommand

\* Where the snapshot is there the init goes past its server.
LEMMA SkipsFields ==
    ASSUME BaseTyped, Skips(3)
    PROVE  /\ cli'.path = cli.path /\ cli'.at = cli.at + 3 /\ cli'.mixed = cli.mixed
           /\ cli'.pass = cli.pass
BY DEF Skips, BaseTyped, CliTyped, Commands

\* The server starts, or the three steps that need it are skipped.
LEMMA DevStartKeeps ==
    ASSUME BaseTyped, DevInv, InitDatadir \/ DevStart
    PROVE  DevInv'
<1>1. CASE InitDatadir
  <2>1. InitAt(1)
    BY <1>1, Places DEF InitDatadir, BaseTyped
  <2>2. CASE Proceeds
    <3>1. cli'.at = 2 /\ cli'.mixed = cli.mixed /\ cli'.pass = cli.pass
      BY <2>1, <2>2, ProceedsFields DEF InitAt
    <3>2. QED
      BY <2>1, <3>1 DEF InitAt, DevInv
  <2>3. QED
    BY <1>1, <2>2, EndsInit DEF InitDatadir
<1>2. CASE DevStart
  <2>1. InitAt(2)
    BY <1>2, Places DEF DevStart, BaseTyped
  <2>2. CASE First # {} /\ Skips(3) /\ SameShots
    <3>1. First' # {}
      BY <2>2 DEF First, Ids, SameShots
    <3>2. cli'.at = 5 /\ cli'.mixed = cli.mixed /\ cli'.pass = cli.pass
      BY <2>1, <2>2, SkipsFields DEF InitAt
    <3>3. QED
      BY <2>1, <3>1, <3>2 DEF InitAt, DevInv
  <2>3. CASE Proceeds /\ Starts("init")
    <3>1. Alone("init")'
      BY <2>3, StartsAlone DEF Starts, Sockets, Alone, Quiet, ServerTo, BaseTyped
    <3>2. cli'.at = 3 /\ cli'.mixed = cli.mixed /\ cli'.pass = cli.pass
      BY <2>1, <2>3, ProceedsFields DEF InitAt
    <3>3. QED
      BY <2>1, <3>1, <3>2 DEF InitAt, DevInv
  <2>4. CASE \E c : Quits(c)
    BY <2>4, EndsInit DEF Quits
  <2>5. QED
    BY <1>2, <2>2, <2>3, <2>4 DEF DevStart
<1>3. QED
  BY <1>1, <1>2

\* The user, whom neither engine leaves out.
LEMMA DevUserKeeps ==
    ASSUME BaseTyped, DevInv, DevUser \/ DevRole
    PROVE  DevInv'
<1>1. InitAt(3)
  BY Places DEF DevUser, DevRole, BaseTyped
<1>2. CASE /\ Proceeds /\ UNCHANGED server
           /\ \/ data' = [data EXCEPT !.user = IF @ = 0 THEN cli.pass ELSE @]
              \/ data' = [data EXCEPT !.user = cli.pass]
  <2>1. data'.user = cli.pass \/ data'.user # 0
    BY <1>2 DEF BaseTyped, DataRecords
  <2>2. cli'.at = 4 /\ cli'.mixed = cli.mixed /\ cli'.pass = cli.pass /\ cli'.path = cli.path
    BY <1>1, <1>2, ProceedsFields DEF InitAt
  <2>3. Alone("init") => Alone("init")'
    BY <1>2 DEF Alone, Quiet
  <2>4. QED
    BY <1>1, <2>1, <2>2, <2>3 DEF InitAt, DevInv
<1>3. CASE Ends
  BY <1>3, EndsInit
<1>4. QED
  BY <1>2, <1>3 DEF DevUser, DevRole

\* mysqld is sent a signal, and waited for in vain; postgres is stopped.
LEMMA DevStopKeeps ==
    ASSUME BaseTyped, DevInv, DevStop \/ DevPgStop
    PROVE  DevInv'
<1>1. /\ InitAt(4) /\ site' = site /\ UNCHANGED shots
      /\ DevStop => Mysql
      /\ DevPgStop => ~Mysql
  <2>1. DevStop => InitAt(4) /\ Mysql /\ site' = site /\ UNCHANGED shots
    BY Places DEF DevStop, BaseTyped, CliFrame, SameShots
  <2>2. DevPgStop => At("devPgStop") /\ site' = site
    BY DEF DevPgStop, CliFrame
  <2>3. DevPgStop => UNCHANGED shots
    BY DEF DevPgStop, SameShots, Quits
  <2>4. QED
    BY <2>1, <2>2, <2>3, Places DEF BaseTyped
<1>2. First' = First /\ Mysql' = Mysql
  BY <1>1 DEF First, Ids, Mysql
<1>3. CASE DevStop
  <2>1. data' = data
    BY <1>3 DEF DevStop
  <2>2. CASE ServerTo("init", "closing") /\ UNCHANGED cli
    <3>1. Alone("init") => Alone("init")'
      BY <2>2 DEF Alone, Quiet, ServerTo, BaseTyped
    <3>2. QED
      BY <1>1, <1>2, <2>1, <2>2, <3>1 DEF DevInv, InitAt
  <2>3. CASE Proceeds
    <3>1. cli'.at = 5 /\ cli'.mixed = cli.mixed /\ cli'.pass = cli.pass /\ cli'.path = cli.path
      BY <1>1, <2>3, ProceedsFields DEF InitAt
    <3>2. QED
      BY <1>1, <1>2, <1>3, <2>1, <3>1 DEF DevInv, InitAt
  <2>4. QED
    BY <1>3, <2>2, <2>3 DEF DevStop
<1>4. CASE DevPgStop
  <2>1. CASE Proceeds /\ ServerTo("init", "down") /\ data' = [data EXCEPT !.clean = TRUE]
    <3>1. cli'.at = 5 /\ cli'.mixed = cli.mixed /\ cli'.pass = cli.pass /\ cli'.path = cli.path
      BY <1>1, <2>1, ProceedsFields DEF InitAt
    <3>2. data'.user = data.user /\ data'.clean
      BY <2>1 DEF BaseTyped, DataRecords
    <3>3. (Alone("init") => Alone("init")') /\ server'["init"] = "down"
      BY <2>1 DEF Alone, Quiet, ServerTo, BaseTyped, Sockets
    <3>4. QED
      BY <1>1, <1>2, <3>1, <3>2, <3>3 DEF DevInv, InitAt
  <2>2. CASE \E c : Quits(c)
    BY <2>2, EndsInit DEF Quits
  <2>3. QED
    BY <1>4, <2>1, <2>2 DEF DevPgStop
<1>5. QED
  BY <1>3, <1>4

\* Nothing is asked of the last step.
LEMMA CloneFileKeeps ==
    ASSUME BaseTyped, DevInv, CloneFile \/ WriteConfig
    PROVE  DevInv'
<1>1. CASE CloneFile /\ Arrived
  <2>1. InitAt(5)
    BY <1>1, Places DEF CloneFile, BaseTyped
  <2>2. QED
    BY <1>1, <2>1 DEF InitAt, Arrived, DevInv
<1>2. CASE Ends
  BY <1>2, EndsInit
<1>3. QED
  BY <1>1, <1>2, ArrivedFields DEF CloneFile, WriteConfig

\* Every step keeps what is said of the init of a mac.
LEMMA DevKept ==
    ASSUME BaseTyped, BaseInv, DevInv, BaseNext
    PROVE  DevInv'
<1>1. CASE InitStep
  BY <1>1, DevStartKeeps, DevUserKeeps, DevStopKeeps, CloneFileKeeps DEF InitStep
<1>2. CASE StartStep
  <2>1. CASE StartDarwinInit
    <3>1. PICK p \in Passwords : Begin("init", {}, FALSE, p)
      BY <2>1 DEF StartDarwinInit
    <3>2. p # 0
      BY DEF Passwords
    <3>3. cli'.at = 1 /\ cli'.pass = p
      BY <3>1, BeginFields, Zenon
    <3>4. QED
      BY <3>2, <3>3 DEF DevInv
  <2>2. CASE StartImport \/ StartStream
    <3>1. PICK path \in {"import", "stream"} : \E want, force, p : Begin(path, want, force, p)
      BY <2>2 DEF StartImport, StartStream
    <3>2. cli'.path # "init"
      BY <3>1, BeginFields
    <3>3. QED
      BY <3>2, NotInit
  <2>3. QED
    BY <1>2, <2>1, <2>2 DEF StartStep
<1>3. CASE ImportStep \/ StreamStep
  <2>1. \/ At("fresh") \/ At("clear") \/ At("initialize") \/ At("start") \/ At("pgStart")
        \/ At("user") \/ At("role") \/ At("shutdown") \/ At("gone") \/ At("pgStop")
        \/ At("autocnf") \/ At("load") \/ At("pgLoad") \/ At("snapshot") \/ At("copy")
        \/ At("register") \/ At("spare") \/ At("replace") \/ At("open") \/ At("recv")
    BY <1>3 DEF ImportStep, CheckFresh, ClearDir, Initialize, StartServer, CreateUser, CreateRole,
                ShutdownServer, AwaitGone, StopPostgres, RemoveAutoCnf, LoadSchema, ClaimFile,
                LaunchFile, FileEnds, Idling, Loading, LoadOver, LoadPostgres, ImportSnapshot,
                ImportCopy, Register, StreamStep, CheckSpare, ReplaceBase, OpenSource, Receive
  <2>2. cli.path # "init"
    BY <2>1, Places DEF BaseTyped, ImportAt, StreamAt
  <2>3. cli'.path # "init"
    BY <1>3, <2>2, CliKeeps DEF CliStep, CliGoesOn, Ends, NoCommand
  <2>4. QED
    BY <2>3, NotInit
<1>4. CASE CliStops
  BY <1>4, EndsInit DEF CliStops
<1>5. CASE BuildStep
  <2>1. cli' = cli /\ daemon.pc # "idle"
    BY <1>5, BuildStepLeaves DEF DaemonFrame
  <2>2. QED
    BY <2>1 DEF BaseInv, Overlap, CliIdle, DevInv
<1>6. CASE RefreshBegins
  BY <1>6, RefreshBeginsFields DEF DevInv, CliIdle
<1>7. CASE DaemonRestarts \/ OtherStep
  <2>1. CASE UNCHANGED shots
    BY <1>7, <2>1, OthersServe, DevFrame DEF Sockets
  <2>2. CASE DaemonRestarts /\ daemon.pc = "snapshot"
    <3>1. cli' = cli
      BY <1>7, OthersServe
    <3>2. QED
      BY <2>2, <3>1 DEF BaseInv, Overlap, CliIdle, DevInv
  <2>3. QED
    BY <1>7, <2>1, <2>2 DEF DaemonRestarts, OtherStep, CloneBranch, DropBranches,
                            ChangePassword, ServerCloses, ServerDies
<1>8. QED
  BY <1>1, <1>2, <1>3, <1>4, <1>5, <1>6, <1>7, BaseSteps DEF CliStep

-----------------------------------------------------------------------------
(***************************************************************************)
(* refresh: what is true of the data at each step of a build               *)
(***************************************************************************)

Checks == {"quiesce", "requiesce", "autocnf", "snapshot"}
Later  == {"sync", "stop", "gone"} \cup Checks

\* Of a build no command came in the way of: the loader's server is alone; its
\* files are recorded, the user has the password, and the server was stopped.
LoaderInv ==
    daemon.how # "script" /\ ~daemon.mixed =>
        /\ daemon.pc \in Later \cup {"files", "record"} => Alone("refresh")
        /\ daemon.pc \in Later => daemon.want \subseteq data.recorded
        /\ daemon.pc \in Later \ {"sync"} => data.user = known
        /\ daemon.pc \in Checks =>
              server["refresh"] = "down" /\ (daemon.how = "spawn" => data.clean)
        /\ daemon.pc = "snapshot" => (data.uuid => daemon.blind)

\* After a script the check finds that no mysqld is left.
ScriptInv ==
    daemon.how = "script" /\ ~daemon.mixed /\ Mysql /\ ~daemon.blind
        /\ daemon.pc \in {"autocnf", "snapshot"} => AllQuiet

BuildsInv == LoaderInv /\ ScriptInv

\* A refresh goes on to its next step and stays the refresh it is.
LEMMA GotoFields ==
    ASSUME BaseTyped, NEW pc, Goto(pc)
    PROVE  /\ daemon'.pc = pc /\ daemon'.how = daemon.how /\ daemon'.want = daemon.want
           /\ daemon'.mixed = daemon.mixed /\ daemon'.blind = daemon.blind
BY DEF Goto, BaseTyped, Building, Builds

\* Of these steps nothing is asked.
LEMMA NoneBuilds ==
    ASSUME daemon'.pc \in {"idle", "start", "undo", "reclaim", "script", "publish"}
    PROVE  BuildsInv'
BY DEF BuildsInv, LoaderInv, ScriptInv, Later, Checks

\* Nothing is asked of a refresh that has ended.
LEMMA EndsBuild ==
    ASSUME BuildEnds
    PROVE  BuildsInv'
BY NoneBuilds DEF BuildEnds, NoBuild

\* Every set of numbers has a least one.
LEMMA LeastNumber ==
    ASSUME NEW S \in SUBSET Nat, S # {}
    PROVE  \E m \in S : \A n \in S : m <= n
<1> DEFINE R == {ss \in Nat \X Nat : ss[1] < ss[2]}
<1>1. IsWellFoundedOn(R, Nat)
  BY NatLessThanWellFounded DEF OpToRel
<1>2. \A x, y \in Nat : y < x => <<y, x>> \in R
  OBVIOUS
<1> HIDE DEF R
<1>3. PICK m \in S : \A n \in S : <<n, m>> \notin R
  BY <1>1, WFMin
<1>4. ASSUME NEW n \in S
      PROVE  m <= n
  <2>1. n \in Nat /\ m \in Nat
    OBVIOUS
  <2>2. ~(n < m)
    BY <1>2, <1>3, <2>1
  <2>3. QED
    BY <2>1, <2>2
<1>5. QED
  BY <1>4

\* What is pending is the least of what is left: there is none, if none is left.
LEMMA NoneIsPending ==
    ASSUME BaseTyped, Pending = {}
    PROVE  daemon.want \subseteq data.recorded
<1> DEFINE left == daemon.want \ data.recorded
<1>1. left \in SUBSET Nat
  BY BaseAssumption DEF BaseTyped, Building, Builds
<1>2. Pending = {f \in left : \A g \in left : f <= g}
  BY DEF Pending
<1> HIDE DEF left
<1>3. left = {}
  BY <1>1, <1>2, LeastNumber
<1>4. QED
  BY <1>3 DEF left

\* The loader's server starts; its files are applied and recorded.
LEMMA LoaderLoads ==
    ASSUME BaseTyped, BuildKind, BuildsInv, StopLeftover \/ LoaderStarts \/ ApplyFile \/ RecordFile
    PROVE  BuildsInv'
<1>1. ScriptInv /\ LoaderInv
  BY DEF BuildsInv
<1>2. ASSUME Goto("undo") \/ Goto("reclaim")
      PROVE  BuildsInv'
  BY <1>2, GotoFields, NoneBuilds
<1>3. ASSUME daemon'.pc \in {"files", "record"}, daemon'.how = daemon.how,
             daemon'.mixed = daemon.mixed,
             daemon.how # "script" /\ ~daemon.mixed => Alone("refresh")'
      PROVE  BuildsInv'
  BY <1>3 DEF BuildsInv, LoaderInv, ScriptInv, Later, Checks
<1>4. CASE StopLeftover
  BY <1>4, NoneBuilds DEF StopLeftover, In
<1>5. CASE LoaderStarts
  <2>1. CASE Starts("refresh") /\ Goto("files")
    <3>1. Alone("refresh")'
      BY <2>1, StartsAlone DEF Starts, Sockets, Alone, Quiet, ServerTo, BaseTyped
    <3>2. QED
      BY <1>3, <2>1, <3>1, GotoFields
  <2>2. QED
    BY <1>2, <1>5, <2>1 DEF LoaderStarts
<1>6. CASE ApplyFile \/ RecordFile
  <2>1. UNCHANGED server /\ daemon.pc \in {"files", "record"}
    BY <1>6 DEF ApplyFile, RecordFile, In
  <2>2. daemon.how # "script" /\ ~daemon.mixed => Alone("refresh")'
    BY <1>1, <2>1 DEF LoaderInv, Alone, Quiet
  <2>3. \A f : daemon' = [daemon EXCEPT !.pc = "record", !.file = f] =>
                  daemon'.pc = "record" /\ daemon'.how = daemon.how
                    /\ daemon'.mixed = daemon.mixed
    BY DEF BaseTyped, Building, Builds
  <2>4. \/ Goto("undo") \/ Goto("files")
        \/ \E f : daemon' = [daemon EXCEPT !.pc = "record", !.file = f]
    BY <1>6 DEF ApplyFile, RecordFile
  <2>5. QED
    BY <1>2, <1>3, <2>2, <2>3, <2>4, GotoFields
<1>7. QED
  BY <1>4, <1>5, <1>6

\* Nothing is pending, the user is given the password, the server is stopped.
LEMMA LoaderEnds ==
    ASSUME BaseTyped, BuildKind, BuildsInv,
           FilesDone \/ SyncUser \/ LoaderStops \/ LoaderGone \/ LoaderFails
    PROVE  BuildsInv'
<1>1. LoaderInv /\ known' = known
  BY DEF BuildsInv, FilesDone, SyncUser, LoaderStops, LoaderGone, LoaderFails, In, DaemonFrame
<1>2. ASSUME Goto("undo") \/ Goto("reclaim")
      PROVE  BuildsInv'
  BY <1>2, GotoFields, NoneBuilds
<1>3. CASE FilesDone
  <2>1. UNCHANGED <<data, server>> /\ daemon.pc = "files" /\ Goto("sync")
    BY <1>3 DEF FilesDone, In, StaysDown
  <2>2. daemon.want \subseteq data.recorded
    BY <1>3, NoneIsPending DEF FilesDone
  <2>3. Alone("refresh") => Alone("refresh")'
    BY <2>1 DEF Alone, Quiet
  <2>4. QED
    BY <1>1, <2>1, <2>2, <2>3, GotoFields DEF BuildsInv, LoaderInv, ScriptInv, Later, Checks
<1>4. CASE SyncUser /\ Goto("stop") /\ data' = [data EXCEPT !.user = known]
  <2>1. UNCHANGED server /\ daemon.pc = "sync"
    BY <1>4 DEF SyncUser, In
  <2>2. data'.user = known /\ data'.recorded = data.recorded
    BY <1>4 DEF BaseTyped, DataRecords
  <2>3. Alone("refresh") => Alone("refresh")'
    BY <2>1 DEF Alone, Quiet
  <2>4. QED
    BY <1>1, <1>4, <2>1, <2>2, <2>3, GotoFields
       DEF BuildsInv, LoaderInv, ScriptInv, Later, Checks
<1>5. CASE LoaderStops /\ Goto("gone")
  <2>1. daemon.pc = "stop" /\ data' = data
        /\ (UNCHANGED server \/ ServerTo("refresh", "closing"))
    BY <1>5 DEF LoaderStops, In
  <2>2. Alone("refresh") => Alone("refresh")'
    BY <2>1 DEF Alone, Quiet, ServerTo, BaseTyped
  <2>3. QED
    BY <1>1, <1>5, <2>1, <2>2, GotoFields DEF BuildsInv, LoaderInv, ScriptInv, Later, Checks
<1>6. CASE /\ LoaderGone /\ Goto("quiesce")
           /\ server["refresh"] = "down" /\ (data.clean \/ Engine)
  <2>1. daemon.pc = "gone" /\ UNCHANGED <<data, server>>
    BY <1>6 DEF LoaderGone, In, StaysDown
  <2>2. Alone("refresh") => Alone("refresh")'
    BY <2>1 DEF Alone, Quiet
  <2>3. QED
    BY <1>1, <1>6, <2>1, <2>2, GotoFields
       DEF BuildsInv, LoaderInv, ScriptInv, Later, Checks, Engine
<1>7. CASE LoaderFails
  BY <1>2, <1>7 DEF LoaderFails
<1>8. QED
  BY <1>2, <1>3, <1>4, <1>5, <1>6, <1>7 DEF SyncUser, LoaderStops, LoaderGone

\* A server that is down is not stopped again.
LEMMA TerminatesDown ==
    ASSUME BaseTyped, Terminates
    PROVE  \A k \in Sockets : server[k] = "down" => server'[k] = "down"
BY DEF Terminates, Up, BaseTyped

\* The checks: the loader's server is down, and so is every other that mysqld has.
LEMMA ChecksKeep ==
    ASSUME BaseTyped, BuildKind, BuildsInv, ScriptRuns \/ Reclaim \/ Quiesce
    PROVE  BuildsInv'
<1>1. /\ LoaderInv /\ known' = known /\ site' = site
      /\ BuildEnds => BuildsInv'
  BY EndsBuild DEF BuildsInv, ScriptRuns, Reclaim, Quiesce, In, DaemonFrame
<1>2. CASE ScriptRuns
  <2>1. daemon.how = "script" /\ (Goto("quiesce") \/ Goto("reclaim"))
    BY <1>2 DEF ScriptRuns, In, BuildKind
  <2>2. daemon'.how = "script" /\ daemon'.pc \notin {"autocnf", "snapshot"}
    BY <2>1, GotoFields
  <2>3. QED
    BY <2>2 DEF BuildsInv, LoaderInv, ScriptInv
<1>3. CASE Reclaim
  BY <1>1, <1>3 DEF Reclaim
<1>4. ASSUME Quiesce, Passes \/ PassesBlind \/ Goto("requiesce"),
             UNCHANGED server \/ Terminates,
             Passes => Visible = {} /\ UNCHANGED server
      PROVE  BuildsInv'
  <2>1. data' = data /\ daemon.pc \in {"quiesce", "requiesce"}
    BY <1>4 DEF Quiesce, In
  <2>2. /\ daemon'.how = daemon.how /\ daemon'.want = daemon.want
        /\ daemon'.mixed = daemon.mixed /\ daemon'.pc \in {"requiesce", "autocnf"}
        /\ daemon'.blind \/ Passes \/ daemon'.pc = "requiesce"
    <3>1. Passes => /\ daemon'.how = daemon.how /\ daemon'.want = daemon.want
                    /\ daemon'.mixed = daemon.mixed /\ daemon'.pc = "autocnf"
      BY DEF Passes, BaseTyped, Building, Builds
    <3>2. PassesBlind => /\ daemon'.how = daemon.how /\ daemon'.want = daemon.want
                         /\ daemon'.mixed = daemon.mixed /\ daemon'.pc = "autocnf"
                         /\ daemon'.blind
      BY DEF PassesBlind, BaseTyped, Building, Builds
    <3>3. QED
      BY <1>4, <3>1, <3>2, GotoFields
  <2>3. (Alone("refresh") => Alone("refresh")')
        /\ (server["refresh"] = "down" => server'["refresh"] = "down")
    <3>1. Stops
      BY <1>4, ServerStops
    <3>2. server["refresh"] = "down" => server'["refresh"] = "down"
      BY <1>4, TerminatesDown DEF Sockets
    <3>3. QED
      BY <3>1, <3>2 DEF Stops, Alone
  <2>4. LoaderInv'
    BY <1>1, <2>1, <2>2, <2>3 DEF LoaderInv, Later, Checks
  <2>5. ScriptInv'
    <3>1. CASE Passes /\ Mysql
      <4>1. OnData = {} /\ UNCHANGED server
        BY <1>4, <3>1 DEF Visible
      <4>2. AllQuiet'
        BY <4>1, QuietMeansClosed DEF AllQuiet, Quiet
      <4>3. QED
        BY <4>2 DEF ScriptInv
    <3>2. QED
      BY <1>1, <2>2, <3>1 DEF ScriptInv, Mysql
  <2>6. QED
    BY <2>4, <2>5 DEF BuildsInv
<1>5. CASE Quiesce
  <2>1. CASE BuildEnds
    BY <1>1, <2>1
  <2>2. CASE \/ PassesBlind /\ UNCHANGED server
             \/ Visible = {} /\ Passes /\ UNCHANGED server
             \/ Goto("requiesce") /\ Terminates
    <3>1. Goto("requiesce") /\ Terminates => ~Passes
      <4>1. Passes => daemon'.pc = "autocnf"
        BY DEF Passes, BaseTyped, Building, Builds
      <4>2. QED
        BY <4>1, GotoFields
    <3>2. CASE PassesBlind /\ UNCHANGED server /\ Passes
      <4>1. daemon'.blind /\ daemon'.blind = daemon.blind
        BY <3>2 DEF Passes, PassesBlind, BaseTyped, Building, Builds
      <4>2. LoaderInv'
        <5>1. /\ daemon'.how = daemon.how /\ daemon'.want = daemon.want
              /\ daemon'.mixed = daemon.mixed /\ daemon'.pc = "autocnf"
          BY <3>2 DEF Passes, BaseTyped, Building, Builds
        <5>2. data' = data /\ daemon.pc \in {"quiesce", "requiesce"}
          BY <1>5 DEF Quiesce, In
        <5>3. Alone("refresh") => Alone("refresh")'
          BY <3>2 DEF Alone, Quiet
        <5>4. QED
          BY <1>1, <3>2, <5>1, <5>2, <5>3 DEF LoaderInv, Later, Checks
      <4>3. QED
        BY <4>1, <4>2 DEF BuildsInv, ScriptInv
    <3>3. QED
      BY <1>4, <1>5, <2>2, <3>1, <3>2
  <2>3. QED
    BY <1>5, <2>1, <2>2 DEF Quiesce
<1>6. QED
  BY <1>2, <1>3, <1>5

\* The uuid is removed, or the build is blind.
LEMMA AutoCnfKeeps ==
    ASSUME BaseTyped, BuildKind, BuildsInv, RemoveBaseAutoCnf
    PROVE  BuildsInv'
<1>1. /\ LoaderInv /\ ScriptInv /\ known' = known /\ site' = site /\ UNCHANGED server
      /\ daemon.pc = "autocnf"
  BY DEF BuildsInv, RemoveBaseAutoCnf, In, DaemonFrame
<1>2. Alone("refresh")' = Alone("refresh") /\ AllQuiet' = AllQuiet /\ Mysql' = Mysql
  BY <1>1 DEF Alone, AllQuiet, Quiet, Mysql
<1>3. ASSUME daemon'.pc = "snapshot", daemon'.how = daemon.how, daemon'.want = daemon.want,
             daemon'.mixed = daemon.mixed, daemon.blind => daemon'.blind,
             data'.recorded = data.recorded, data'.user = data.user,
             data'.clean = data.clean,
             daemon.how # "script" => ~data'.uuid \/ daemon'.blind
      PROVE  BuildsInv'
  <2>1. LoaderInv'
    BY <1>1, <1>2, <1>3 DEF LoaderInv, Later, Checks
  <2>2. ScriptInv'
    BY <1>1, <1>2, <1>3 DEF ScriptInv
  <2>3. QED
    BY <2>1, <2>2 DEF BuildsInv
<1>4. CASE Goto("snapshot") /\ data' = [data EXCEPT !.uuid = FALSE]
  <2>1. data'.recorded = data.recorded /\ data'.user = data.user /\ data'.clean = data.clean
        /\ ~data'.uuid
    BY <1>4 DEF BaseTyped, DataRecords
  <2>2. QED
    BY <1>3, <1>4, <2>1, GotoFields
<1>5. CASE ~site.zfs /\ Goto("snapshot") /\ UNCHANGED data
  BY <1>1, <1>3, <1>5, GotoFields DEF BuildKind
<1>6. CASE UNCHANGED data /\ daemon' = [daemon EXCEPT !.pc = "snapshot", !.blind = TRUE]
  <2>1. /\ daemon'.pc = "snapshot" /\ daemon'.how = daemon.how /\ daemon'.want = daemon.want
        /\ daemon'.mixed = daemon.mixed /\ daemon'.blind
    BY <1>6 DEF BaseTyped, Building, Builds
  <2>2. QED
    BY <1>3, <1>6, <2>1
<1>7. QED
  BY <1>4, <1>5, <1>6, EndsBuild DEF RemoveBaseAutoCnf

\* Every step keeps what is said of a refresh.
LEMMA BuildsKept ==
    ASSUME BaseTyped, BaseInv, BuildsInv, BaseNext
    PROVE  BuildsInv'
<1>1. BuildKind /\ site' = site
  BY SiteStays DEF BaseInv
<1>2. CASE BuildStep
  <2>1. CASE SnapshotBase \/ Publish
    <3>1. (\E s : daemon' = [daemon EXCEPT !.pc = "publish", !.shot = s]) => daemon'.pc = "publish"
      BY DEF BaseTyped, Building, Builds
    <3>2. QED
      BY <2>1, <3>1, NoneBuilds, EndsBuild DEF SnapshotBase, Publish
  <2>2. QED
    BY <1>1, <1>2, <2>1, LoaderLoads, LoaderEnds, ChecksKeep, AutoCnfKeeps DEF BuildStep
<1>3. CASE StartStep
  <2>1. PICK path, want, force, p : Begin(path, want, force, p)
    BY <1>3 DEF StartStep, StartImport, StartStream, StartDarwinInit
  <2>2. daemon'.pc = daemon.pc /\ (daemon.pc # "idle" => daemon'.mixed)
    BY <2>1, BeginFields
  <2>3. QED
    BY <2>2, NoneBuilds DEF BuildsInv, LoaderInv, ScriptInv
<1>4. CASE CliStep
  <2>1. daemon' = daemon /\ ~CliIdle
    BY <1>4, CliStepLeaves DEF CliFrame
  <2>2. daemon.pc # "idle" => daemon'.mixed
    BY <2>1 DEF BaseInv, Overlap
  <2>3. QED
    BY <2>1, <2>2, NoneBuilds DEF BuildsInv, LoaderInv, ScriptInv
<1>5. CASE RefreshBegins
  BY <1>5, RefreshBeginsFields, NoneBuilds
<1>6. CASE DaemonRestarts
  BY <1>6, EndsBuild DEF DaemonRestarts
<1>7. CASE OtherStep
  <2>1. UNCHANGED <<daemon, known>>
    BY <1>7 DEF OtherStep, CloneBranch, DropBranches, ChangePassword, ServerCloses, ServerDies
  <2>2. /\ Stops /\ (server["refresh"] = "down" => server'["refresh"] = "down")
        /\ data'.recorded = data.recorded /\ data'.user = data.user /\ data'.uuid = data.uuid
        /\ data'.clean \in {data.clean, TRUE}
    BY <1>7, OthersServe DEF Sockets
  <2>3. (Alone("refresh") => Alone("refresh")') /\ (AllQuiet => AllQuiet')
    BY <2>2 DEF Stops, Alone, AllQuiet
  <2>4. LoaderInv'
    BY <2>1, <2>2, <2>3 DEF BuildsInv, LoaderInv, Later, Checks
  <2>5. ScriptInv'
    BY <1>1, <2>1, <2>3 DEF BuildsInv, ScriptInv, Mysql
  <2>6. QED
    BY <2>4, <2>5 DEF BuildsInv
<1>8. QED
  BY <1>2, <1>3, <1>4, <1>5, <1>6, <1>7, BaseSteps

-----------------------------------------------------------------------------
(***************************************************************************)
(* The snapshots                                                           *)
(***************************************************************************)

\* What is registered, or will be, is a snapshot that was made whole.
GoodShot(s) == s # 0 => shots[s].by \notin {"none", "cut"}
ShotsInv    == GoodShot(current) /\ GoodShot(cli.shot) /\ GoodShot(daemon.shot)

\* The snapshots there were stay what they were; a new one was made by k.
Brings(k) ==
    \A s \in Ids : /\ shots[s].by # "none" => shots'[s].by = shots[s].by
                   /\ shots'[s].by \in {shots[s].by, k}

\* There is at most one id for the next snapshot.
LEMMA FreshIsOne ==
    ASSUME NEW s \in Fresh, NEW t \in Fresh
    PROVE  s = t
<1>1. s \in Nat /\ t \in Nat /\ s > 0 /\ t > 0
  BY BaseAssumption DEF Fresh, Ids
<1>2. ~(s < t) /\ ~(t < s)
  BY <1>1 DEF Fresh
<1>3. QED
  BY <1>1, <1>2

\* A snapshot is made by its maker only.
LEMMA ShotBrings ==
    ASSUME BaseTyped, NEW by, NEW first, Shot(by, first)
    PROVE  Brings(by) /\ \A t \in Fresh : shots'[t].by = by
<1>1. PICK s \in Fresh : shots' = [shots EXCEPT ![s] = [by |-> by, there |-> TRUE,
                                                        first |-> first]]
  BY DEF Shot
<1>2. s \in Ids /\ shots[s].by = "none"
  BY DEF Fresh
<1>3. shots'[s].by = by /\ \A t \in Ids : t # s => shots'[t] = shots[t]
  BY <1>1, <1>2 DEF BaseTyped
<1>4. Brings(by)
  BY <1>2, <1>3 DEF Brings
<1>5. QED
  BY <1>3, <1>4, FreshIsOne

\* Making none brings none.
LEMMA SameBrings ==
    ASSUME UNCHANGED shots
    PROVE  Brings("cut")
BY DEF Brings

\* A command that goes on after a snapshot was made by it.
LEMMA TakesBrings ==
    ASSUME BaseTyped, NEW by \in {"import", "init"}, TakesShot(by)
    PROVE  Brings(by) /\ GoodShot(cli.shot)'
<1>1. Shot(by, First = {})
  BY DEF TakesShot
<1>2. PICK s \in Fresh : cli' = [cli EXCEPT !.at = @ + 1, !.shot = s]
  BY DEF TakesShot
<1>3. cli'.shot = s
  BY <1>2 DEF BaseTyped, CliTyped, Commands
<1>4. Brings(by) /\ shots'[s].by = by
  BY <1>1, ShotBrings
<1>5. QED
  BY <1>3, <1>4 DEF GoodShot

\* A copy that was cut is not registered.
LEMMA CutBrings ==
    ASSUME BaseTyped, CopyCut
    PROVE  Brings("cut")
BY ShotBrings DEF CopyCut

\* What zfs receive leaves is a snapshot of the stream, or the command ends.
LEMMA ReceiveBrings ==
    ASSUME BaseTyped, Receive
    PROVE  \/ UNCHANGED shots /\ Ends
           \/ Brings("stream") /\ (Ends \/ GoodShot(cli.shot)')
<1>1. CASE \E named \in BOOLEAN, s \in Fresh :
             /\ shots' = [shots EXCEPT ![s] = [by |-> "stream", there |-> TRUE, first |-> named]]
             /\ cli' = [cli EXCEPT !.at = @ + 1, !.shot = s] \/ Ends
  <2>1. PICK named \in BOOLEAN, s \in Fresh :
             /\ shots' = [shots EXCEPT ![s] = [by |-> "stream", there |-> TRUE, first |-> named]]
             /\ cli' = [cli EXCEPT !.at = @ + 1, !.shot = s] \/ Ends
    BY <1>1
  <2>2. Brings("stream") /\ shots'[s].by = "stream"
    BY <2>1, ShotBrings DEF Shot
  <2>3. cli' = [cli EXCEPT !.at = @ + 1, !.shot = s] => cli'.shot = s
    BY DEF BaseTyped, CliTyped, Commands
  <2>4. QED
    BY <2>1, <2>2, <2>3 DEF GoodShot
<1>2. QED
  BY <1>1 DEF Receive

\* What the steps of a command do to the snapshots.
CliShots ==
    /\ \/ Brings("cut") \/ Brings("stream")
       \/ (At("snapshot") \/ At("copy")) /\ Brings("import")
       \/ At("clonefile") /\ First = {} /\ Brings("init")
    /\ cli'.shot \in {0, cli.shot} \/ GoodShot(cli.shot)'
    /\ current' \in {current, cli.shot}

\* What a command does to the snapshots, and to the one it has in its hands.
LEMMA CliTakes ==
    ASSUME BaseTyped, CliStep
    PROVE  CliShots
<1>1. UNCHANGED cli \/ Ends \/ Proceeds \/ Skips(3) => cli'.shot \in {0, cli.shot}
  BY DEF Ends, NoCommand, Proceeds, Skips, BaseTyped, CliTyped, Commands
<1>2. UNCHANGED shots => Brings("cut")
  BY SameBrings
<1>3. ASSUME SameShots, UNCHANGED cli \/ Ends \/ Proceeds \/ Skips(3)
      PROVE  CliShots
  BY <1>1, <1>2, <1>3 DEF SameShots, CliShots
<1>4. CASE LoadSchema \/ ClaimFile \/ LaunchFile \/ FileEnds
  <2>1. \A s, t : /\ cli' = [cli EXCEPT !.todo = s] => cli'.shot = cli.shot
                  /\ cli' = [cli EXCEPT !.err = TRUE, !.todo = s] => cli'.shot = cli.shot
                  /\ cli' = [cli EXCEPT !.claim = s, !.todo = t] => cli'.shot = cli.shot
                  /\ cli' = [cli EXCEPT !.busy = s, !.claim = t] => cli'.shot = cli.shot
                  /\ cli' = [cli EXCEPT !.busy = s] => cli'.shot = cli.shot
                  /\ cli' = [cli EXCEPT !.busy = s, !.err = TRUE] => cli'.shot = cli.shot
    BY DEF BaseTyped, CliTyped, Commands
  <2>2. cli'.shot = cli.shot
    BY <1>4, <2>1 DEF LoadSchema, ClaimFile, LaunchFile, FileEnds
  <2>3. SameShots
    BY <1>4 DEF LoadSchema, ClaimFile, LaunchFile, FileEnds, Idling, Loading
  <2>4. QED
    BY <1>2, <2>2, <2>3 DEF SameShots, CliShots
<1>5. CASE CheckFresh \/ ClearDir \/ Initialize \/ StartServer \/ CreateUser \/ CreateRole
           \/ ShutdownServer \/ AwaitGone \/ StopPostgres \/ RemoveAutoCnf \/ LoadOver
           \/ LoadPostgres \/ CheckSpare \/ OpenSource
  BY <1>3, <1>5
     DEF CheckFresh, ClearDir, Initialize, StartServer, CreateUser, CreateRole, ShutdownServer,
         AwaitGone, StopPostgres, RemoveAutoCnf, LoadOver, LoadPostgres, CheckSpare, OpenSource,
         Quits, Abandons
<1>6. CASE InitDatadir \/ DevStart \/ DevUser \/ DevRole \/ DevStop \/ DevPgStop \/ WriteConfig
  BY <1>3, <1>6 DEF InitDatadir, DevStart, DevUser, DevRole, DevStop, DevPgStop, WriteConfig, Quits
<1>7. CASE ImportSnapshot \/ ImportCopy
  <2>1. (At("snapshot") \/ At("copy")) /\ UNCHANGED current
    BY <1>7 DEF ImportSnapshot, ImportCopy
  <2>2. \/ TakesShot("import")
        \/ Ends /\ (CopyCut \/ UNCHANGED shots)
    BY <1>7 DEF ImportSnapshot, ImportCopy
  <2>3. QED
    BY <1>1, <1>2, <2>1, <2>2, TakesBrings, CutBrings DEF CliShots
<1>8. CASE CloneFile
  <2>1. At("clonefile") /\ UNCHANGED current
    BY <1>8 DEF CloneFile
  <2>2. \/ First = {} /\ TakesShot("init")
        \/ Proceeds /\ UNCHANGED shots
        \/ Ends /\ (CopyCut \/ UNCHANGED shots)
    BY <1>8 DEF CloneFile
  <2>3. QED
    BY <1>1, <1>2, <2>1, <2>2, TakesBrings, CutBrings DEF CliShots
<1>9. CASE Register
  BY <1>1, <1>2, <1>9 DEF Register, CliShots
<1>10. CASE ReplaceBase
  <2>1. Brings("cut")
    <3>1. CASE shots' = [s \in Ids |-> [shots[s] EXCEPT !.there = FALSE]]
      BY <3>1 DEF Brings, BaseTyped, Shots
    <3>2. QED
      BY <1>2, <1>10, <3>1 DEF ReplaceBase, SameShots, Quits
  <2>2. UNCHANGED current /\ (Proceeds \/ Ends)
    BY <1>10 DEF ReplaceBase, SameShots, Quits
  <2>3. QED
    BY <1>1, <2>1, <2>2 DEF CliShots
<1>11. CASE Receive
  <2>1. UNCHANGED current
    BY <1>11 DEF Receive
  <2>2. QED
    BY <1>1, <1>2, <1>11, <2>1, ReceiveBrings DEF CliShots
<1>12. CASE CliStops
  <2>1. Ends /\ UNCHANGED current /\ (CopyCut \/ UNCHANGED shots)
    BY <1>12 DEF CliStops
  <2>2. QED
    BY <1>1, <1>2, <2>1, CutBrings DEF CliShots
<1>13. QED
  BY <1>4, <1>5, <1>6, <1>7, <1>8, <1>9, <1>10, <1>11, <1>12
     DEF CliStep, ImportStep, StreamStep, InitStep

\* And those of a build.
BuildShots ==
    /\ \/ Brings("cut")
       \/ daemon.pc = "snapshot" /\ Brings(daemon.how)
    /\ daemon'.shot \in {0, daemon.shot} \/ GoodShot(daemon.shot)'
    /\ current' \in {current, daemon.shot}

\* What a refresh does to them.
LEMMA BuildTakes ==
    ASSUME BaseTyped, BuildStep
    PROVE  BuildShots
<1>1. /\ UNCHANGED daemon \/ BuildEnds \/ Passes \/ PassesBlind => daemon'.shot \in {0, daemon.shot}
      /\ \A pc : Goto(pc) => daemon'.shot \in {0, daemon.shot}
      /\ \A f : daemon' = [daemon EXCEPT !.pc = "record", !.file = f]
                  => daemon'.shot \in {0, daemon.shot}
      /\ daemon' = [daemon EXCEPT !.pc = "snapshot", !.blind = TRUE]
            => daemon'.shot \in {0, daemon.shot}
  <2>1. UNCHANGED daemon \/ BuildEnds => daemon'.shot \in {0, daemon.shot}
    BY DEF BuildEnds, NoBuild
  <2>2. \A pc : Goto(pc) => daemon'.shot = daemon.shot
    BY DEF Goto, BaseTyped, Building, Builds
  <2>3. Passes \/ PassesBlind => daemon'.shot = daemon.shot
    BY DEF Passes, PassesBlind, BaseTyped, Building, Builds
  <2>4. \A f : daemon' = [daemon EXCEPT !.pc = "record", !.file = f] => daemon'.shot = daemon.shot
    BY DEF BaseTyped, Building, Builds
  <2>5. daemon' = [daemon EXCEPT !.pc = "snapshot", !.blind = TRUE] => daemon'.shot = daemon.shot
    BY DEF BaseTyped, Building, Builds
  <2>6. QED
    BY <2>1, <2>2, <2>3, <2>4, <2>5
<1>2. UNCHANGED shots => Brings("cut")
  BY SameBrings
<1>3. CASE StopLeftover \/ LoaderStarts \/ ApplyFile \/ RecordFile \/ FilesDone \/ SyncUser
           \/ LoaderStops \/ LoaderGone \/ LoaderFails
  <2>1. SameShots
    BY <1>3 DEF StopLeftover, LoaderStarts, ApplyFile, RecordFile, FilesDone, SyncUser,
                LoaderStops, LoaderGone, LoaderFails
  <2>2. daemon'.shot \in {0, daemon.shot}
    BY <1>1, <1>3 DEF StopLeftover, LoaderStarts, ApplyFile, RecordFile, FilesDone, SyncUser,
                      LoaderStops, LoaderGone, LoaderFails
  <2>3. QED
    BY <1>2, <2>1, <2>2 DEF SameShots, BuildShots
<1>4. CASE ScriptRuns \/ Reclaim \/ Quiesce \/ RemoveBaseAutoCnf
  <2>1. SameShots
    BY <1>4 DEF ScriptRuns, Reclaim, Quiesce, RemoveBaseAutoCnf
  <2>2. daemon'.shot \in {0, daemon.shot}
    BY <1>1, <1>4 DEF ScriptRuns, Reclaim, Quiesce, RemoveBaseAutoCnf
  <2>3. QED
    BY <1>2, <2>1, <2>2 DEF SameShots, BuildShots
<1>5. CASE SnapshotBase
  <2>1. daemon.pc = "snapshot" /\ UNCHANGED current
    BY <1>5 DEF SnapshotBase, In
  <2>2. CASE /\ Shot(daemon.how, FALSE)
             /\ \E s \in Fresh : daemon' = [daemon EXCEPT !.pc = "publish", !.shot = s]
    <3>1. PICK s \in Fresh : daemon' = [daemon EXCEPT !.pc = "publish", !.shot = s]
      BY <2>2
    <3>2. daemon'.shot = s /\ daemon.how \notin {"none", "cut"}
      BY <3>1 DEF BaseTyped, Building, Builds, Hows
    <3>3. Brings(daemon.how) /\ shots'[s].by = daemon.how
      BY <2>2, ShotBrings
    <3>4. QED
      BY <2>1, <3>2, <3>3 DEF BuildShots, GoodShot
  <2>3. CASE BuildEnds /\ (UNCHANGED shots \/ CopyCut)
    BY <1>1, <1>2, <2>1, <2>3, CutBrings DEF BuildShots
  <2>4. QED
    BY <1>5, <2>2, <2>3 DEF SnapshotBase
<1>6. CASE Publish
  BY <1>1, <1>2, <1>6 DEF Publish, BuildShots
<1>7. QED
  BY <1>3, <1>4, <1>5, <1>6 DEF BuildStep

\* What is registered, or will be, stays a snapshot that was made whole.
LEMMA ShotsKept ==
    ASSUME BaseTyped, ShotsInv, BaseNext
    PROVE  ShotsInv'
<1>1. ASSUME NEW k, Brings(k), NEW s \in 0..MaxShots, NEW t \in {0, s}, GoodShot(s)
      PROVE  t # 0 => shots'[t].by \notin {"none", "cut"}
  <2>1. t # 0 => t \in Ids
    BY BaseAssumption DEF Ids
  <2>2. QED
    BY <1>1, <2>1 DEF Brings, GoodShot
<1>2. /\ current \in 0..MaxShots /\ cli.shot \in 0..MaxShots /\ daemon.shot \in 0..MaxShots
      /\ GoodShot(current) /\ GoodShot(cli.shot) /\ GoodShot(daemon.shot)
  BY DEF BaseTyped, CliTyped, Commands, Building, Builds, ShotsInv
<1>3. ASSUME NEW k, Brings(k), current' \in {0, current, cli.shot, daemon.shot},
             cli'.shot \in {0, cli.shot} \/ GoodShot(cli.shot)',
             daemon'.shot \in {0, daemon.shot} \/ GoodShot(daemon.shot)'
      PROVE  ShotsInv'
  <2>1. GoodShot(current)'
    BY <1>1, <1>2, <1>3 DEF GoodShot
  <2>2. GoodShot(cli.shot)'
    BY <1>1, <1>2, <1>3 DEF GoodShot
  <2>3. GoodShot(daemon.shot)'
    BY <1>1, <1>2, <1>3 DEF GoodShot
  <2>4. QED
    BY <2>1, <2>2, <2>3 DEF ShotsInv
<1>4. CASE CliStep
  <2>1. CliShots /\ daemon' = daemon
    BY <1>4, CliTakes, CliStepLeaves DEF CliFrame
  <2>2. QED
    BY <1>3, <2>1 DEF CliShots
<1>5. CASE BuildStep
  <2>1. BuildShots /\ cli' = cli
    BY <1>5, BuildTakes, BuildStepLeaves DEF DaemonFrame
  <2>2. QED
    BY <1>3, <2>1 DEF BuildShots
<1>6. CASE StartStep
  <2>1. PICK path, want, force, p : Begin(path, want, force, p)
    BY <1>6 DEF StartStep, StartImport, StartStream, StartDarwinInit
  <2>2. cli'.shot = 0 /\ daemon'.shot = daemon.shot
    BY <2>1, BeginFields
  <2>3. UNCHANGED <<shots, current>>
    BY <2>1 DEF Begin
  <2>4. QED
    BY <1>3, <2>2, <2>3, SameBrings
<1>7. CASE RefreshBegins
  <2>1. UNCHANGED <<shots, current>>
    BY <1>7 DEF RefreshBegins
  <2>2. QED
    BY <1>3, <1>7, <2>1, RefreshBeginsFields, SameBrings
<1>8. CASE DaemonRestarts
  <2>1. /\ UNCHANGED <<cli, current>> /\ daemon'.shot = 0
        /\ UNCHANGED shots \/ CopyCut
    BY <1>8 DEF DaemonRestarts, BuildEnds, NoBuild
  <2>2. QED
    BY <1>3, <2>1, SameBrings, CutBrings
<1>9. CASE OtherStep
  <2>1. UNCHANGED <<cli, daemon, shots, current>>
    BY <1>9 DEF OtherStep, CloneBranch, DropBranches, ChangePassword, ServerCloses, ServerDies
  <2>2. QED
    BY <1>3, <2>1, SameBrings
<1>10. QED
  BY <1>4, <1>5, <1>6, <1>7, <1>8, <1>9, BaseSteps

\* Who makes the snapshots of a kind, and at which step.
LEMMA Takers ==
    ASSUME BaseTyped, BaseNext,
           NEW kinds \in SUBSET {"import", "spawn", "engine", "script", "init"}, Made(kinds)
    PROVE  \/ "import" \in kinds /\ (At("snapshot") \/ At("copy"))
           \/ daemon.how \in kinds /\ daemon.pc = "snapshot"
           \/ "init" \in kinds /\ At("clonefile") /\ First = {}
<1>1. ASSUME NEW k, Brings(k)
      PROVE  k \in kinds
  <2>1. PICK s \in Ids : shots[s].by = "none" /\ shots'[s].by \in kinds
    BY DEF Made
  <2>2. shots'[s].by \in {"none", k} /\ "none" \notin kinds
    BY <1>1, <2>1 DEF Brings
  <2>3. QED
    BY <2>1, <2>2
<1>2. ~Brings("cut") /\ ~Brings("stream")
  BY <1>1
<1>3. shots' # shots
  BY <1>2, SameBrings
<1>4. CASE CliStep
  BY <1>1, <1>2, <1>4, CliTakes DEF CliShots
<1>5. CASE BuildStep
  BY <1>1, <1>2, <1>5, BuildTakes DEF BuildShots
<1>6. CASE DaemonRestarts
  BY <1>2, <1>3, <1>6, CutBrings DEF DaemonRestarts
<1>7. CASE StartStep \/ RefreshBegins \/ OtherStep
  BY <1>3, <1>7 DEF StartStep, StartImport, StartStream, StartDarwinInit, Begin, RefreshBegins,
                    OtherStep, CloneBranch, DropBranches, ChangePassword, ServerCloses, ServerDies
<1>8. QED
  BY <1>4, <1>5, <1>6, <1>7, BaseSteps

-----------------------------------------------------------------------------
(***************************************************************************)
(* The base: the invariant, and what a snapshot finds                      *)
(***************************************************************************)

BaseAll == BaseTyped /\ BaseInv /\ Imports /\ DevInv /\ BuildsInv /\ ShotsInv

\* Every step on the base keeps its invariant.
LEMMA BaseKept == BaseAll /\ BaseNext => BaseAll'
<1> SUFFICES ASSUME BaseAll, BaseNext PROVE BaseAll'
  OBVIOUS
<1>1. BaseTyped' /\ ShotsInv'
  BY BaseNextTyped, ShotsKept DEF BaseAll
<1>2. Imports'
  BY ImportsKept, OthersImports DEF BaseAll
<1>3. DevInv' /\ BuildsInv'
  BY DevKept, BuildsKept DEF BaseAll
<1>4. BaseInv'
  BY <1>2, DataKept, OverlapKept DEF BaseAll, BaseInv, Imports
<1>5. QED
  BY <1>1, <1>2, <1>3, <1>4 DEF BaseAll

\* What an import is about to copy.
LEMMA ImportFinds ==
    ASSUME BaseAll, At("snapshot") \/ At("copy"), ~cli.mixed
    PROVE  /\ OnData = {} /\ data.clean
           /\ cli.want \subseteq data.loaded /\ data.torn = {}
           /\ data.user = cli.pass /\ ~data.uuid
<1>1. /\ BaseTyped /\ ImportInv /\ DataInv
  BY DEF BaseAll, Imports, BaseInv
<1>2. (ImportAt(9) /\ Mysql) \/ (ImportAt(7) /\ ~Mysql)
  BY <1>1, Places DEF BaseTyped
<1>3. /\ cli.path = "import" /\ cli.at > 5 /\ cli.at > StopAt /\ cli.at > 4 /\ cli.at > 3
      /\ cli.at > 8 \/ ~Mysql
  BY <1>2 DEF ImportAt, StopAt
<1>4. /\ Alone("import") /\ server["import"] = "down" /\ data.clean
      /\ cli.want \subseteq data.loaded /\ data.torn = {}
      /\ data.user = cli.pass /\ (cli.at > 8 => ~data.uuid)
  BY <1>1, <1>3 DEF ImportInv
<1>5. AllQuiet
  BY <1>4 DEF Alone, AllQuiet, Quiet
<1>6. QED
  BY <1>1, <1>3, <1>4, <1>5, QuietMeansClosed DEF DataInv

\* What a loader is about to snapshot.
LEMMA LoaderFinds ==
    ASSUME BaseAll, daemon.pc = "snapshot", daemon.how # "script", ~daemon.mixed
    PROVE  /\ OnData = {} /\ (daemon.how = "spawn" => data.clean)
           /\ daemon.want \subseteq data.recorded \cap data.applied
           /\ daemon.want \cap data.torn = {}
           /\ data.user = known /\ (data.uuid => daemon.blind)
<1>1. BaseTyped /\ LoaderInv /\ DataInv
  BY DEF BaseAll, BuildsInv, BaseInv
<1>2. /\ Alone("refresh") /\ server["refresh"] = "down" /\ (daemon.how = "spawn" => data.clean)
      /\ daemon.want \subseteq data.recorded
      /\ data.user = known /\ (data.uuid => daemon.blind)
  BY <1>1 DEF LoaderInv, Later, Checks
<1>3. AllQuiet
  BY <1>2 DEF Alone, AllQuiet, Quiet
<1>4. data.recorded \subseteq data.applied /\ data.recorded \cap data.torn = {}
  BY <1>1 DEF DataInv
<1>5. QED
  BY <1>1, <1>2, <1>3, <1>4, QuietMeansClosed

\* What a script has left when the snapshot is taken: no mysqld, as the check
\* saw.
LEMMA ScriptFinds ==
    ASSUME BaseAll, daemon.pc = "snapshot", daemon.how = "script", ~daemon.mixed, Mysql,
           ~daemon.blind
    PROVE  OnData = {}
BY QuietMeansClosed DEF BaseAll, BuildsInv, ScriptInv

\* What an init on darwin is about to clone.
LEMMA InitFinds ==
    ASSUME BaseAll, At("clonefile"), First = {}, ~cli.mixed
    PROVE  data.user # 0 /\ (~Mysql => OnData = {} /\ data.clean)
<1>1. BaseTyped /\ DevInv /\ InitAt(5)
  BY Places DEF BaseAll, BaseTyped
<1>2. /\ data.user # 0
      /\ ~Mysql => Alone("init") /\ server["init"] = "down" /\ data.clean
  BY <1>1 DEF DevInv, InitAt
<1>3. ~Mysql => AllQuiet
  BY <1>2 DEF Alone, AllQuiet, Quiet
<1>4. QED
  BY <1>1, <1>2, <1>3, QuietMeansClosed

-----------------------------------------------------------------------------
(***************************************************************************)
(* init and the base together                                              *)
(***************************************************************************)

\* Until the host is handed over nobody works on the base.
Untouched ==
    /\ data = Empty /\ cli = NoCommand /\ daemon = NoBuild /\ current = 0
    /\ server = [k \in Sockets |-> "down"]
    /\ shots = [s \in Ids |-> NoShot]

IInv == HostTypeOK /\ HostInv /\ BaseAll /\ (~Handed => Untouched)

\* A base nobody works on, whatever it is, and whatever the passwords are.
LEMMA UntouchedIsGood ==
    ASSUME Untouched, site \in Sites, pass \in {0} \cup Passwords, known \in {0} \cup Passwords
    PROVE  BaseAll
<1>1. cli \in Commands /\ cli.at = 1 /\ cli.path = "none" /\ cli.shot = 0
  BY BaseAssumption DEF Untouched, NoCommand, Commands, Paths
<1>2. daemon \in Building /\ daemon.pc = "idle" /\ daemon.shot = 0
  BY NoBuildTyped DEF Untouched, NoBuild
<1>3. BaseTyped
  <2>1. CliTyped
    BY <1>1 DEF CliTyped, LastStep
  <2>2. data \in DataRecords /\ shots \in [Ids -> Shots]
    BY EmptyTyped DEF Untouched
  <2>3. server \in [Sockets -> States]
    BY DEF Untouched, States
  <2>4. current \in 0..MaxShots
    BY BaseAssumption DEF Untouched
  <2>5. QED
    BY <1>2, <2>1, <2>2, <2>3, <2>4 DEF BaseTyped
<1>4. AllQuiet
  BY DEF Untouched, AllQuiet, Quiet
<1>5. DataInv
  BY <1>2, <1>4 DEF Untouched, DataInv, Empty, Up
<1>6. BaseInv /\ Imports /\ DevInv
  BY <1>1, <1>2, <1>5 DEF BaseInv, Overlap, CliIdle, ImportMakes, BuildKind, Imports, ImportInv,
                          DevInv
<1>7. BuildsInv
  BY <1>2 DEF BuildsInv, LoaderInv, ScriptInv, Later, Checks
<1>8. ShotsInv
  BY <1>1, <1>2 DEF ShotsInv, GoodShot, Untouched
<1>9. QED
  BY <1>3, <1>6, <1>7, <1>8 DEF BaseAll

\* The site is a constant, once it is given.
LEMMA HostStepLeaves ==
    ASSUME StartInit \/ InitHost \/ AddRootHelper \/ DisableStock \/ Reboot
    PROVE  ~Handed /\ SameBase
<1>1. \A step, done : Done(step, done) => ~Handed /\ SameBase
  BY DEF Done, AtStep
<1>2. \A step, done : Todo(step, done) => ~Handed
  BY DEF Todo, AtStep
<1>3. \A h, cut : Runs(h, cut) => SameBase
  BY DEF Runs
<1>4. CASE InitHost
  BY <1>1, <1>2, <1>3, <1>4
     DEF InitHost, ServiceStep, ZpoolStep, DatasetStep, ApparmorStep, HelperStep, SudoersStep,
         DirsStep, UnitStep, AppPassStep, ConfigStep, PermStep, AtStep
<1>5. QED
  BY <1>4 DEF StartInit, AddRootHelper, DisableStock, Reboot

\* IInv holds of every host an init may begin on.
LEMMA InitGood == Init => IInv
<1> SUFFICES ASSUME Init PROVE IInv
  OBVIOUS
<1>1. /\ site \in Sites /\ pass \in {0} \cup Passwords /\ known = pass
      /\ cli = NoCommand
  BY DEF Init, BaseInit, Passwords
<1>2. Untouched
  BY DEF Init, BaseInit, Untouched
<1>3. BaseAll
  BY <1>1, <1>2, UntouchedIsGood
<1>4. setup \in Setups /\ setup.at = 0
  BY ReadyHost DEF Init
<1>5. \/ host = Ready
      \/ \E z \in [Pools -> {"none", "exported"}] : host = Bare(z)
      \/ \E p \in Pools, withHelper \in BOOLEAN : host = Earlier(p, withHelper)
  BY DEF Init
<1>6. host \in Hosts /\ SettledInv(host, setup) /\ ProfileInv(host)
  <2>1. ASSUME NEW p \in Pools, NEW withHelper \in BOOLEAN, host = Earlier(p, withHelper)
        PROVE  host \in Hosts /\ SettledInv(host, setup) /\ ProfileInv(host)
    <3>1. host \in Hosts /\ host.config.pool = p /\ LetThrough(host, p) /\ ProfileInv(host)
      BY <2>1, EarlierHost
    <3>2. p # NoPool
      BY HostAssumption
    <3>3. QED
      BY <1>4, <3>1, <3>2 DEF SettledInv
  <2>2. ASSUME host \in Hosts, ~host.settled, host.profile = NoPool
        PROVE  host \in Hosts /\ SettledInv(host, setup) /\ ProfileInv(host)
    BY <2>2 DEF SettledInv, ProfileInv
  <2>3. QED
    BY <1>5, <2>1, <2>2, ReadyHost
<1>8. Progress(host, setup.at, setup.pool) /\ setup.at <= Len(InitSteps)
  BY <1>4, InitLength DEF Progress, HelperAt
<1>9. QED
  BY <1>2, <1>3, <1>4, <1>6, <1>8 DEF IInv, HostTypeOK, HostInv

\* Every step keeps it.
LEMMA StepGood == IInv /\ [Next]_vars => IInv'
<1> SUFFICES ASSUME IInv, [Next]_vars PROVE IInv'
  OBVIOUS
<1>1. HostTypeOK /\ HostInv /\ BaseAll /\ (~Handed => Untouched)
  BY DEF IInv
<1>2. ASSUME SameBase
      PROVE  BaseAll' /\ (Untouched => Untouched')
  <2>1. BaseTyped'
    BY <1>1, <1>2 DEF SameBase, BaseAll, BaseTyped, CliTyped, LastStep, Mysql
  <2>2. BaseInv'
    BY <1>1, <1>2 DEF SameBase, BaseAll, BaseInv, Overlap, CliIdle, DataInv, AllQuiet, Quiet, Up,
                      Mysql, ImportMakes, BuildKind
  <2>3. Imports'
    BY <1>1, <1>2 DEF SameBase, BaseAll, Imports, ImportMakes, ImportInv, Alone, Quiet, StopAt,
                      Mysql
  <2>4. DevInv'
    BY <1>1, <1>2 DEF SameBase, BaseAll, DevInv, Alone, Quiet, Mysql, First, Ids
  <2>5. BuildsInv'
    BY <1>1, <1>2 DEF SameBase, BaseAll, BuildsInv, LoaderInv, ScriptInv, Alone, AllQuiet, Quiet,
                      Mysql
  <2>6. ShotsInv'
    BY <1>1, <1>2 DEF SameBase, BaseAll, ShotsInv, GoodShot
  <2>7. Untouched => Untouched'
    BY <1>2 DEF SameBase, Untouched
  <2>8. QED
    BY <2>1, <2>2, <2>3, <2>4, <2>5, <2>6, <2>7 DEF BaseAll
<1>3. CASE StartInit \/ InitHost \/ AddRootHelper \/ DisableStock \/ Reboot
  <2>1. HostTypeOK' /\ HostInv'
    BY <1>1, <1>3, HostSteps
  <2>2. ~Handed /\ SameBase
    BY <1>3, HostStepLeaves
  <2>3. QED
    BY <1>1, <1>2, <2>1, <2>2 DEF IInv
<1>4. CASE HandOver
  <2>1. /\ ~Handed /\ host' = Ready /\ setup' = NoSetup /\ pass' = 1 /\ known' = 1
        /\ UNCHANGED <<site, data, server, shots, clones, current, cli, daemon, faults>>
    BY <1>4 DEF HandOver
  <2>2. Untouched /\ BaseTyped
    BY <1>1, <2>1 DEF BaseAll
  <2>3. HostTypeOK'
    BY <2>1, ReadyHost DEF HostTypeOK
  <2>4. Len(InitSteps)' = Len(InitSteps) /\ HelperAt' \in 5..6
    BY <2>1 DEF InitSteps, HelperAt, Mysql
  <2>5. HostInv'
    <3>1. setup'.at = 0 /\ ~host'.settled /\ host'.profile = NoPool
      BY <2>1, ReadyHost
    <3>2. setup'.at <= Len(InitSteps)' /\ (setup'.at # 0 => setup'.pool \in Pools)
      BY <2>4, <3>1, InitLength
    <3>3. Progress(host, setup.at, setup.pool)'
      BY <2>4, <3>1 DEF Progress
    <3>4. QED
      BY <3>1, <3>2, <3>3 DEF HostInv, SettledInv, Progress, ProfileInv
  <2>6. daemon'.pc = "idle" /\ cli'.path = "none" /\ AllQuiet'
    BY <2>1, <2>2 DEF Untouched, NoBuild, NoCommand, AllQuiet, Quiet
  <2>7. BaseTyped'
    BY <2>1, <2>2 DEF BaseTyped, CliTyped, LastStep, Mysql, Passwords
  <2>8. DataInv'
    BY <2>1, <2>2, <2>6 DEF Untouched, DataInv, Empty, Up
  <2>9. BaseInv' /\ Imports' /\ DevInv'
    BY <2>6, <2>8 DEF BaseInv, Overlap, CliIdle, ImportMakes, BuildKind, Imports, ImportInv, DevInv
  <2>10. BuildsInv'
    BY <2>6, NoneBuilds
  <2>11. ShotsInv'
    BY <1>1, <2>1 DEF BaseAll, ShotsInv, GoodShot
  <2>12. Handed'
    BY <2>1 DEF Handed, Ready, Bare, NoConfig
  <2>13. QED
    BY <2>3, <2>5, <2>7, <2>9, <2>10, <2>11, <2>12 DEF IInv, BaseAll
<1>5. CASE Handed /\ BaseNext /\ UNCHANGED hostVars
  <2>1. BaseAll' /\ site' = site
    BY <1>1, <1>5, BaseKept, SiteStays DEF BaseAll
  <2>2. Handed' /\ HostTypeOK'
    BY <1>1, <1>5 DEF hostVars, Handed, HostTypeOK
  <2>3. HostInv'
    BY <1>1, <1>5, <2>1 DEF hostVars, HostInv, SettledInv, LetThrough, Progress, ProfileInv,
                            InitSteps, HelperAt, Mysql
  <2>4. QED
    BY <2>1, <2>2, <2>3 DEF IInv
<1>6. CASE UNCHANGED vars
  <2>1. SameBase /\ UNCHANGED hostVars
    BY <1>6 DEF vars, baseVars, SameBase
  <2>2. HostTypeOK' /\ HostInv' /\ (Handed => Handed')
    BY <1>1, <2>1 DEF hostVars, SameBase, HostTypeOK, HostInv, SettledInv, LetThrough, Progress,
                      ProfileInv, InitSteps, HelperAt, Mysql, Handed
  <2>3. QED
    BY <1>1, <1>2, <2>1, <2>2 DEF IInv
<1>7. QED
  BY <1>3, <1>4, <1>5, <1>6 DEF Next

\* IInv holds of every reachable state.
LEMMA Invariant == Spec => []IInv
BY InitGood, StepGood, PTL DEF Spec

\* Init never takes from sashikid what it has: a settled host lets through every
\* command of the backends that it ever could, and a profile of this init does not
\* leave mysqld to the stock one.
THEOREM InitSparesDaemon == Spec => []InitPermitsDaemon
<1>1. IInv => InitPermitsDaemon
  <2> SUFFICES ASSUME IInv PROVE InitPermitsDaemon
    OBVIOUS
  <2>1. HostInv
    BY DEF IInv
  <2>2. ASSUME host.settled, NEW f \in Forms
        PROVE  Permits(f) \/ (f \in LegacyRefuses /\ ~host.config.helper)
    <3>1. LetThrough(host, host.config.pool)
      BY <2>1, <2>2 DEF HostInv, SettledInv
    <3>2. CASE host.config.helper
      BY <2>2, <3>1, <3>2 DEF LetThrough, Permits, HelperAllows
    <3>3. CASE ~host.config.helper
      <4>1. host.sudoers.kind = "legacy" /\ host.sudoers.pool = host.config.pool
        BY <3>1, <3>3 DEF LetThrough
      <4>2. QED
        BY <2>2, <3>3, <4>1 DEF Permits, LegacyAllows
    <3>4. QED
      BY <3>2, <3>3
  <2>3. QED
    BY <2>1, <2>2 DEF InitPermitsDaemon, HostInv, ProfileInv
<1>2. QED
  BY <1>1, Invariant, PTL

\* In every step that makes a snapshot, the data are at rest, and whole.
LEMMA ShotFinds ==
    ASSUME IInv, [Next]_vars
    PROVE  /\ Takes({"import", "spawn"}) => OnData = {} /\ data.clean
           /\ Takes({"engine"}) => OnData = {}
           /\ Takes({"script"}) /\ Mysql /\ ~daemon.blind => OnData = {}
           /\ Takes({"init"}) /\ ~Mysql => OnData = {} /\ data.clean
           /\ Takes({"import"}) => /\ cli.want \subseteq data.loaded /\ data.torn = {}
                                   /\ data.user = cli.pass /\ ~data.uuid
           /\ Takes({"spawn", "engine"}) =>
                 /\ daemon.want \subseteq data.recorded \cap data.applied
                 /\ daemon.want \cap data.torn = {}
                 /\ data.user = known /\ (data.uuid => daemon.blind)
           /\ Takes({"init"}) => data.user # 0
<1>1. BaseAll /\ BaseTyped
  BY DEF IInv, BaseAll
<1>2. daemon.how \in Hows
  BY <1>1 DEF BaseTyped, Building, Builds
<1>3. ASSUME NEW kinds \in SUBSET {"import", "spawn", "engine", "script", "init"}, Takes(kinds)
      PROVE  /\ ~cli.mixed /\ ~daemon.mixed
             /\ \/ "import" \in kinds /\ (At("snapshot") \/ At("copy"))
                \/ daemon.how \in kinds /\ daemon.pc = "snapshot"
                \/ "init" \in kinds /\ At("clonefile") /\ First = {}
  <2>1. ~cli.mixed /\ ~daemon.mixed /\ Made(kinds)
    BY <1>3 DEF Takes
  <2>2. shots' # shots
    BY <2>1 DEF Made
  <2>3. BaseNext
    BY <2>2, HostStepLeaves DEF Next, HandOver, SameBase, vars, baseVars
  <2>4. QED
    BY <1>1, <2>1, <2>3, Takers
<1>4. ASSUME Takes({"import"}) PROVE At("snapshot") \/ At("copy")
  BY <1>2, <1>3, <1>4 DEF Hows
<1>5. ASSUME Takes({"import", "spawn"})
      PROVE  \/ At("snapshot") \/ At("copy")
             \/ daemon.how = "spawn" /\ daemon.pc = "snapshot"
  BY <1>2, <1>3, <1>5 DEF Hows
<1>6. ASSUME Takes({"engine"}) \/ Takes({"spawn", "engine"})
      PROVE  daemon.how # "script" /\ daemon.pc = "snapshot"
  BY <1>2, <1>3, <1>6 DEF Hows
<1>7. ASSUME Takes({"script"}) PROVE daemon.how = "script" /\ daemon.pc = "snapshot"
  BY <1>2, <1>3, <1>7 DEF Hows
<1>8. ASSUME Takes({"init"}) PROVE At("clonefile") /\ First = {}
  BY <1>2, <1>3, <1>8 DEF Hows
<1>9. \A kinds : Takes(kinds) => ~cli.mixed /\ ~daemon.mixed
  BY DEF Takes
<1>10. Takes({"import", "spawn"}) => OnData = {} /\ data.clean
  BY <1>1, <1>5, <1>9, ImportFinds, LoaderFinds
<1>11. Takes({"engine"}) => OnData = {}
  BY <1>1, <1>6, <1>9, LoaderFinds
<1>12. Takes({"script"}) /\ Mysql /\ ~daemon.blind => OnData = {}
  BY <1>1, <1>7, <1>9, ScriptFinds
<1>13. Takes({"init"}) => data.user # 0 /\ (~Mysql => OnData = {} /\ data.clean)
  BY <1>1, <1>8, <1>9, InitFinds
<1>14. Takes({"import"}) => /\ cli.want \subseteq data.loaded /\ data.torn = {}
                            /\ data.user = cli.pass /\ ~data.uuid
  BY <1>1, <1>4, <1>9, ImportFinds
<1>15. Takes({"spawn", "engine"}) =>
          /\ daemon.want \subseteq data.recorded \cap data.applied
          /\ daemon.want \cap data.torn = {}
          /\ data.user = known /\ (data.uuid => daemon.blind)
  BY <1>1, <1>6, <1>9, LoaderFinds
<1>16. QED
  BY <1>10, <1>11, <1>12, <1>13, <1>14, <1>15

\* A snapshot of the base is taken of data no server has open, and that were
\* left in order: by an import, a refresh, or the init of a mac.
THEOREM SnapshotsTakenAtRest == Spec => SnapshotsAtRest
<1>1. IInv /\ [Next]_vars =>
        [/\ Takes({"import", "spawn"}) => OnData = {} /\ data.clean
         /\ Takes({"engine"}) => OnData = {}
         /\ Takes({"script"}) /\ Mysql /\ ~daemon.blind => OnData = {}
         /\ Takes({"init"}) /\ ~Mysql => OnData = {} /\ data.clean]_baseVars
  BY ShotFinds
<1>2. QED
  BY <1>1, Invariant, PTL DEF Spec, SnapshotsAtRest

\* A snapshot of the base holds all that its command was asked to load, with the
\* app user, and what becomes current was made whole.
THEOREM SnapshotsTakenWhole == Spec => SnapshotsWhole
<1>1. IInv' => (current' # 0 => shots'[current'].by \notin {"none", "cut"})
  BY DEF IInv, BaseAll, ShotsInv, GoodShot
<1>2. IInv /\ IInv' /\ [Next]_vars =>
        [/\ Takes({"import"}) => /\ cli.want \subseteq data.loaded /\ data.torn = {}
                                 /\ data.user = cli.pass /\ ~data.uuid
         /\ Takes({"spawn", "engine"}) =>
               /\ daemon.want \subseteq data.recorded \cap data.applied
               /\ daemon.want \cap data.torn = {}
               /\ data.user = known /\ (data.uuid => daemon.blind)
         /\ Takes({"init"}) => data.user # 0
         /\ current' # 0 => shots'[current'].by \notin {"none", "cut"}]_baseVars
  BY <1>1, ShotFinds
<1>3. QED
  BY <1>2, Invariant, PTL DEF Spec, SnapshotsWhole

=============================================================================
