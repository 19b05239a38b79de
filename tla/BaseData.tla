------------------------------ MODULE BaseData ------------------------------
(***************************************************************************)
(* The data of the base: the directory every baseline is a copy of.  The   *)
(* command line builds it (baseline import, baseline import-stream, init   *)
(* on darwin), sashikid renews it (baseline refresh), each with a database *)
(* server of its own on the directory, and no lock between the two.        *)
(*                                                                         *)
(* A command is the sequence of its steps; every step may fail, and the    *)
(* command or sashikid may be stopped in any of them, which leaves the     *)
(* servers they started behind.  One command runs at a time: there is one  *)
(* operator.                                                               *)
(***************************************************************************)
EXTENDS Naturals, Sequences, FiniteSets

CONSTANTS
    Schemas, Datas,   \* the files of the dump: definitions, and rows
    Threads,          \* --threads: how many files are loaded at a time
    Files,            \* the files of source_dir, numbered in the order of names
    Sites,            \* the installations of this instance
    MaxShots,         \* bound: snapshots of the base ever taken
    MaxFaults         \* bound: how often something fails, dies, is stopped or
                      \* edited, or two programs begin to work at the same time

ASSUME BaseAssumption ==
    /\ Schemas \cap Datas = {}
    /\ Threads \in Nat \ {0}
    /\ Files \subseteq Nat /\ (Schemas \cup Datas) \cap Files = {}
    /\ Sites \subseteq [zfs : BOOLEAN, engine : {"mysql", "postgres"}, root : BOOLEAN]
    /\ MaxShots \in Nat /\ MaxFaults \in Nat

VARIABLES
    site,       \* ebs-zfs or directories, the engine, sashikid as root?
    base,       \* is there a dataset (or directory) for the base?
    data,       \* what is in its data directory
    server,     \* the servers started on it
    shots,      \* the snapshots of the base, and what is true of them
    clones,     \* the snapshots some branch was cloned from
    current,    \* state.db: the current baseline
    pass,       \* app_pass of the configuration, 0 before there is one
    known,      \* app_pass as sashikid read it when it started
    cli,        \* the command under way
    daemon,     \* the build of a refresh under way
    faults

baseVars == <<site, base, data, server, shots, clones, current, pass, known,
              cli, daemon, faults>>

Pieces    == Schemas \cup Datas
Passwords == {1, 2}
Mysql     == site.engine = "mysql"

\* applied: files that ran to their end; recorded: rows of _migrations; torn:
\* begun and not ended; uuid: is there an auto.cnf?; clean: was the last server
\* stopped in order?
DataRecords == [made : {"none", "half", "whole"}, loaded : SUBSET Pieces,
                applied : SUBSET Files, recorded : SUBSET Files,
                torn : SUBSET (Pieces \cup Files), user : {0} \cup Passwords,
                uuid : BOOLEAN, clean : BOOLEAN]
Empty == [made |-> "none", loaded |-> {}, applied |-> {}, recorded |-> {},
          torn |-> {}, user |-> 0, uuid |-> FALSE, clean |-> TRUE]

-----------------------------------------------------------------------------
(***************************************************************************)
(* Servers: one per socket.  "removed": its files were removed under it.   *)
(***************************************************************************)

Sockets == {"init", "import", "refresh"}
States  == {"down", "up", "closing", "removed"}
OnData  == {k \in Sockets : server[k] \in {"up", "closing"}}
Up(k)   == server[k] = "up"

\* A second server finds the files locked, or the socket taken.
CanStart(k) == base /\ data.made = "whole" /\ OnData = {} /\ server[k] = "down"

Begun == [data EXCEPT !.clean = FALSE, !.uuid = Mysql]

ServerTo(k, s) == server' = [server EXCEPT ![k] = s]
Starts(k)      == CanStart(k) /\ ServerTo(k, "up") /\ data' = Begun
StaysDown      == UNCHANGED <<server, data>>

\* What is expected, what a bound limits, and what is one or the other.
Works      == UNCHANGED faults
Breaks     == faults < MaxFaults /\ faults' = faults + 1
FailsIf(c) == IF c THEN Works ELSE Breaks

ServerCloses(k) ==
    /\ server[k] = "closing"
    /\ ServerTo(k, "down")
    /\ data' = [data EXCEPT !.clean = TRUE]
    /\ UNCHANGED <<site, base, shots, clones, current, pass, known, cli, daemon, faults>>

\* Out of memory, or killed.
ServerDies(k) ==
    /\ server[k] # "down"
    /\ Breaks
    /\ ServerTo(k, "down")
    /\ UNCHANGED <<site, base, data, shots, clones, current, pass, known, cli, daemon>>

-----------------------------------------------------------------------------
(***************************************************************************)
(* Snapshots of the base                                                   *)
(***************************************************************************)

\* by: what made it; first: under the configured name?
Makers == {"none", "import", "spawn", "engine", "script", "init", "stream", "cut"}
Shots  == [by : Makers, there : BOOLEAN, first : BOOLEAN]
NoShot == [by |-> "none", there |-> FALSE, first |-> FALSE]
Ids    == 1..MaxShots
Fresh  == {s \in Ids : shots[s].by = "none" /\ \A t \in 1..(s - 1) : shots[t].by # "none"}
First  == {s \in Ids : shots[s].there /\ shots[s].first}
Shot(by, first) ==
    \E s \in Fresh : shots' = [shots EXCEPT ![s] = [by |-> by, there |-> TRUE, first |-> first]]

-----------------------------------------------------------------------------
(***************************************************************************)
(* The command line.  A command is its steps, one after the other.         *)
(***************************************************************************)

\* Variant: the pid file is not waited for.
ZfsMysqlImportHasty == <<"fresh", "initialize", "start", "load", "user", "shutdown",
                         "autocnf", "snapshot", "register">>
ZfsMysqlImport == <<"fresh", "initialize", "start", "load", "user", "shutdown", "gone",
                    "autocnf", "snapshot", "register">>
LocalMysqlImport == <<"clear", "initialize", "start", "load", "user", "shutdown", "gone",
                      "autocnf", "copy", "register">>
ZfsPostgresImport == <<"fresh", "initialize", "pgStart", "pgLoad", "role", "pgStop",
                       "snapshot", "register">>
LocalPostgresImport == <<"clear", "initialize", "pgStart", "pgLoad", "role", "pgStop",
                         "copy", "register">>
ImportStream == <<"spare", "replace", "open", "recv", "register">>
DarwinMysqlInit == <<"datadir", "devStart", "devUser", "devStop", "clonefile", "config">>
DarwinPostgresInit == <<"datadir", "devStart", "devRole", "devPgStop", "clonefile",
                        "config">>

Paths == {"none", "import", "stream", "init"}
Path(p) ==
    CASE p = "none"   -> <<"idle">>
      [] p = "stream" -> ImportStream
      [] p = "import" /\ site.zfs /\ Mysql   -> ZfsMysqlImport
      [] p = "import" /\ ~site.zfs /\ Mysql  -> LocalMysqlImport
      [] p = "import" /\ site.zfs /\ ~Mysql  -> ZfsPostgresImport
      [] p = "import" /\ ~site.zfs /\ ~Mysql -> LocalPostgresImport
      [] p = "init" /\ Mysql  -> DarwinMysqlInit
      [] p = "init" /\ ~Mysql -> DarwinPostgresInit

\* want: the files of the dump; claim: the file for which the loop waits for a
\* place; force: --force; shot: the snapshot made or received.
Commands == [path : Paths, at : 1..10, pass : {0} \cup Passwords, want : SUBSET Pieces,
             todo : SUBSET Pieces, claim : SUBSET Pieces, busy : SUBSET Pieces,
             err : BOOLEAN, force : BOOLEAN, shot : 0..MaxShots, mixed : BOOLEAN]
NoCommand == [path |-> "none", at |-> 1, pass |-> 0, want |-> {}, todo |-> {},
              claim |-> {}, busy |-> {}, err |-> FALSE, force |-> FALSE,
              shot |-> 0, mixed |-> FALSE]

CliIdle   == cli.path = "none"
At(step)  == Path(cli.path)[cli.at] = step
Skips(n)  == cli' = [cli EXCEPT !.at = @ + n]
Proceeds  == Skips(1)
Ends      == cli' = NoCommand
\* What no step of a command changes, and what most leave alone.
CliFrame  == UNCHANGED <<site, clones, known, daemon>>
SameShots == UNCHANGED <<shots, current>>
SameHost  == UNCHANGED <<base, pass>>

\* A step that fails, always (c) or by chance, and ends the command.
Quits(c) == Ends /\ FailsIf(c) /\ StaysDown /\ SameShots /\ SameHost
\* The same once the server is up: the deferred stop, whose error is dropped.
\* pg_ctl stop -m immediate leaves the data as a crash does.
Abandons(c) ==
    /\ Ends /\ FailsIf(c)
    /\ SameShots /\ SameHost
    /\ UNCHANGED data
    /\ \/ UNCHANGED server
       \/ Up("import") /\ ServerTo("import", IF Mysql THEN "closing" ELSE "down")

Mixes(p) == [p EXCEPT !.mixed = TRUE]
Begin(path, want, force, p) ==
    /\ CliIdle /\ Fresh # {}
    /\ cli' = [NoCommand EXCEPT !.path = path, !.pass = p, !.want = want, !.todo = want,
                 !.force = force, !.mixed = daemon.pc # "idle"]
    /\ daemon' = IF daemon.pc = "idle" THEN daemon ELSE Mixes(daemon)
    /\ FailsIf(daemon.pc = "idle")
    /\ UNCHANGED <<site, base, data, server, shots, clones, current, pass, known>>

\* cmdBaselineImport, cmdBaselineImportStream: no configuration, no import.
StartImport == pass # 0 /\ \E want \in {{}, Pieces} : Begin("import", want, FALSE, pass)
StartStream == /\ pass # 0 /\ site.zfs
               /\ \E force \in BOOLEAN : Begin("stream", {}, force, pass)
StartDarwinInit == /\ ~site.zfs /\ ~site.root
                   /\ \E p \in Passwords : Begin("init", {}, FALSE, p)

-----------------------------------------------------------------------------
(***************************************************************************)
(* baseline import: the directory and the server                           *)
(***************************************************************************)

\* zfs: only into a base that was never initialized.
CheckFresh ==
    LET ok == First = {} /\ base /\ data.made = "none" IN
    /\ At("fresh") /\ CliFrame
    /\ \/ ok /\ Proceeds /\ Works /\ StaysDown /\ SameShots /\ SameHost
       \/ Quits(~ok)

\* prepareLocalBaseData looks for a pid file in the directory: postgres keeps
\* one there, the mysqld of an import does not.
ClearDir ==
    LET seen == ~Mysql /\ data.made # "none" /\ (OnData # {} \/ ~data.clean) IN
    /\ At("clear") /\ CliFrame
    /\ \/ /\ ~seen
          /\ Proceeds /\ Works /\ SameShots /\ UNCHANGED pass
          /\ base' = TRUE /\ data' = Empty
          /\ server' = [k \in Sockets |-> IF k \in OnData THEN "removed" ELSE server[k]]
       \/ Quits(seen)

Initialize ==
    /\ At("initialize") /\ CliFrame
    /\ SameShots /\ SameHost /\ UNCHANGED server
    /\ \/ Proceeds /\ Works /\ data' = [data EXCEPT !.made = "whole"]
       \/ Ends /\ Breaks /\ data' = [data EXCEPT !.made = "half"]

\* pg_ctl start -w may give up on a server that comes up later.
StartServer ==
    /\ At("start") \/ At("pgStart")
    /\ CliFrame
    /\ \/ Proceeds /\ Works /\ Starts("import") /\ SameShots /\ SameHost
       \/ Quits(~CanStart("import"))
       \/ At("pgStart") /\ Ends /\ Breaks /\ Starts("import") /\ SameShots /\ SameHost

CreateUser ==
    /\ At("user") /\ CliFrame
    /\ \/ /\ Up("import")
          /\ Proceeds /\ Works /\ SameShots /\ SameHost /\ UNCHANGED server
          /\ data' = [data EXCEPT !.user = cli.pass]
       \/ Abandons(~Up("import"))

\* CREATE ROLE: the dump may have brought the role.
CreateRole ==
    /\ At("role") /\ CliFrame
    /\ \/ /\ Up("import") /\ data.user = 0
          /\ Proceeds /\ Works /\ SameShots /\ SameHost /\ UNCHANGED server
          /\ data' = [data EXCEPT !.user = cli.pass]
       \/ Abandons(~Up("import") \/ data.user # 0)

ShutdownServer ==
    /\ At("shutdown") /\ CliFrame
    /\ \/ /\ Up("import")
          /\ Proceeds /\ Works /\ SameShots /\ SameHost /\ UNCHANGED data
          /\ ServerTo("import", "closing")
       \/ Abandons(~Up("import"))

\* waitGone: the pid file of a server that died stays.  stopped is set: no
\* deferred stop.
AwaitGone ==
    LET down == server["import"] = "down" IN
    /\ At("gone") /\ CliFrame
    /\ \/ /\ down /\ data.clean
          /\ Proceeds /\ Works /\ StaysDown /\ SameShots /\ SameHost
       \/ Quits(down /\ ~data.clean)

StopPostgres ==
    /\ At("pgStop") /\ CliFrame
    /\ \/ /\ Up("import")
          /\ Proceeds /\ Works /\ SameShots /\ SameHost
          /\ ServerTo("import", "down") /\ data' = [data EXCEPT !.clean = TRUE]
       \/ Abandons(~Up("import"))

RemoveAutoCnf ==
    /\ At("autocnf") /\ CliFrame
    /\ \/ /\ Proceeds /\ Works /\ SameShots /\ SameHost /\ UNCHANGED server
          /\ data' = [data EXCEPT !.uuid = FALSE]
       \/ Quits(FALSE)

-----------------------------------------------------------------------------
(***************************************************************************)
(* baseline import: the dump                                               *)
(***************************************************************************)

Loading == At("load") /\ CliFrame /\ SameShots /\ SameHost
Idling  == Loading /\ StaysDown /\ Works
SchemaTodo == cli.todo \cap Schemas

\* The definitions, one after the other.
LoadSchema ==
    /\ Loading /\ SchemaTodo # {}
    /\ LET p == CHOOSE q \in SchemaTodo : TRUE IN
       \/ /\ Up("import") /\ Works /\ UNCHANGED server
          /\ cli' = [cli EXCEPT !.todo = @ \ {p}]
          /\ data' = [data EXCEPT !.loaded = @ \cup {p}]
       \/ /\ FailsIf(~Up("import"))
          /\ cli' = [cli EXCEPT !.err = TRUE, !.todo = {}]
          /\ data' = [data EXCEPT !.torn = @ \cup {p}]
          /\ UNCHANGED server

\* The loop reads firstErr, then waits for a place, then starts the loading.
ClaimFile ==
    /\ Idling /\ SchemaTodo = {} /\ cli.claim = {} /\ ~cli.err
    /\ \E p \in cli.todo : cli' = [cli EXCEPT !.claim = {p}, !.todo = @ \ {p}]
LaunchFile ==
    /\ Idling /\ cli.claim # {} /\ Cardinality(cli.busy) < Threads
    /\ cli' = [cli EXCEPT !.busy = @ \cup cli.claim, !.claim = {}]
FileEnds ==
    /\ Loading
    /\ \E p \in cli.busy :
       \/ /\ Up("import") /\ Works /\ UNCHANGED server
          /\ cli' = [cli EXCEPT !.busy = @ \ {p}]
          /\ data' = [data EXCEPT !.loaded = @ \cup {p}]
       \/ /\ FailsIf(~Up("import"))
          /\ cli' = [cli EXCEPT !.busy = @ \ {p}, !.err = TRUE]
          /\ data' = [data EXCEPT !.torn = @ \cup {p}]
          /\ UNCHANGED server

\* wg.Wait, and firstErr is returned.
LoadDone == cli.busy = {} /\ cli.claim = {} /\ (cli.todo = {} \/ cli.err)
\* Variant: the error of a file is not returned.
LoadOverRegardless ==
    /\ At("load") /\ CliFrame /\ LoadDone
    /\ Proceeds /\ Works /\ StaysDown /\ SameShots /\ SameHost
LoadOver ==
    /\ At("load") /\ CliFrame /\ LoadDone
    /\ IF cli.err
       THEN Abandons(TRUE)
       ELSE Proceeds /\ Works /\ StaysDown /\ SameShots /\ SameHost

\* psql stops at the first error, pg_restore reports any in its status.
LoadPostgres ==
    /\ At("pgLoad") /\ CliFrame
    /\ SameShots /\ SameHost
    /\ \/ /\ Up("import") /\ Works
          /\ Proceeds /\ UNCHANGED server
          /\ data' = [data EXCEPT !.loaded = @ \cup cli.want]
       \/ /\ FailsIf(~Up("import"))
          /\ Ends
          /\ data' = [data EXCEPT !.torn = @ \cup cli.want]
          /\ \/ UNCHANGED server
             \/ Up("import") /\ ServerTo("import", "down")

-----------------------------------------------------------------------------
(***************************************************************************)
(* baseline import: the snapshot and its registration                      *)
(***************************************************************************)

\* The configured name, or a new one if that is taken (localBaselineTag).
TakesShot(by) ==
    /\ Shot(by, First = {})
    /\ \E s \in Fresh : cli' = [cli EXCEPT !.at = @ + 1, !.shot = s]
    /\ Works
\* A directory is copied file by file.
CopyCut == Shot("cut", First = {})

ImportSnapshot ==
    /\ At("snapshot") /\ CliFrame
    /\ SameHost /\ StaysDown /\ UNCHANGED current
    /\ \/ base /\ TakesShot("import")
       \/ Ends /\ FailsIf(~base) /\ UNCHANGED shots
ImportCopy ==
    /\ At("copy") /\ CliFrame
    /\ SameHost /\ StaysDown /\ UNCHANGED current
    /\ \/ TakesShot("import")
       \/ Ends /\ Breaks /\ (CopyCut \/ UNCHANGED shots)

\* registerImportedBaseline: a failure is a warning.
Register ==
    /\ At("register") /\ CliFrame
    /\ Ends /\ StaysDown /\ SameHost /\ UNCHANGED shots
    /\ \/ current' = cli.shot /\ Works
       \/ UNCHANGED current /\ Breaks

-----------------------------------------------------------------------------
(***************************************************************************)
(* baseline import-stream                                                  *)
(***************************************************************************)

\* A listing that fails counts as no branches.
CheckSpare ==
    /\ At("spare") /\ CliFrame
    /\ \/ clones = {} /\ Proceeds /\ Works /\ StaysDown /\ SameShots /\ SameHost
       \/ clones # {} /\ Proceeds /\ Breaks /\ StaysDown /\ SameShots /\ SameHost
       \/ clones # {} /\ Quits(TRUE)

\* zfs destroy -r refuses what is mounted busy or was cloned.
ReplaceBase ==
    LET refused == ~cli.force \/ clones # {} \/ OnData # {} IN
    /\ At("replace") /\ CliFrame
    /\ \/ ~base /\ Proceeds /\ Works /\ StaysDown /\ SameShots /\ SameHost
       \/ /\ base /\ ~refused
          /\ Proceeds /\ Works /\ UNCHANGED <<pass, server, current>>
          /\ base' = FALSE /\ data' = Empty
          /\ shots' = [s \in Ids |-> [shots[s] EXCEPT !.there = FALSE]]
       \/ base /\ Quits(refused)

OpenSource ==
    /\ At("open") /\ CliFrame
    /\ \/ Proceeds /\ Works /\ StaysDown /\ SameShots /\ SameHost
       \/ Quits(FALSE)

\* A truncated stream leaves nothing.  The data come with the password of the
\* host they were sent from.
Receive ==
    /\ At("recv") /\ CliFrame
    /\ UNCHANGED <<pass, current, server>>
    /\ \/ /\ ~base /\ base' = TRUE
          /\ \E p \in Passwords, named \in BOOLEAN :
             /\ data' = [Empty EXCEPT !.made = "whole", !.user = p]
             /\ \E s \in Fresh :
                /\ shots' = [shots EXCEPT ![s] = [by |-> "stream", there |-> TRUE,
                                                   first |-> named]]
                /\ \/ cli' = [cli EXCEPT !.at = @ + 1, !.shot = s] /\ Works
                   \/ Ends /\ Breaks
       \/ Ends /\ FailsIf(base) /\ UNCHANGED <<base, data, shots>>

-----------------------------------------------------------------------------
(***************************************************************************)
(* init on darwin                                                          *)
(***************************************************************************)

InitDatadir ==
    /\ At("datadir") /\ CliFrame
    /\ SameShots /\ UNCHANGED <<pass, server>> /\ base' = TRUE
    /\ \/ data.made # "none" /\ Proceeds /\ Works /\ UNCHANGED data
       \/ data.made = "none" /\ Proceeds /\ Works /\ data' = [data EXCEPT !.made = "whole"]
       \/ data.made = "none" /\ Ends /\ Breaks /\ data' = [data EXCEPT !.made = "half"]

\* The user is there if the snapshot is: the next three steps are skipped.
DevStart ==
    /\ At("devStart") /\ CliFrame
    /\ \/ First # {} /\ Skips(3) /\ Works /\ StaysDown /\ SameShots /\ SameHost
       \/ First = {} /\ Proceeds /\ Works /\ Starts("init") /\ SameShots /\ SameHost
       \/ First = {} /\ Quits(~CanStart("init"))

\* CREATE USER IF NOT EXISTS does not change the password of a user.  The
\* server is stopped whatever happens.
DevUser ==
    /\ At("devUser") /\ CliFrame
    /\ SameShots /\ SameHost
    /\ \/ /\ Up("init") /\ Proceeds /\ Works /\ UNCHANGED server
          /\ data' = [data EXCEPT !.user = IF @ = 0 THEN cli.pass ELSE @]
       \/ /\ Ends /\ FailsIf(~Up("init")) /\ UNCHANGED data
          /\ IF Up("init") THEN ServerTo("init", "closing") ELSE UNCHANGED server
DevRole ==
    LET ok == Up("init") /\ data.user = 0 IN
    /\ At("devRole") /\ CliFrame
    /\ SameShots /\ SameHost
    /\ \/ /\ ok /\ Proceeds /\ Works /\ UNCHANGED server
          /\ data' = [data EXCEPT !.user = cli.pass]
       \/ /\ Ends /\ FailsIf(~ok)
          /\ IF Up("init")
             THEN ServerTo("init", "down") /\ data' = [data EXCEPT !.clean = TRUE]
             ELSE StaysDown

\* SIGTERM, and at most ten seconds of waiting, of which nothing is checked.
DevStop ==
    /\ At("devStop") /\ CliFrame
    /\ SameShots /\ SameHost /\ UNCHANGED data
    /\ \/ Up("init") /\ ServerTo("init", "closing") /\ UNCHANGED <<cli, faults>>
       \/ ~Up("init") /\ UNCHANGED server /\ Proceeds
          /\ IF server["init"] = "down" THEN Works ELSE Breaks
DevPgStop ==
    /\ At("devPgStop") /\ CliFrame
    /\ \/ /\ Up("init") /\ Proceeds /\ Works /\ SameShots /\ SameHost
          /\ ServerTo("init", "down") /\ data' = [data EXCEPT !.clean = TRUE]
       \/ Quits(~Up("init"))

\* cp -Rc base/data base/snap/baseline, done if there is such a directory.
CloneFile ==
    /\ At("clonefile") /\ CliFrame
    /\ SameHost /\ UNCHANGED <<server, current>>
    /\ \/ First # {} /\ Proceeds /\ Works /\ UNCHANGED <<data, shots>>
       \/ /\ First = {}
          /\ data' = [data EXCEPT !.uuid = FALSE]
          /\ \/ TakesShot("init")
             \/ Ends /\ Breaks /\ (CopyCut \/ UNCHANGED shots)

WriteConfig ==
    /\ At("config") /\ CliFrame
    /\ Ends /\ StaysDown /\ SameShots /\ UNCHANGED base
    /\ \/ Works /\ pass' = (IF pass = 0 THEN cli.pass ELSE pass)
       \/ Breaks /\ UNCHANGED pass

\* Interrupted: no deferred function runs.
CliStops ==
    /\ ~CliIdle /\ Ends /\ Breaks
    /\ CliFrame /\ SameHost /\ UNCHANGED <<server, current>>
    /\ \/ UNCHANGED <<data, shots>>
       \/ /\ At("initialize") \/ (At("datadir") /\ data.made = "none")
          /\ data' = [data EXCEPT !.made = "half"] /\ UNCHANGED shots
       \/ /\ At("copy") \/ (At("clonefile") /\ First = {})
          /\ CopyCut /\ UNCHANGED data

ImportStep == CheckFresh \/ ClearDir \/ Initialize \/ StartServer \/ CreateUser
              \/ CreateRole \/ ShutdownServer \/ AwaitGone \/ StopPostgres
              \/ RemoveAutoCnf \/ LoadSchema \/ ClaimFile \/ LaunchFile \/ FileEnds
              \/ LoadOver \/ LoadPostgres \/ ImportSnapshot \/ ImportCopy \/ Register
StreamStep == CheckSpare \/ ReplaceBase \/ OpenSource \/ Receive
InitStep   == InitDatadir \/ DevStart \/ DevUser \/ DevRole \/ DevStop \/ DevPgStop
              \/ CloneFile \/ WriteConfig

-----------------------------------------------------------------------------
(***************************************************************************)
(* sashikid: the build of a refresh                                        *)
(***************************************************************************)

\* spawn: the loader with a server of its own; engine: through the unit
\* _refresh; script: refresh_script.  want: the files of the loader, none for
\* --app-user-only; file: the one applied last; blind: BasePath failed, or there
\* is none, and a check was passed over.
Hows   == {"spawn", "engine", "script"}
Pcs    == {"idle", "start", "files", "record", "sync", "stop", "gone", "undo", "reclaim",
           "script", "quiesce", "requiesce", "autocnf", "snapshot", "publish"}
Builds == [pc : Pcs, how : Hows, want : SUBSET Files, file : {0} \cup Files,
           shot : 0..MaxShots, mixed : BOOLEAN, blind : BOOLEAN]
NoBuild == [pc |-> "idle", how |-> "script", want |-> {}, file |-> 0, shot |-> 0,
            mixed |-> FALSE, blind |-> FALSE]

Goto(pc)    == daemon' = [daemon EXCEPT !.pc = pc]
BuildEnds   == daemon' = NoBuild
DaemonFrame == UNCHANGED <<site, base, clones, pass, known, cli>>
In(pc)      == daemon.pc = pc /\ DaemonFrame
Engine      == daemon.how = "engine"

\* Only ebs-zfs knows the path of the base; from another user than root the
\* engine is needed, which has no unit for postgres on the base.
Loader == IF site.root THEN "spawn" ELSE "engine"
CanLoad == site.zfs /\ base /\ (site.root \/ Mysql)
RefreshBegins ==
    /\ daemon.pc = "idle" /\ known # 0 /\ Fresh # {}
    /\ \E how \in {"script"} \cup (IF CanLoad THEN {Loader} ELSE {}) :
       \E want \in (IF how = "script" THEN {{}} ELSE {{}, Files}) :
          daemon' = [NoBuild EXCEPT !.how = how, !.want = want, !.mixed = ~CliIdle,
                       !.pc = IF how = "script" THEN "script" ELSE "start"]
    /\ cli' = IF CliIdle THEN cli ELSE Mixes(cli)
    /\ FailsIf(CliIdle)
    /\ UNCHANGED <<site, base, data, server, shots, clones, current, pass, known>>

\* What a refresh through the engine left is stopped first.
StopLeftover ==
    /\ In("start") /\ Engine /\ Up("refresh")
    /\ ServerTo("refresh", "closing")
    /\ UNCHANGED <<data, daemon, faults>> /\ SameShots
LoaderStarts ==
    /\ In("start") /\ ~(Engine /\ server["refresh"] \in {"up", "closing"})
    /\ SameShots
    /\ \/ Starts("refresh") /\ Goto("files") /\ Works
       \/ StaysDown /\ Goto("reclaim") /\ FailsIf(~CanStart("refresh"))

\* applyMigrations: in the order of names, what _migrations does not list.
Pending == {f \in daemon.want \ data.recorded :
              \A g \in daemon.want \ data.recorded : f <= g}
ApplyFile ==
    /\ In("files") /\ SameShots /\ UNCHANGED server
    /\ \E f \in Pending :
       \/ /\ Up("refresh") /\ Works
          /\ data' = [data EXCEPT !.applied = @ \cup {f}, !.torn = @ \ {f}]
          /\ daemon' = [daemon EXCEPT !.pc = "record", !.file = f]
       \/ /\ FailsIf(~Up("refresh")) /\ Goto("undo")
          /\ data' \in {data, [data EXCEPT !.torn = @ \cup {f}]}
RecordFile ==
    /\ In("record") /\ SameShots /\ UNCHANGED server
    /\ \/ /\ Up("refresh") /\ Works /\ Goto("files")
          /\ data' = [data EXCEPT !.recorded = @ \cup {daemon.file}]
       \/ FailsIf(~Up("refresh")) /\ Goto("undo") /\ UNCHANGED data
FilesDone ==
    /\ In("files") /\ Pending = {}
    /\ Goto("sync") /\ Works /\ StaysDown /\ SameShots
SyncUser ==
    /\ In("sync") /\ SameShots /\ UNCHANGED server
    /\ \/ /\ Up("refresh") /\ Works /\ Goto("stop")
          /\ data' = [data EXCEPT !.user = known]
       \/ FailsIf(~Up("refresh")) /\ Goto("undo") /\ UNCHANGED data

\* shutdown.  The engine's Stop is content with a server that is not there.
LoaderStops ==
    /\ In("stop") /\ SameShots /\ UNCHANGED data
    /\ \/ Up("refresh") /\ ServerTo("refresh", "closing") /\ Goto("gone") /\ Works
       \/ ~Up("refresh") /\ Engine /\ UNCHANGED server /\ Goto("gone") /\ Works
       \/ UNCHANGED server /\ Goto("reclaim") /\ FailsIf(~Up("refresh") /\ ~Engine)
\* WaitGone: the pid file, or the state of the unit.
LoaderGone ==
    LET down == server["refresh"] = "down" IN
    /\ In("gone") /\ StaysDown /\ SameShots
    /\ \/ down /\ (data.clean \/ Engine) /\ Goto("quiesce") /\ Works
       \/ Goto("reclaim") /\ FailsIf(down /\ ~data.clean /\ ~Engine)

\* fail: a shutdown whose error is dropped, and that a timeout has cancelled.
LoaderFails ==
    /\ In("undo") /\ SameShots /\ Works /\ UNCHANGED data
    /\ Goto("reclaim")
    /\ UNCHANGED server \/ (Up("refresh") /\ ServerTo("refresh", "closing"))

\* The script loads what it likes with what server it likes.
ScriptRuns ==
    /\ In("script") /\ SameShots
    /\ \E end \in {"quiesce", "reclaim"} : Goto(end)
    /\ Works
    /\ \/ StaysDown
       \/ /\ CanStart("refresh")
          /\ data' = [Begun EXCEPT !.user = known]
          /\ ServerTo("refresh", "up")
       \/ /\ CanStart("refresh")
          /\ \E c \in BOOLEAN : data' = [Begun EXCEPT !.user = known, !.clean = c]
          /\ UNCHANGED server

\* pgrep for datadir=<base> finds every mysqld on it, and no postgres.
Visible    == IF Mysql THEN OnData ELSE {}
Terminates == server' = [k \in Sockets |-> IF k \in Visible /\ Up(k) THEN "closing" ELSE server[k]]

\* A build that failed ends, whether it could clear the base or not.
Reclaim ==
    /\ In("reclaim") /\ SameShots /\ UNCHANGED data /\ BuildEnds
    /\ \/ site.zfs /\ Works /\ Terminates
       \/ ~site.zfs /\ Works /\ UNCHANGED server
       \/ site.zfs /\ Breaks /\ UNCHANGED server

Passes == daemon' = [daemon EXCEPT !.pc = "autocnf"]
PassesBlind == daemon' = [daemon EXCEPT !.pc = "autocnf", !.blind = TRUE]
\* CheckQuiesced, reclaimBase, and CheckQuiesced again.
Quiesce ==
    /\ In("quiesce") \/ In("requiesce")
    /\ SameShots /\ UNCHANGED data
    /\ \/ ~site.zfs /\ PassesBlind /\ Works /\ UNCHANGED server
       \/ site.zfs /\ PassesBlind /\ Breaks /\ UNCHANGED server
       \/ site.zfs /\ Visible = {} /\ Passes /\ Works /\ UNCHANGED server
       \/ /\ site.zfs /\ Visible # {} /\ Works
          /\ IF daemon.pc = "quiesce"
             THEN Goto("requiesce") /\ Terminates
             ELSE BuildEnds /\ UNCHANGED server
RemoveBaseAutoCnf ==
    /\ In("autocnf") /\ SameShots /\ UNCHANGED server
    /\ \/ site.zfs /\ Works /\ Goto("snapshot") /\ data' = [data EXCEPT !.uuid = FALSE]
       \/ ~site.zfs /\ Works /\ Goto("snapshot") /\ UNCHANGED data
       \/ /\ site.zfs /\ Breaks /\ UNCHANGED data
          /\ daemon' = [daemon EXCEPT !.pc = "snapshot", !.blind = TRUE]
       \/ Breaks /\ BuildEnds /\ UNCHANGED data

SnapshotBase ==
    /\ In("snapshot") /\ StaysDown /\ UNCHANGED current
    /\ \/ /\ base /\ Works
          /\ Shot(daemon.how, FALSE)
          /\ \E s \in Fresh : daemon' = [daemon EXCEPT !.pc = "publish", !.shot = s]
       \/ /\ FailsIf(~base) /\ BuildEnds
          /\ UNCHANGED shots \/ (~site.zfs /\ CopyCut)
\* Registration, and what BaselineLifecycle says of validation and policy.
Publish ==
    /\ In("publish") /\ StaysDown /\ UNCHANGED shots /\ BuildEnds
    /\ \/ current' = daemon.shot /\ Works
       \/ UNCHANGED current /\ Breaks

\* sashikid starts, or stops in the middle and starts again: the servers stay.
DaemonRestarts ==
    /\ pass # 0 /\ (daemon.pc # "idle" \/ known # pass)
    /\ known' = pass /\ BuildEnds
    /\ IF daemon.pc = "idle" THEN Works ELSE Breaks
    /\ UNCHANGED <<site, base, clones, pass, cli, data, server, current>>
    /\ UNCHANGED shots \/ (~site.zfs /\ daemon.pc = "snapshot" /\ CopyCut)

RefreshStep == RefreshBegins \/ StopLeftover \/ LoaderStarts \/ ApplyFile \/ RecordFile
               \/ FilesDone \/ SyncUser \/ LoaderStops \/ LoaderGone \/ LoaderFails
               \/ ScriptRuns \/ Reclaim \/ Quiesce \/ RemoveBaseAutoCnf \/ SnapshotBase
               \/ Publish \/ DaemonRestarts

-----------------------------------------------------------------------------
(***************************************************************************)
(* The rest of the installation                                            *)
(***************************************************************************)

\* A branch is created from the current baseline, or the configured one.
CloneBranch ==
    /\ clones = {}
    /\ \E s \in Ids : /\ shots[s].there
                      /\ s = current \/ (current = 0 /\ s \in First)
                      /\ clones' = {s}
    /\ UNCHANGED <<site, base, data, server, shots, current, pass, known, cli, daemon, faults>>
DropBranches ==
    /\ clones # {} /\ clones' = {}
    /\ UNCHANGED <<site, base, data, server, shots, current, pass, known, cli, daemon, faults>>
\* The operator edits app_pass.
ChangePassword ==
    /\ pass # 0 /\ \E p \in Passwords \ {pass} : pass' = p
    /\ Breaks
    /\ UNCHANGED <<site, base, data, server, shots, clones, current, known, cli, daemon>>

BaseInit ==
    /\ site \in Sites
    /\ base = site.zfs
    /\ data = Empty
    /\ server = [k \in Sockets |-> "down"]
    /\ shots = [s \in Ids |-> NoShot]
    /\ clones = {} /\ current = 0
    /\ pass = (IF site.zfs \/ site.root THEN 1 ELSE 0)
    /\ known = pass
    /\ cli = NoCommand /\ daemon = NoBuild
    /\ faults = 0

BaseNext ==
    \/ StartImport \/ StartStream \/ StartDarwinInit
    \/ ImportStep \/ StreamStep \/ InitStep \/ CliStops
    \/ RefreshStep
    \/ CloneBranch \/ DropBranches \/ ChangePassword
    \/ \E k \in Sockets : ServerCloses(k) \/ ServerDies(k)

BaseSpec == BaseInit /\ [][BaseNext]_baseVars

-----------------------------------------------------------------------------
(***************************************************************************)
(* Properties                                                              *)
(***************************************************************************)

Taken == {s \in Ids : shots[s].by # "none"}

\* Types.
BaseTypeOK ==
    /\ site \in Sites /\ base \in BOOLEAN /\ data \in DataRecords
    /\ server \in [Sockets -> States] /\ shots \in [Ids -> Shots]
    /\ clones \subseteq Ids /\ current \in 0..MaxShots
    /\ pass \in {0} \cup Passwords /\ known \in {0} \cup Passwords
    /\ cli \in Commands /\ Cardinality(cli.busy) <= Threads
    /\ daemon \in Builds /\ faults \in 0..MaxFaults

\* In this step a snapshot of one of these kinds is made, and no command and no
\* refresh came in the way of the other.
Made(kinds)  == \E s \in Ids : shots[s].by = "none" /\ shots'[s].by \in kinds
Takes(kinds) == Made(kinds) /\ ~cli.mixed /\ ~daemon.mixed

\* A snapshot is taken of data at rest: what an import, or a refresh with its
\* own server, takes follows a shutdown that was seen to end in order; a refresh
\* through the engine takes data no server has open, and so does one after a
\* script, where the check could look.  (Not when a command and a refresh work
\* on the base at the same time, which nothing prevents.)
SnapshotsAtRest ==
    [][/\ Takes({"import", "spawn"}) => OnData = {} /\ data.clean
       /\ Takes({"engine"}) => OnData = {}
       /\ Takes({"script"}) /\ Mysql /\ ~daemon.blind => OnData = {}
       /\ Takes({"init"}) /\ ~Mysql => OnData = {} /\ data.clean]_baseVars

\* A snapshot has all that its command was asked to load: every file of the
\* dump, or every file of source_dir, applied to its end and recorded; the app
\* user, with the password of the configuration; and no server_uuid that its
\* branches would share.  What became current was made whole.
SnapshotsWhole ==
    [][/\ Takes({"import"}) => /\ cli.want \subseteq data.loaded /\ data.torn = {}
                               /\ data.user = cli.pass /\ ~data.uuid
       /\ Takes({"spawn", "engine"}) =>
             /\ daemon.want \subseteq data.recorded \cap data.applied
             /\ daemon.want \cap data.torn = {}
             /\ data.user = known /\ (data.uuid => daemon.blind)
       /\ Takes({"init"}) => data.user # 0
       /\ current' # 0 => shots'[current'].by \notin {"none", "cut"}]_baseVars
=============================================================================
