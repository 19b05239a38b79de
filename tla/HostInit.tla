------------------------------ MODULE HostInit ------------------------------
(***************************************************************************)
(* sashiki init on Linux: it prepares the host that sashikid will run on,  *)
(* and is run again when sashiki is upgraded, under a sashikid that works. *)
(* Each step is skipped if it finds its work done, may fail, and may be    *)
(* stopped in the middle; init is then run again.                          *)
(*                                                                         *)
(* When the host is ready the base is filled: from there on the host does  *)
(* not change any more, and BaseData takes over.                           *)
(***************************************************************************)
EXTENDS BaseData

CONSTANTS
    Pools,        \* names of zpools
    DefaultPool,  \* --pool, if it is not given
    MaxInits      \* bound: how often init is started

NoPool == "none"

ASSUME HostAssumption ==
    DefaultPool \in Pools /\ NoPool \notin Pools /\ MaxInits \in Nat

VARIABLES
    host,    \* the files and datasets init makes
    setup    \* the init under way

hostVars == <<host, setup>>
vars     == <<baseVars, hostVars>>

PoolOrNone == Pools \cup {NoPool}

\* zpool: is it imported, or only on the device?; base, branches: datasets;
\* profile: the pool in the AppArmor profile; inherited: a release before 0.13.2
\* wrote it; loaded: what the kernel enforces, the stock profile if it has both;
\* disabled: the link that keeps the stock profile off; warned: that link could
\* not be made; helper: the pool in root-helper.yaml; sudoers: legacy or helper,
\* and for which pool; config: its pool, root_helper in it?, readable for
\* sashikid?; settled: did init end well for the pool of the configuration, and
\* was the configuration not edited since?
Hosts == [zpool : [Pools -> {"none", "exported", "imported"}],
          base : SUBSET Pools, branches : SUBSET Pools, stopped : BOOLEAN,
          profile : PoolOrNone, inherited : BOOLEAN,
          loaded : {"none", "stock", "sashiki"}, disabled : BOOLEAN,
          warned : BOOLEAN, helper : PoolOrNone,
          sudoers : [kind : {"none", "legacy", "helper"}, pool : PoolOrNone],
          unit : BOOLEAN, appPass : {"none", "root", "sashiki"},
          config : [pool : PoolOrNone, helper : BOOLEAN, readable : BOOLEAN],
          settled : BOOLEAN]
NoConfig == [pool |-> NoPool, helper |-> FALSE, readable |-> FALSE]
Bare(zpool) ==
    [zpool |-> zpool, base |-> {}, branches |-> {}, stopped |-> FALSE,
     profile |-> NoPool, inherited |-> FALSE, loaded |-> "stock", disabled |-> FALSE,
     warned |-> FALSE, helper |-> NoPool, sudoers |-> [kind |-> "none", pool |-> NoPool],
     unit |-> FALSE, appPass |-> "none", config |-> NoConfig, settled |-> FALSE]
Disks(p) == [q \in Pools |-> IF q = p THEN "imported" ELSE "none"]
\* A host set up by an earlier release, 0.3.0 to 0.13.1: its AppArmor profile is
\* in place and nothing keeps the stock one off.  From 0.12.0 on it has the helper.
Earlier(p, withHelper) ==
    [Bare(Disks(p)) EXCEPT
        !.base = {p}, !.branches = {p}, !.stopped = TRUE, !.unit = TRUE, !.settled = TRUE,
        !.profile = IF Mysql THEN p ELSE NoPool, !.inherited = Mysql,
        !.loaded = IF Mysql THEN "sashiki" ELSE @,
        !.helper = IF withHelper THEN p ELSE NoPool,
        !.sudoers = IF withHelper THEN [kind |-> "helper", pool |-> NoPool]
                                  ELSE [kind |-> "legacy", pool |-> p],
        !.config = [pool |-> p, helper |-> withHelper, readable |-> TRUE]]

\* The host is ready and no longer init's, or there is no init on it (a container,
\* darwin).  No host of init has a unit and no pool.
Ready == [Bare([q \in Pools |-> "none"]) EXCEPT !.unit = TRUE]
Handed == host = Ready

HasConfig == host.config.pool # NoPool

Setups  == [at : 0..14, pool : PoolOrNone, device : BOOLEAN, runs : 0..MaxInits]
NoSetup == [at |-> 0, pool |-> NoPool, device |-> FALSE, runs |-> 0]

-----------------------------------------------------------------------------
(***************************************************************************)
(* What sashikid asks of root, and who lets it                             *)
(***************************************************************************)

Forms == {"clone", "snapshot", "rollback", "destroy -r", "destroy base@", "destroy branch@",
          "rename", "set refquota", "get", "list", "zpool list", "zpool status",
          "unit", "rm-base-auto-cnf"}
\* validateZFS, validateZpool, validateSystemctl: for the pool of its own file.
HelperAllows(f, p) == f \in Forms /\ host.helper = p
\* The sudoers of before have no pattern for these, for zfs set on purpose: on a
\* host without root_helper they are refused, and always were.
LegacyRefuses == {"destroy branch@", "set refquota", "zpool status", "rm-base-auto-cnf"}
LegacyAllows(f, p) == host.sudoers.pool = p /\ f \notin LegacyRefuses
\* privCmd: through the helper if the configuration names it.
Permits(f) ==
    IF host.config.helper
    THEN host.sudoers.kind = "helper" /\ HelperAllows(f, host.config.pool)
    ELSE host.sudoers.kind = "legacy" /\ LegacyAllows(f, host.config.pool)

-----------------------------------------------------------------------------
(***************************************************************************)
(* init                                                                    *)
(***************************************************************************)

MysqlInit == <<"service", "zpool", "base", "branches", "apparmor", "helper", "sudoers",
               "dirs", "unit", "appPass", "config", "perm">>
PostgresInit == <<"service", "zpool", "base", "branches", "helper", "sudoers",
                  "dirs", "unit", "appPass", "config", "perm">>
InitSteps == IF Mysql THEN MysqlInit ELSE PostgresInit

SameBase == UNCHANGED <<site, base, data, server, shots, clones, current, pass, known,
                        cli, daemon>>
InitIdle == setup.at = 0
AtStep(step) == ~Handed /\ ~InitIdle /\ InitSteps[setup.at] = step

\* Without --pool the pool is that of the configuration; a --pool that is not
\* only gets a warning.
StartInit ==
    /\ ~Handed /\ InitIdle /\ setup.runs < MaxInits
    /\ \E p \in {IF HasConfig THEN host.config.pool ELSE DefaultPool} \cup Pools,
          device \in BOOLEAN :
       /\ setup' = [at |-> 1, pool |-> p, device |-> device, runs |-> setup.runs + 1]
       /\ host' = [host EXCEPT !.settled = @ /\ p = host.config.pool]
    /\ UNCHANGED faults /\ SameBase

\* The last step done ends the init.
Next1(h) ==
    IF setup.at = Len(InitSteps)
    THEN /\ setup' = [NoSetup EXCEPT !.runs = setup.runs]
         /\ host' = [h EXCEPT !.settled = setup.pool = h.config.pool]
    ELSE setup' = [setup EXCEPT !.at = @ + 1] /\ host' = h
\* A step that does all of h, or fails or is stopped with one of cut done.
Runs(h, cut) ==
    /\ SameBase
    /\ \/ Next1(h) /\ Works
       \/ /\ Breaks /\ setup' = [NoSetup EXCEPT !.runs = setup.runs]
          /\ host' \in {host} \cup cut
Done(step, done) == AtStep(step) /\ done /\ Next1(host) /\ Works /\ SameBase
Todo(step, done) == AtStep(step) /\ ~done

\* The service of the distribution: stopped, disabled.
ServiceStep == Done("service", host.stopped)
               \/ (Todo("service", host.stopped) /\ Runs([host EXCEPT !.stopped = TRUE], {}))

\* importExistingPool first, zpool create only if there is none.
ZpoolStep ==
    LET there == host.zpool[setup.pool] = "imported"
        made  == [host EXCEPT !.zpool[setup.pool] = "imported"]
    IN \/ Done("zpool", there)
       \/ Todo("zpool", there) /\ setup.device /\ Runs(made, {made})
       \/ /\ Todo("zpool", there) /\ ~setup.device
          /\ setup' = [NoSetup EXCEPT !.runs = setup.runs]
          /\ UNCHANGED <<host, faults>> /\ SameBase

DatasetStep ==
    \/ Done("base", setup.pool \in host.base)
    \/ /\ Todo("base", setup.pool \in host.base)
       /\ Runs([host EXCEPT !.base = @ \cup {setup.pool}], {})
    \/ Done("branches", setup.pool \in host.branches)
    \/ /\ Todo("branches", setup.pool \in host.branches)
       /\ Runs([host EXCEPT !.branches = @ \cup {setup.pool}], {})

\* What is left in the kernel when the stock profile is removed from it.
Unstocked == IF host.loaded # "stock" THEN host.loaded
             ELSE IF host.profile # NoPool THEN "sashiki" ELSE "none"
\* Done is judged by the text of the profile alone, so the link has to come
\* first, and a profile that an earlier release wrote with the text of today (or
\* with another one) passes without it.  Neither a link nor a profile that cannot
\* be loaded stops init.
ApparmorStep ==
    LET same     == host.profile = setup.pool
        unloaded == [host EXCEPT !.loaded = Unstocked]
        linked   == [unloaded EXCEPT !.disabled = TRUE]
        written(h) == [h EXCEPT !.profile = setup.pool, !.inherited = FALSE]
        loaded(h)  == [written(h) EXCEPT !.loaded = "sashiki"]
        warned   == [unloaded EXCEPT !.warned = TRUE]
    IN \/ Done("apparmor", same)
       \/ /\ Todo("apparmor", same /\ ~host.inherited)
          /\ \/ Runs(loaded(linked), {unloaded, linked, written(linked)})
             \/ /\ Breaks /\ SameBase
                /\ Next1(loaded(warned)) \/ Next1(written(linked))

HelperStep == Done("helper", host.helper = setup.pool)
              \/ (Todo("helper", host.helper = setup.pool)
                  /\ Runs([host EXCEPT !.helper = setup.pool], {}))

\* Variant: the helper whatever the configuration says.
useRootHelperAlways == TRUE
\* A configuration without root_helper keeps the sudoers it needs.
useRootHelper == ~HasConfig \/ host.config.helper
SudoersFor == IF useRootHelper THEN [kind |-> "helper", pool |-> NoPool]
              ELSE [kind |-> "legacy", pool |-> setup.pool]
\* Written aside, checked by visudo, and moved into place.
SudoersStep == Done("sudoers", host.sudoers = SudoersFor)
               \/ (Todo("sudoers", host.sudoers = SudoersFor)
                   /\ Runs([host EXCEPT !.sudoers = SudoersFor], {}))

DirsStep == AtStep("dirs") /\ Runs(host, {})
UnitStep == Done("unit", host.unit)
            \/ (Todo("unit", host.unit)
                /\ Runs([host EXCEPT !.unit = TRUE], {[host EXCEPT !.unit = TRUE]}))

\* Written for root, then given to sashikid.  A file that is there is left.
AppPassStep ==
    LET written == [host EXCEPT !.appPass = "root"] IN
    \/ Done("appPass", host.appPass # "none")
    \/ /\ Todo("appPass", host.appPass # "none")
       /\ Runs([host EXCEPT !.appPass = "sashiki"], {written})
ConfigStep ==
    LET written == [host EXCEPT !.config = [pool |-> setup.pool, helper |-> TRUE,
                                            readable |-> FALSE]]
    IN \/ Done("config", HasConfig)
       \/ /\ Todo("config", HasConfig)
          /\ Runs([written EXCEPT !.config.readable = TRUE], {written})
PermStep == Done("perm", host.config.readable)
            \/ (Todo("perm", host.config.readable)
                /\ Runs([host EXCEPT !.config.readable = TRUE], {}))

InitHost == ServiceStep \/ ZpoolStep \/ DatasetStep \/ ApparmorStep \/ HelperStep
            \/ SudoersStep \/ DirsStep \/ UnitStep \/ AppPassStep \/ ConfigStep \/ PermStep

\* docs/UPGRADING: root_helper goes into the configuration, then init is run.
AddRootHelper ==
    /\ ~Handed /\ InitIdle /\ HasConfig /\ ~host.config.helper
    /\ host' = [host EXCEPT !.config.helper = TRUE, !.settled = FALSE]
    /\ UNCHANGED <<setup, faults>> /\ SameBase
\* docs/UPGRADING: the link that init does not make on a host of before 0.13.2.
DisableStock ==
    /\ ~Handed /\ InitIdle /\ Mysql /\ host.profile # NoPool /\ ~host.disabled
    /\ host' = [host EXCEPT !.disabled = TRUE, !.loaded = Unstocked]
    /\ UNCHANGED <<setup, faults>> /\ SameBase
Reboot ==
    /\ ~Handed /\ InitIdle /\ Mysql
    /\ host' = [host EXCEPT !.loaded = IF ~host.disabled THEN "stock"
                                       ELSE IF host.profile # NoPool THEN "sashiki" ELSE "none"]
    /\ host' # host
    /\ UNCHANGED <<setup, faults>> /\ SameBase

-----------------------------------------------------------------------------
(***************************************************************************)
(* The installation                                                        *)
(***************************************************************************)

\* The first baseline import, or the start of sashikid, on a host made ready.
HandOver ==
    /\ ~Handed /\ InitIdle /\ host.settled /\ setup.runs > 0
    /\ host' = Ready /\ setup' = NoSetup
    /\ base' = (host.config.pool \in host.base) /\ pass' = 1 /\ known' = 1
    /\ UNCHANGED <<site, data, server, shots, clones, current, cli, daemon, faults>>

\* init on Linux is for sashikid under systemd, as the user sashiki.
Init ==
    /\ BaseInit
    /\ setup = NoSetup
    /\ IF site.zfs /\ ~site.root
       THEN \/ \E z \in [Pools -> {"none", "exported"}] : host = Bare(z)
            \/ \E p \in Pools, withHelper \in BOOLEAN : host = Earlier(p, withHelper)
       ELSE host = Ready
Next ==
    \/ StartInit \/ InitHost \/ AddRootHelper \/ DisableStock \/ Reboot \/ HandOver
    \/ Handed /\ BaseNext /\ UNCHANGED hostVars
Spec == Init /\ [][Next]_vars

-----------------------------------------------------------------------------

HostTypeOK == host \in Hosts /\ setup \in Setups

\* Init never takes from sashikid what it has: once an init has ended for the
\* pool of the configuration, and until the configuration is edited or an init
\* is started for another pool, every command the backends give is let through by
\* the sudoers and the helper of the host, in the middle of a later init, and
\* after one that failed or was stopped; all but those that a host without
\* root_helper never could give.  And a profile that this init has written does
\* not come without the link: the stock profile, which shuts mysqld out of its
\* data, is neither in the kernel nor comes back with a reboot, unless init said
\* that it would.
InitPermitsDaemon ==
    /\ host.settled =>
          \A f \in Forms : Permits(f) \/ (f \in LegacyRefuses /\ ~host.config.helper)
    /\ host.profile # NoPool /\ ~host.inherited /\ ~host.warned =>
          host.disabled /\ host.loaded # "stock"
=============================================================================
