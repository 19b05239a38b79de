--------------------------- MODULE ProxySessions ---------------------------
(***************************************************************************)
(* Connections through the two proxies (proxy.Server, pgproxy.Server) and  *)
(* what they ask of workspace.Manager: RouteBranch with lazy create, wake  *)
(* and wait, and TouchConn.  A client is verified first; only then is its  *)
(* branch looked up, a slot of the branch taken and the engine dialled at  *)
(* the port that the look-up returned.                                     *)
(*                                                                         *)
(* Requests of other users of the API (sleep, delete, create, lease) and   *)
(* connections that go past the proxy are the environment here; their      *)
(* inner steps are those of BranchLifecycle.  The packets are left out:    *)
(* what counts is which exchange is over, and how it ended.                *)
(***************************************************************************)
EXTENDS Naturals, FiniteSets, AuthLimiter

CONSTANTS
    Branches, NoBranch,
    Ports,       \* the range PortLow..PortHigh
    NoPort,
    Clients,
    Configs,     \* the settings and environments of this instance
    MaxConn,     \* cfg.MaxConnPerBranch
    AgeCap,      \* no period of a configuration is longer
    LeaseTime    \* the period of a lease

\* A configuration: the engine and with it the proxy; which sources, passwords,
\* requests and branches occur; whether unknown branches are created; whether
\* the passes of reaper and poller run, and their periods, in units of time (0:
\* never); last_conn_at is written every touchEvery.  maxFaults bounds how
\* often an engine fails to start, to stop or to answer, or dies.
ConfigFields ==
    [engine : {"mysql", "postgres"}, sources : SUBSET Keys,
     passwords : SUBSET {"right", "wrong", "broken"},
     requests : SUBSET {"sleep", "delete", "create", "lease", "direct"},
     branches : SUBSET Branches, clients : SUBSET Clients,
     running : SUBSET Branches, backing : SUBSET Branches,
     lazy : BOOLEAN, passes : BOOLEAN,
     idleStop : Nat, deleteIdle : Nat, errorRetention : Nat, touchEvery : Nat,
     maxFaults : Nat]

Free == "free"

ASSUME SessionsAssumption ==
    /\ Configs \subseteq ConfigFields
    /\ Ports \subseteq Nat /\ IsFiniteSet(Ports) /\ NoPort \notin Ports
    /\ NoBranch \notin Branches /\ IsFiniteSet(Clients) /\ Free \notin Clients
    /\ {MaxConn, AgeCap, LeaseTime} \subseteq Nat
    /\ \A c \in Configs :
          {c.idleStop, c.deleteIdle, c.errorRetention, c.touchEvery} \subseteq 0..AgeCap

VARIABLES
    conf,       \* the configuration of this behaviour
    row,        \* state.db: state, port, idle time, time left of the lease
    up,         \* is the branch's engine running?
    lock,       \* who holds the branch lock
    sess,       \* the sessions
    conns,      \* Server.conns
    cancels,    \* the sessions a CancelRequest finds a key of (pgproxy.Server.cancels)
    lastTouch,  \* age of Manager.lastTouch
    direct,     \* a connection that does not go through the proxy
    freeFails,  \* failures of a source that were verified without a delay
    faults

sessionVars == <<sess, conns, cancels, inflight, fails, freeFails>>
branchVars  == <<row, up, lock, lastTouch, direct>>
proxyVars   == <<conf, sessionVars, branchVars, faults>>

-----------------------------------------------------------------------------
NoLease   == LeaseTime + 1
RowStates == {"absent", "creating", "running", "sleeping", "error", "wakeFailed"}
Rows      == [state : RowStates, port : Ports \cup {NoPort},
              age : 0..AgeCap, lease : 0..NoLease]
NoRow     == [state |-> "absent", port |-> NoPort, age |-> 0, lease |-> NoLease]

Pcs == {"closed", "slot", "wait", "verified", "refused", "route", "again",
        "wake", "waking", "create", "creating", "poll", "acquire", "dial",
        "touch", "answer", "pipe"}
\* free: the penalty was 0; gone: the branch was deleted after the look-up;
\* old: connected when the reaper listed the branches.
Sessions == [pc : Pcs, branch : Branches \cup {NoBranch}, key : Keys,
             password : {"right", "wrong", "broken"}, wait : 0..MaxDelay,
             free : BOOLEAN, port : Ports \cup {NoPort}, gone : BOOLEAN,
             peer : Branches \cup {NoBranch}, old : BOOLEAN]
Closed   == [pc |-> "closed", branch |-> NoBranch, key |-> NoSource,
             password |-> "right", wait |-> 0, free |-> FALSE, port |-> NoPort,
             gone |-> FALSE, peer |-> NoBranch, old |-> FALSE]

InVerification(c) == sess[c].pc \in {"slot", "wait", "verified", "refused"}
HoldsSlot(c, b)   == sess[c].branch = b /\ sess[c].pc \in {"dial", "touch", "answer", "pipe"}
Connected(c, b)   == sess[c].peer = b

At(c, pc)    == sess[c].pc = pc
Goto(c, pc)  == sess' = [sess EXCEPT ![c].pc = pc]
Leave(c)     == sess' = [sess EXCEPT ![c] = Closed]
Breaks       == faults < conf.maxFaults /\ faults' = faults + 1
Listening(p) == {x \in Branches : row[x].port = p /\ up[x]}

\* The engine of x ends: what was connected to it has lost its peer.
Cut(x)       == [c \in Clients |->
                   IF sess[c].peer = x
                     THEN [sess[c] EXCEPT !.peer = NoBranch, !.old = FALSE]
                     ELSE sess[c]]
EngineEnds(x) == /\ up' = [up EXCEPT ![x] = FALSE]
                 /\ direct' = [direct EXCEPT ![x] = "none"]

-----------------------------------------------------------------------------
(***************************************************************************)
(* Verification                                                            *)
(***************************************************************************)

\* The client has said who it is, and on which branch; a name that is not
\* <user>@<branch>, or not that of AllowedUser, ends before this.
Admitted(c) ==
    /\ At(c, "closed")
    /\ \E b \in conf.branches, k \in conf.sources, p \in conf.passwords :
          /\ Acquire(k)
          /\ sess' = [sess EXCEPT ![c] = [Closed EXCEPT
                 !.pc = "slot", !.branch = b, !.key = k, !.password = p]]
    /\ UNCHANGED <<conf, conns, cancels, fails, freeFails, branchVars, faults>>

\* MySQL: handshake, TLS if asked for, and the response with the token.
ConnectMySQL(c) == conf.engine = "mysql" /\ Admitted(c)

\* PostgreSQL: startup packets until one that is neither SSL nor GSS; a
\* cancel or replication request goes no further.
ConnectPostgres(c) == conf.engine = "postgres" /\ Admitted(c)

\* Variant: the delay comes after the verification, not before it.
NoPenaltyFirst(c) ==
    /\ At(c, "slot")
    /\ sess' = [sess EXCEPT ![c].pc = "wait", ![c].free = TRUE]
    /\ UNCHANGED <<conf, conns, cancels, inflight, fails, freeFails, branchVars, faults>>

ReadPenalty(c) ==
    /\ At(c, "slot")
    /\ sess' = [sess EXCEPT ![c].pc = "wait",
                            ![c].wait = Penalty(sess[c].key),
                            ![c].free = Penalty(sess[c].key) = 0]
    /\ UNCHANGED <<conf, conns, cancels, inflight, fails, freeFails, branchVars, faults>>

FreeCap == Threshold + MaxInFly + 1
\* Failures without a delay since the counting began anew.
CountFree(k, free) ==
    freeFails' = IF k = NoSource THEN freeFails
        ELSE [freeFails EXCEPT ![k] =
            IF Forgotten(fails[k]) THEN IF free THEN 1 ELSE 0
            ELSE IF free /\ @ < FreeCap THEN @ + 1 ELSE @]

Verified(c) ==
    LET k == sess[c].key IN
    /\ Reset(k)
    /\ freeFails' = IF k = NoSource THEN freeFails ELSE [freeFails EXCEPT ![k] = 0]
    /\ Goto(c, "verified")
Mismatch(c) ==
    /\ Fail(sess[c].key)
    /\ CountFree(sess[c].key, sess[c].free)
    /\ Goto(c, "refused")

\* Variant: an unverified client goes on, the error comes with its first query.
VerifyMySQLLate(c) ==
    /\ conf.engine = "mysql"
    /\ At(c, "wait") /\ sess[c].wait = 0
    /\ Goto(c, "verified")
    /\ UNCHANGED <<conf, conns, cancels, inflight, fails, freeFails, branchVars, faults>>

\* MySQL: the token is there, and right or wrong.
VerifyMySQL(c) ==
    /\ conf.engine = "mysql"
    /\ At(c, "wait") /\ sess[c].wait = 0
    /\ IF sess[c].password = "right" THEN Verified(c) ELSE Mismatch(c)
    /\ UNCHANGED <<conf, conns, cancels, inflight, branchVars, faults>>

\* PostgreSQL: the SCRAM exchange takes place now; one that breaks off, or
\* outlasts the deadline of the connection, is no wrong password.
VerifyPostgres(c) ==
    /\ conf.engine = "postgres"
    /\ At(c, "wait") /\ sess[c].wait = 0
    /\ \/ sess[c].password = "right" /\ Verified(c)
       \/ sess[c].password = "wrong" /\ Mismatch(c)
       \/ /\ sess[c].password = "broken"
          /\ Goto(c, "refused")
          /\ UNCHANGED <<fails, freeFails>>
    /\ UNCHANGED <<conf, conns, cancels, inflight, branchVars, faults>>

ReturnSlot(c) ==
    /\ sess[c].pc \in {"verified", "refused"}
    /\ SlotReturned(sess[c].key)
    /\ IF At(c, "verified") THEN Goto(c, "route") ELSE Leave(c)
    /\ UNCHANGED <<conf, conns, cancels, fails, freeFails, branchVars, faults>>

-----------------------------------------------------------------------------
(***************************************************************************)
(* RouteBranch                                                             *)
(***************************************************************************)

\* RouteBranch and routeExisting read the row without the branch lock.
Route(c) ==
    LET r == row[sess[c].branch]
        found(pc) == sess' = [sess EXCEPT ![c].pc = pc, ![c].port = r.port,
                                          ![c].gone = FALSE]
    IN
    /\ sess[c].pc \in {"route", "again"}
    /\ \/ r.state = "running"  /\ found("acquire")
       \/ r.state = "sleeping" /\ found("wake")
       \/ r.state = "creating" /\ found("poll")
       \/ r.state = "absent" /\ At(c, "route") /\ conf.lazy /\ Goto(c, "create")
       \/ /\ \/ r.state \in {"error", "wakeFailed"}
             \/ r.state = "absent" /\ (At(c, "again") \/ ~conf.lazy)
          /\ Leave(c)
    /\ UNCHANGED <<conf, conns, cancels, inflight, fails, freeFails, branchVars, faults>>

UsedPorts == {row[x].port : x \in Branches}
\* Variant: the port of a sleeping branch is free.
AllocPortOfSleepers(p) ==
    p \in Ports \ {row[x].port : x \in {y \in Branches : row[y].state # "sleeping"}}

\* The lowest port that no row has.
AllocPort(p) == p \in Ports \ UsedPorts /\ \A q \in Ports \ UsedPorts : p <= q

NewRow(state, p) == [state |-> state, port |-> p, age |-> 0, lease |-> NoLease]

\* Create for an unknown branch: lock, row, port; ErrExists is looked up again.
\* Without a free port, or refused by a limit or for want of memory or storage,
\* it leaves no row.
LazyCreate(c) ==
    LET b == sess[c].branch IN
    /\ At(c, "create")
    /\ lock[b] = Free
    /\ \/ /\ row[b].state # "absent"
          /\ Goto(c, "again")
          /\ UNCHANGED <<row, lock>>
       \/ /\ row[b].state = "absent"
          /\ \E p \in Ports :
                /\ AllocPort(p)
                /\ row' = [row EXCEPT ![b] = NewRow("creating", p)]
                /\ sess' = [sess EXCEPT ![c].pc = "creating", ![c].port = p,
                                        ![c].gone = FALSE]
          /\ lock' = [lock EXCEPT ![b] = c]
       \/ /\ row[b].state = "absent"
          /\ Leave(c)
          /\ UNCHANGED <<row, lock>>
    /\ UNCHANGED <<conf, conns, cancels, inflight, fails, freeFails, up, lastTouch,
                   direct, faults>>

\* Wake: the row is running, and young, before the engine is started.  Refused
\* for its state, for want of its volume, or by admission, it stays as it is.
Wake(c) ==
    LET b == sess[c].branch IN
    /\ At(c, "wake")
    /\ lock[b] = Free
    /\ \/ /\ row[b].state \in {"sleeping", "wakeFailed"}
          /\ row' = [row EXCEPT ![b].state = "running", ![b].age = 0]
          /\ lock' = [lock EXCEPT ![b] = c]
          /\ Goto(c, "waking")
       \/ /\ row[b].state = "running" /\ ~up[b]
          /\ lock' = [lock EXCEPT ![b] = c]
          /\ Goto(c, "waking")
          /\ UNCHANGED row
       \/ /\ row[b].state = "running" /\ up[b]
          /\ Goto(c, "acquire")
          /\ UNCHANGED <<row, lock>>
       \/ /\ Leave(c)
          /\ UNCHANGED <<row, lock>>
    /\ UNCHANGED <<conf, conns, cancels, inflight, fails, freeFails, up, lastTouch,
                   direct, faults>>

\* The engine of a wake or a create is ready, or the call has failed.
Provisioned(c) ==
    LET b == sess[c].branch IN
    /\ sess[c].pc \in {"waking", "creating"}
    /\ \/ /\ up' = [up EXCEPT ![b] = TRUE]
          /\ row' = [row EXCEPT ![b].state = "running"]
          /\ Goto(c, "acquire")
          /\ UNCHANGED faults
       \/ /\ Breaks
          /\ \E alive \in BOOLEAN : up' = [up EXCEPT ![b] = alive]
          /\ row' = [row EXCEPT
                 ![b].state = IF At(c, "waking") THEN "wakeFailed" ELSE "error",
                 ![b].age = 0]
          /\ Leave(c)
    /\ lock' = [lock EXCEPT ![b] = Free]
    /\ UNCHANGED <<conf, conns, cancels, inflight, fails, freeFails, lastTouch, direct>>

\* waitRunning: another call is creating the branch; it may take too long.
WaitRunning(c) ==
    LET r == row[sess[c].branch] IN
    /\ At(c, "poll")
    /\ \/ /\ r.state = "running"
          /\ sess' = [sess EXCEPT ![c].pc = "acquire", ![c].port = r.port,
                                  ![c].gone = FALSE]
       \/ /\ r.state # "running"
          /\ Leave(c)
    /\ UNCHANGED <<conf, conns, cancels, inflight, fails, freeFails, branchVars, faults>>

-----------------------------------------------------------------------------
(***************************************************************************)
(* The connection to the engine                                            *)
(***************************************************************************)

\* Variant: one connection too many.
TakeSlotOver(c) ==
    /\ At(c, "acquire")
    /\ conns[sess[c].branch] <= MaxConn
    /\ conns' = [conns EXCEPT ![sess[c].branch] = @ + 1]
    /\ Goto(c, "dial")
    /\ UNCHANGED <<conf, cancels, inflight, fails, freeFails, branchVars, faults>>

TakeSlot(c) ==
    LET b == sess[c].branch IN
    /\ At(c, "acquire")
    /\ \/ /\ conns[b] < MaxConn
          /\ conns' = [conns EXCEPT ![b] = @ + 1]
          /\ Goto(c, "dial")
       \/ /\ conns[b] >= MaxConn
          /\ Leave(c)
          /\ UNCHANGED conns
    /\ UNCHANGED <<conf, cancels, inflight, fails, freeFails, branchVars, faults>>

\* Variant: only a session that got through gives its slot back.
ReleasePiped(c) ==
    /\ conns' = IF At(c, "dial") THEN conns
                ELSE [conns EXCEPT ![sess[c].branch] = @ - 1]
    /\ cancels' = cancels \ {c}
    /\ Leave(c)
\* What is deferred in authTerminate after acquire: the slot is given back,
\* and what CancelRequest finds is forgotten.
ReleaseSession(c) ==
    /\ conns' = [conns EXCEPT ![sess[c].branch] = IF @ > 0 THEN @ - 1 ELSE @]
    /\ cancels' = cancels \ {c}
    /\ Leave(c)

\* The client goes, or a step after acquire fails.  A session whose engine is
\* gone stays until the client goes: pipe waits for both directions.
Hangup(c) ==
    /\ sess[c].pc \in {"dial", "touch", "answer", "pipe"}
    /\ ReleaseSession(c)
    /\ UNCHANGED <<conf, inflight, fails, freeFails, branchVars, faults>>

\* Dial and authenticate at the port of the look-up, whoever listens there now.
Dial(c) ==
    /\ At(c, "dial")
    /\ \/ /\ \E x \in Listening(sess[c].port) :
                sess' = [sess EXCEPT ![c].pc = "touch", ![c].peer = x]
          /\ UNCHANGED <<conns, cancels>>
       \/ /\ Listening(sess[c].port) = {}
          /\ ReleaseSession(c)
    /\ UNCHANGED <<conf, inflight, fails, freeFails, branchVars, faults>>

TouchLastConn(b) ==
    row' = [row EXCEPT ![b].age = IF row[b].state = "absent" THEN @ ELSE 0]

\* TouchConn comes before the answer to the client.
Touch(c) ==
    LET b == sess[c].branch IN
    /\ At(c, "touch")
    /\ \/ /\ lastTouch[b] >= conf.touchEvery
          /\ lastTouch' = [lastTouch EXCEPT ![b] = 0]
          /\ TouchLastConn(b)
       \/ /\ lastTouch[b] < conf.touchEvery
          /\ UNCHANGED <<lastTouch, row>>
    /\ Goto(c, "answer")
    /\ UNCHANGED <<conf, conns, cancels, inflight, fails, freeFails, up, lock, direct,
                   faults>>

\* MySQL: OK, after which bytes are only copied.
AnswerMySQL(c) ==
    /\ conf.engine = "mysql" /\ At(c, "answer")
    /\ Goto(c, "pipe")
    /\ UNCHANGED <<conf, conns, cancels, inflight, fails, freeFails, branchVars, faults>>

\* PostgreSQL: the engine's startup messages are passed on one by one.  When its
\* key data comes it is remembered for CancelRequest, before it is passed on.
ForwardKey(c) ==
    /\ conf.engine = "postgres" /\ At(c, "answer")
    /\ cancels' = cancels \cup {c}
    /\ UNCHANGED <<conf, sess, conns, inflight, fails, freeFails, branchVars, faults>>

GivenUp(c) == sess' = [sess EXCEPT ![c].pc = "pipe", ![c].peer = NoBranch,
                                   ![c].old = FALSE]
\* ReadyForQuery ends the startup, and so does an ErrorResponse, with which the
\* engine gives up the connection: bytes are copied after either, whether a key
\* has come or not.  An engine that is gone may leave nothing more to pass on.
ForwardStartup(c) ==
    /\ conf.engine = "postgres" /\ At(c, "answer")
    /\ \/ Goto(c, "pipe") /\ UNCHANGED <<conns, cancels>>
       \/ GivenUp(c) /\ UNCHANGED <<conns, cancels>>
       \/ sess[c].peer = NoBranch /\ ReleaseSession(c)
    /\ UNCHANGED <<conf, inflight, fails, freeFails, branchVars, faults>>

-----------------------------------------------------------------------------
(***************************************************************************)
(* The engine's end, by whoever holds the branch lock                      *)
(***************************************************************************)

\* Sleep after the lock is taken: Stop and SetState.
SleepBody(b) ==
    /\ row[b].state = "running"
    /\ EngineEnds(b)
    /\ sess' = Cut(b)
    /\ row' = [row EXCEPT ![b].state = "sleeping"]

\* Delete after the lock is taken.  A promoted branch is refused; when the
\* volume cannot be destroyed the row goes to error.  The engine ends here; what
\* an engine does that outlives its row (no volume found, Stop failed) is the
\* subject of BranchLifecycle and VolumeStore: no row leads to it any more.
DeleteBody(b) ==
    /\ row[b].state # "absent"
    /\ b \notin conf.backing
    /\ EngineEnds(b)
    /\ \/ /\ row' = [row EXCEPT ![b] = NoRow]
          /\ sess' = [c \in Clients |->
                IF sess[c].branch = b THEN [Cut(b)[c] EXCEPT !.gone = TRUE]
                ELSE Cut(b)[c]]
          /\ UNCHANGED faults
       \/ /\ Breaks
          /\ row' = [row EXCEPT ![b].state = "error", ![b].age = 0]
          /\ sess' = Cut(b)

Request(r) == r \in conf.requests

\* Sleep, of one branch or in the round of Drain.
ApiSleep(b) ==
    /\ Request("sleep") /\ lock[b] = Free
    /\ SleepBody(b)
    /\ UNCHANGED <<conf, conns, cancels, inflight, fails, freeFails, lock, lastTouch, faults>>

ApiDelete(b) ==
    /\ Request("delete") /\ lock[b] = Free
    /\ DeleteBody(b)
    /\ UNCHANGED <<conf, conns, cancels, inflight, fails, freeFails, lock, lastTouch>>

ApiCreate(b) ==
    /\ Request("create") /\ lock[b] = Free
    /\ row[b].state = "absent"
    /\ \E p \in Ports : /\ AllocPort(p)
                        /\ row' = [row EXCEPT ![b] = NewRow("running", p)]
    /\ up' = [up EXCEPT ![b] = TRUE]
    /\ UNCHANGED <<conf, sessionVars, lock, lastTouch, direct, faults>>

\* LeaseUntil: no lock, only an expiry in the future.
Lease(b) ==
    /\ Request("lease")
    /\ row[b].state # "absent"
    /\ row' = [row EXCEPT ![b].lease = LeaseTime]
    /\ UNCHANGED <<conf, sessionVars, up, lock, lastTouch, direct, faults>>

DirectConnect(b) ==
    /\ Request("direct") /\ up[b] /\ direct[b] = "none"
    /\ direct' = [direct EXCEPT ![b] = "new"]
    /\ UNCHANGED <<conf, sessionVars, row, up, lock, lastTouch, faults>>

DirectClose(b) ==
    /\ direct[b] # "none"
    /\ direct' = [direct EXCEPT ![b] = "none"]
    /\ UNCHANGED <<conf, sessionVars, row, up, lock, lastTouch, faults>>

EngineDies(b) ==
    /\ up[b] /\ lock[b] = Free
    /\ Breaks
    /\ EngineEnds(b)
    /\ sess' = Cut(b)
    /\ UNCHANGED <<conf, conns, cancels, inflight, fails, freeFails, row, lock, lastTouch>>

\* Ages stop growing at the longest period of the configuration.
Older(age) ==
    IF age < conf.idleStop \/ age < conf.deleteIdle \/ age < conf.errorRetention
      THEN age + 1 ELSE age

\* One unit of time.
Tick ==
    /\ LimiterTick
    /\ row' = [b \in Branches |->
          IF row[b].state = "absent" THEN row[b]
          ELSE [row[b] EXCEPT !.age = Older(@),
                              !.lease = IF @ = NoLease \/ @ = 0 THEN @ ELSE @ - 1]]
    /\ lastTouch' = [b \in Branches |->
          IF lastTouch[b] < conf.touchEvery THEN lastTouch[b] + 1 ELSE lastTouch[b]]
    /\ sess' = [c \in Clients |->
          [sess[c] EXCEPT !.wait = IF @ = 0 THEN 0 ELSE @ - 1]]
    /\ UNCHANGED <<conf, conns, cancels, inflight, freeFails, up, lock, direct, faults>>

-----------------------------------------------------------------------------
ProxyInit ==
    /\ conf \in Configs
    /\ \E f \in [Branches -> Ports \cup {NoPort}] :
          /\ \A b \in Branches : f[b] = NoPort <=> b \notin conf.running
          /\ \A x, y \in conf.running : f[x] = f[y] => x = y
          /\ \A x \in conf.running, p \in Ports :
                p < f[x] => \E y \in conf.running : f[y] = p
          /\ row = [b \in Branches |->
                IF b \in conf.running THEN NewRow("running", f[b]) ELSE NoRow]
    /\ up = [b \in Branches |-> b \in conf.running]
    /\ lock = [b \in Branches |-> Free]
    /\ sess = [c \in Clients |-> Closed]
    /\ conns = [b \in Branches |-> 0]
    /\ cancels = {}
    /\ LimiterInit
    /\ lastTouch = [b \in Branches |-> conf.touchEvery]
    /\ direct = [b \in Branches |-> "none"]
    /\ freeFails = [k \in Sources |-> 0]
    /\ faults = 0

\* What a session does of its own accord; a client connects and hangs up
\* when it likes.
Advance(c) ==
    \/ ReadPenalty(c) \/ VerifyMySQL(c) \/ VerifyPostgres(c) \/ ReturnSlot(c)
    \/ Route(c) \/ LazyCreate(c) \/ Wake(c) \/ Provisioned(c) \/ WaitRunning(c)
    \/ TakeSlot(c) \/ Dial(c) \/ Touch(c) \/ AnswerMySQL(c) \/ ForwardKey(c)
    \/ ForwardStartup(c)

ProxyNext ==
    \/ Tick
    \/ \E c \in conf.clients :
          ConnectMySQL(c) \/ ConnectPostgres(c) \/ Advance(c) \/ Hangup(c)
    \/ \E b \in conf.branches :
          \/ ApiSleep(b) \/ ApiDelete(b) \/ ApiCreate(b) \/ Lease(b)
          \/ DirectConnect(b) \/ DirectClose(b) \/ EngineDies(b)

ProxyTypeOK ==
    /\ conf \in Configs
    /\ row \in [Branches -> Rows]
    /\ up \in [Branches -> BOOLEAN]
    /\ lock \in [Branches -> Clients \cup {Free}]
    /\ sess \in [Clients -> Sessions]
    /\ conns \in [Branches -> 0..MaxConn]
    /\ cancels \subseteq Clients
    /\ LimiterTypeOK
    /\ lastTouch \in [Branches -> 0..AgeCap]
    /\ direct \in [Branches -> {"none", "new", "old"}]
    /\ freeFails \in [Sources -> 0..FreeCap]
    /\ faults \in 0..conf.maxFaults
=============================================================================
