----------------------------- MODULE IdleReaper -----------------------------
(***************************************************************************)
(* The two background passes of workspace.Manager beside the sessions of   *)
(* the proxies: RunConnPoller counts the connections of every running      *)
(* branch at its engine, Reap stops and deletes what is idle, expired or   *)
(* has been in error for too long.                                         *)
(*                                                                         *)
(* A pass of the reaper lists all rows, with the time, and then decides    *)
(* branch by branch on what it listed; only the stop or the deletion takes *)
(* the branch lock.                                                        *)
(***************************************************************************)
EXTENDS ProxySessions

VARIABLES
    reap,   \* the pass of the reaper
    poll,   \* the pass of the poller
    seen    \* Manager.pollConns

vars == <<proxyVars, reap, poll, seen>>

-----------------------------------------------------------------------------
NoList == [b \in Branches |-> NoRow]

\* list: the rows still to be looked at, as they were when the pass began.
\* why: what the decision at "stop" or "delete" rests on.
Passes   == [pc : {"idle", "look", "count", "stop", "delete"},
             branch : Branches \cup {NoBranch}, list : [Branches -> Rows],
             why : {"none", "idle", "lease", "error"}]
Resting  == [pc |-> "idle", branch |-> NoBranch, list |-> NoList, why |-> "none"]

\* ports: the running branches still to be counted and where; counts: so far.
Polls    == [pc : {"idle", "counting"},
             ports : [Branches -> Ports \cup {NoPort}], counts : [Branches -> Nat]]
NotPolling == [pc |-> "idle", ports |-> [b \in Branches |-> NoPort],
               counts |-> [b \in Branches |-> 0]]

\* ConnCount at a port: what is connected to the engine that listens there.
ConnCount(p) ==
    LET x == CHOOSE y \in Listening(p) : TRUE
    IN  Cardinality({c \in Clients : Connected(c, x)})
          + IF direct[x] = "none" THEN 0 ELSE 1

\* activeConns: the proxy's number or the poller's, whichever is larger.
ActiveConns(b) == IF conns[b] > seen[b] THEN conns[b] ELSE seen[b]

-----------------------------------------------------------------------------
(***************************************************************************)
(* pollConnsOnce                                                           *)
(***************************************************************************)

StartPoll ==
    /\ conf.passes /\ poll.pc = "idle"
    /\ poll' = [NotPolling EXCEPT
          !.pc = "counting",
          !.ports = [b \in Branches |->
              IF row[b].state = "running" THEN row[b].port ELSE NoPort]]
    /\ UNCHANGED <<proxyVars, reap, seen>>

Counted(b, n) ==
    poll' = [poll EXCEPT !.ports[b] = NoPort, !.counts[b] = n]

\* A count that fails protects the branch.
PollOne(b) ==
    LET p == poll.ports[b] IN
    /\ p # NoPort
    /\ \/ /\ Listening(p) # {}
          /\ Counted(b, ConnCount(p))
          /\ IF ConnCount(p) > 0 THEN TouchLastConn(b) ELSE UNCHANGED row
          /\ UNCHANGED faults
       \/ /\ IF Listening(p) = {} THEN UNCHANGED faults ELSE Breaks
          /\ Counted(b, 1)
          /\ UNCHANGED row
    /\ UNCHANGED <<conf, sessionVars, up, lock, lastTouch, direct, reap, seen>>

\* Variant: the new numbers are merged into the old ones.
EndPollMerges ==
    /\ poll.pc = "counting"
    /\ \A b \in Branches : poll.ports[b] = NoPort
    /\ seen' = [b \in Branches |->
          IF poll.counts[b] > seen[b] THEN poll.counts[b] ELSE seen[b]]
    /\ poll' = NotPolling
    /\ UNCHANGED <<proxyVars, reap>>

EndPoll ==
    /\ poll.pc = "counting"
    /\ \A b \in Branches : poll.ports[b] = NoPort
    /\ seen' = poll.counts
    /\ poll' = NotPolling
    /\ UNCHANGED <<proxyVars, reap>>

-----------------------------------------------------------------------------
(***************************************************************************)
(* Reap                                                                    *)
(***************************************************************************)

StartReap ==
    /\ conf.passes /\ reap.pc = "idle"
    /\ reap' = [Resting EXCEPT !.pc = "look", !.list = row]
    /\ sess' = [c \in Clients |->
          [sess[c] EXCEPT !.old = sess[c].peer # NoBranch]]
    /\ direct' = [b \in Branches |->
          IF direct[b] = "none" THEN "none" ELSE "old"]
    /\ UNCHANGED <<conf, conns, cancels, inflight, fails, freeFails, row, up, lock,
                   lastTouch, faults, poll, seen>>

Unlisted(b) == [reap.list EXCEPT ![b] = NoRow]
\* The next branch of the list, or the end of the pass.
NextBranch(b) ==
    reap' = [Resting EXCEPT !.pc = "look", !.list = Unlisted(b)]
Decide(b, pc, why) ==
    reap' = [pc |-> pc, branch |-> b, list |-> reap.list, why |-> why]

Lives(r)      == r.state \in {"running", "sleeping"}
InError(r)    == r.state \in {"error", "wakeFailed"}
Expired(r)    == r.lease = 0 /\ (Lives(r) \/ InError(r))
DeleteDue(r)  == conf.deleteIdle > 0 /\ r.age >= conf.deleteIdle /\ Lives(r)
StopDue(r)    == conf.idleStop > 0 /\ r.age >= conf.idleStop /\ r.state = "running"
ErrorDue(r)   == conf.errorRetention > 0 /\ r.age >= conf.errorRetention

\* Variant: a branch in use is not deleted for its lease.
LookExpiredUnused(b) ==
    LET r == reap.list[b] IN
    /\ Expired(r)
    /\ \/ b \notin conf.backing /\ ActiveConns(b) = 0 /\ Decide(b, "delete", "lease")
       \/ b \in conf.backing /\ r.state = "running" /\ Decide(b, "stop", "lease")
       \/ b \in conf.backing /\ r.state # "running" /\ NextBranch(b)
       \/ b \notin conf.backing /\ ActiveConns(b) > 0 /\ NextBranch(b)

\* An expired branch is deleted whether in use or not; one that holds a
\* baseline is only stopped.
LookExpired(b) ==
    LET r == reap.list[b] IN
    /\ Expired(r)
    /\ \/ b \notin conf.backing /\ Decide(b, "delete", "lease")
       \/ b \in conf.backing /\ r.state = "running" /\ Decide(b, "stop", "lease")
       \/ b \in conf.backing /\ r.state # "running" /\ NextBranch(b)

LookError(b) ==
    LET r == reap.list[b] IN
    /\ ~Expired(r) /\ InError(r)
    /\ IF ErrorDue(r) /\ b \notin conf.backing THEN Decide(b, "delete", "error")
       ELSE NextBranch(b)

\* Variant: a running branch is stopped without asking its engine.
LookIdleUncounted(b) ==
    LET r == reap.list[b] IN
    /\ ~Expired(r) /\ ~InError(r)
    /\ \/ /\ (DeleteDue(r) \/ StopDue(r)) /\ ActiveConns(b) = 0
          /\ IF DeleteDue(r) /\ b \notin conf.backing THEN Decide(b, "delete", "idle")
             ELSE IF r.state = "running" THEN Decide(b, "stop", "idle")
             ELSE NextBranch(b)
       \/ /\ ~(DeleteDue(r) \/ StopDue(r)) \/ ActiveConns(b) > 0
          /\ NextBranch(b)

\* Idle: the numbers at hand first, then, for a running branch, its engine.
LookIdle(b) ==
    LET r == reap.list[b] IN
    /\ ~Expired(r) /\ ~InError(r)
    /\ \/ /\ (DeleteDue(r) \/ StopDue(r)) /\ ActiveConns(b) = 0
          /\ IF r.state = "running" THEN Decide(b, "count", "idle")
             ELSE IF b \notin conf.backing THEN Decide(b, "delete", "idle")
             ELSE NextBranch(b)
       \/ /\ ~(DeleteDue(r) \/ StopDue(r)) \/ ActiveConns(b) > 0
          /\ NextBranch(b)

ReapLook ==
    /\ reap.pc = "look"
    /\ \E b \in Branches :
          /\ reap.list[b].state # "absent"
          /\ LookExpired(b) \/ LookError(b) \/ LookIdle(b)
    /\ UNCHANGED <<proxyVars, poll, seen>>

EndReap ==
    /\ reap.pc = "look"
    /\ reap.list = NoList
    /\ reap' = Resting
    /\ UNCHANGED <<proxyVars, poll, seen>>

\* The engine is asked right before; no answer protects the branch.
ReapCount ==
    LET b == reap.branch
        r == reap.list[b] IN
    /\ reap.pc = "count"
    /\ \/ /\ Listening(r.port) # {} /\ ConnCount(r.port) = 0
          /\ Decide(b, IF DeleteDue(r) /\ b \notin conf.backing THEN "delete"
                                                               ELSE "stop", "idle")
          /\ UNCHANGED <<row, faults>>
       \/ /\ Listening(r.port) # {} /\ ConnCount(r.port) > 0
          /\ TouchLastConn(b)
          /\ NextBranch(b)
          /\ UNCHANGED faults
       \/ /\ IF Listening(r.port) = {} THEN UNCHANGED faults ELSE Breaks
          /\ NextBranch(b)
          /\ UNCHANGED row
    /\ UNCHANGED <<conf, sessionVars, up, lock, lastTouch, direct, poll, seen>>

\* Sleep: nothing to do unless the row still says running.
ReapStop ==
    LET b == reap.branch IN
    /\ reap.pc = "stop" /\ lock[b] = Free
    /\ \/ SleepBody(b) /\ UNCHANGED faults
       \/ /\ IF row[b].state = "running" THEN Breaks ELSE UNCHANGED faults
          /\ UNCHANGED <<row, up, direct, sess>>
    /\ NextBranch(b)
    /\ UNCHANGED <<conf, conns, cancels, inflight, fails, freeFails, lock, lastTouch,
                   poll, seen>>

\* Delete: of whatever the name stands for by now.
ReapDelete ==
    LET b == reap.branch IN
    /\ reap.pc = "delete" /\ lock[b] = Free
    /\ \/ DeleteBody(b)
       \/ /\ row[b].state = "absent"
          /\ UNCHANGED <<row, up, direct, sess, faults>>
    /\ NextBranch(b)
    /\ UNCHANGED <<conf, conns, cancels, inflight, fails, freeFails, lock, lastTouch,
                   poll, seen>>

-----------------------------------------------------------------------------
Init ==
    /\ ProxyInit
    /\ reap = Resting
    /\ poll = NotPolling
    /\ seen = [b \in Branches |-> 0]

ReaperStep == StartReap \/ ReapLook \/ ReapCount \/ ReapStop \/ ReapDelete \/ EndReap
PollerStep == StartPoll \/ (\E b \in Branches : PollOne(b)) \/ EndPoll

Next ==
    \/ ProxyNext /\ UNCHANGED <<reap, poll, seen>>
    \/ ReaperStep
    \/ PollerStep

Spec == Init /\ [][Next]_vars

\* Time passes, the two passes run, and who holds a branch lock gives it back
\* (an engine becomes ready or WaitReady times out).  A Go mutex hands itself
\* over to whoever waits longest: the reaper is not passed over for ever.
FairSpec ==
    /\ Spec
    /\ WF_vars(Tick /\ UNCHANGED <<reap, poll, seen>>)
    /\ SF_vars(ReaperStep)
    /\ WF_vars(PollerStep)
    /\ \A c \in Clients : WF_vars(Provisioned(c) /\ UNCHANGED <<reap, poll, seen>>)

-----------------------------------------------------------------------------
(***************************************************************************)
(* Properties                                                              *)
(***************************************************************************)

\* Every variable has its type.
TypeOK ==
    /\ ProxyTypeOK
    /\ reap \in Passes
    /\ poll \in Polls
    /\ seen \in [Branches -> Nat]

\* A verification slot is held by exactly the sessions that are being
\* verified, a branch slot by exactly those between acquire and the end:
\* neither is lost on an early return, nor is the former kept while data is
\* piped.  A cancel key belongs to a PostgreSQL session that still holds its
\* slot, be it piped or still starting: whichever message or write it failed at,
\* none leaves a key behind that would cancel a query of somebody else.
SlotsExact ==
    /\ \A k \in Sources :
          inflight[k] = Cardinality({c \in Clients : sess[c].key = k /\ InVerification(c)})
    /\ \A b \in Branches :
          conns[b] = Cardinality({c \in Clients : HoldsSlot(c, b)})
    /\ cancels \subseteq {c \in Clients :
          sess[c].pc \in {"answer", "pipe"} /\ conf.engine = "postgres"}

\* Opening connections in parallel does not get round the delay: since its
\* last success, a source has had at most Threshold + MaxInFly failures that
\* were verified at once.
DelayNotEvaded ==
    \A k \in Sources : freeFails[k] <= Threshold + MaxInFly

\* Nobody who has not shown the password makes sashiki create or wake a
\* branch, or reaches an engine (authTerminate, "until here, no branch").
BranchNeedsPassword ==
    [][\A c \in Clients :
          (sess'[c].pc \in {"creating", "waking", "touch"} /\ sess[c].pc # sess'[c].pc)
              => sess'[c].password = "right"]_vars

\* A client talks to the engine of the branch it named, unless that branch
\* was deleted after the proxy looked it up: no two rows share a port, and a
\* port stays with its branch while it sleeps.
PipedToNamedBranch ==
    \A c \in Clients :
        sess[c].peer # NoBranch => sess[c].peer = sess[c].branch \/ sess[c].gone

\* A connection that was there when the reaper listed the branches is not cut
\* for idleness, be it through the proxy or past it, however stale the list
\* and the poller's numbers are.
IdleSparesConnected ==
    [][(reap.pc \in {"stop", "delete"} /\ reap.why = "idle") =>
          /\ \A c \in Clients :
                (sess[c].old /\ sess[c].peer = reap.branch /\ ReaperStep)
                    => sess'[c].peer = sess[c].peer
          /\ (direct[reap.branch] = "old" /\ ReaperStep)
                    => direct'[reap.branch] = "old"]_vars

\* An expired branch goes, whether in use or not, unless its lease is renewed
\* or it holds a registered baseline.
LeaseEnds ==
    \A b \in Branches :
        (row[b].lease = 0 /\ b \notin conf.backing /\ conf.passes)
            ~> (row[b].state = "absent" \/ row[b].lease # 0)

\* A branch without connections does not keep its engine for ever.
IdleStops ==
    \A b \in Branches :
        ~<>[](/\ row[b].state = "running" /\ up[b]
              /\ conns[b] = 0 /\ direct[b] = "none"
              /\ conf.passes /\ conf.idleStop > 0)
=============================================================================
