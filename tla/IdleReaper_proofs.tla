-------------------------- MODULE IdleReaper_proofs --------------------------
(***************************************************************************)
(* Theorems about IdleReaper: the sessions of the proxies and the passes   *)
(* of the reaper and the poller, for every set of branches, clients, ports *)
(* and sources, and every configuration.                                   *)
(*                                                                         *)
(* Typing comes first.  Then the invariant, in four parts that lean on     *)
(* each other: slots (who is counted where), delays (failures that were    *)
(* not delayed), routes (whom a session was let through to) and passes     *)
(* (what the list of the reaper still says of the connections it saw).     *)
(***************************************************************************)
EXTENDS IdleReaper, FiniteSetTheorems, TLAPS

-----------------------------------------------------------------------------
(***************************************************************************)
(* Types                                                                   *)
(*                                                                         *)
(* One lemma for each record, helper and action, called after it: what it  *)
(* makes has its type.                                                     *)
(***************************************************************************)

\* What the assumptions say of the constants.
LEMMA Constants ==
    /\ MaxInFly \in Nat \ {0} /\ Threshold \in Nat /\ MaxDelay \in Nat \ {0}
    /\ Window \in Nat \ {0} /\ NoSource \notin Sources
    /\ Ports \subseteq Nat /\ NoPort \notin Ports /\ NoBranch \notin Branches
    /\ IsFiniteSet(Clients) /\ Free \notin Clients
    /\ MaxConn \in Nat /\ AgeCap \in Nat /\ LeaseTime \in Nat
BY LimiterAssumption, SessionsAssumption

\* The settings of one instance.
LEMMA Config ==
    ASSUME conf \in Configs
    PROVE  /\ conf.sources \subseteq Keys
           /\ conf.passwords \subseteq {"right", "wrong", "broken"}
           /\ conf.branches \subseteq Branches /\ conf.clients \subseteq Clients
           /\ conf.running \subseteq Branches
           /\ conf.engine \in {"mysql", "postgres"}
           /\ conf.idleStop \in 0..AgeCap /\ conf.deleteIdle \in 0..AgeCap
           /\ conf.errorRetention \in 0..AgeCap /\ conf.touchEvery \in 0..AgeCap
           /\ conf.maxFaults \in Nat
<1>1. conf \in ConfigFields
  BY SessionsAssumption
<1>2. {conf.idleStop, conf.deleteIdle, conf.errorRetention, conf.touchEvery}
          \subseteq 0..AgeCap
  BY SessionsAssumption
<1>3. QED
  BY <1>1, <1>2 DEF ConfigFields

\* The penalty is no longer than MaxDelay, and none up to the threshold only.
LEMMA PenaltyTyped ==
    ASSUME LimiterTypeOK, NEW k \in Keys
    PROVE  /\ Penalty(k) \in 0..MaxDelay
           /\ k \in Sources /\ ~Forgotten(fails[k]) /\ Penalty(k) = 0
                 => fails[k].count <= Threshold
<1>1. ASSUME NEW n \in Nat
      PROVE  DelayFor(n) \in 0..MaxDelay /\ (n > Threshold => DelayFor(n) # 0)
  BY Constants DEF DelayFor
<1>2. k \in Sources => fails[k].count \in Nat
  BY Constants DEF LimiterTypeOK, Entries, CountCap
<1>3. QED
  BY <1>1, <1>2, Constants DEF Penalty, Keys

\* A session has named its branch; a pass that has decided has one, too.
Named == {s \in Sessions : s.pc # "closed" => s.branch \in Branches}
SessionsNamed == sess \in [Clients -> Named]
ProxyTyped    == ProxyTypeOK /\ SessionsNamed

\* A session that goes on, one that ends, and what the end of an engine does
\* to all.
LEMMA SessionsTyped ==
    ASSUME SessionsNamed, NEW c \in Clients
    PROVE  /\ \A pc \in Pcs : Goto(c, pc) /\ ~At(c, "closed") => SessionsNamed'
           /\ Leave(c) => SessionsNamed'
<1> USE DEF SessionsNamed
<1>1. Closed \in Named
  BY Constants DEF Closed, Named, Sessions, Pcs, Keys
<1>2. Leave(c) => SessionsNamed'
  BY <1>1 DEF Leave
<1>3. ASSUME NEW pc \in Pcs, Goto(c, pc), ~At(c, "closed") PROVE SessionsNamed'
  BY <1>3 DEF Goto, At, Named, Sessions
<1>4. QED
  BY <1>2, <1>3

LEMMA CutTyped ==
    ASSUME SessionsNamed, NEW x \in Branches
    PROVE  Cut(x) \in [Clients -> Named]
BY ZenonT(40) DEF Cut, SessionsNamed, Named, Sessions

\* A session that writes down what it has learned.
LEMMA SessionTyped ==
    ASSUME NEW s \in Named, s.branch \in Branches, NEW pc \in Pcs
    PROVE  /\ \A p \in Ports \cup {NoPort} :
                 [s EXCEPT !.pc = pc, !.port = p, !.gone = FALSE] \in Named
           /\ \A w \in 0..MaxDelay, f \in BOOLEAN :
                 [s EXCEPT !.pc = pc, !.wait = w, !.free = f] \in Named
           /\ \A x \in Branches : [s EXCEPT !.pc = pc, !.peer = x] \in Named
<1>1. \A p \in Ports \cup {NoPort} :
         [s EXCEPT !.pc = pc, !.port = p, !.gone = FALSE] \in Named
  BY DEF Named, Sessions
<1>2. \A w \in 0..MaxDelay, f \in BOOLEAN :
         [s EXCEPT !.pc = pc, !.wait = w, !.free = f] \in Named
  BY DEF Named, Sessions
<1>3. \A x \in Branches : [s EXCEPT !.pc = pc, !.peer = x] \in Named
  BY DEF Named, Sessions
<1>4. QED
  BY <1>1, <1>2, <1>3

LEMMA NamedTyped == SessionsNamed => sess \in [Clients -> Sessions]
BY DEF SessionsNamed, Named

LEMMA LimiterTyped ==
    ASSUME LimiterTypeOK, NEW k \in Keys
    PROVE  /\ Acquire(k) \/ SlotReturned(k) => inflight' \in [Sources -> 0..MaxInFly]
           /\ Fail(k) \/ Reset(k) \/ LimiterTick => fails' \in [Sources -> Entries]
<1> USE Constants DEF LimiterTypeOK
<1>1. Acquire(k) => inflight' \in [Sources -> 0..MaxInFly]
  BY DEF Acquire, Admits, Keys
<1>2. SlotReturned(k) => inflight' \in [Sources -> 0..MaxInFly]
  BY DEF SlotReturned, Keys
<1>3. NoEntry \in Entries
  BY DEF NoEntry, Entries, CountCap
<1>4. Reset(k) => fails' \in [Sources -> Entries]
  BY <1>3 DEF Reset
<1>5. ASSUME NEW e \in Entries
      PROVE  /\ [count |-> IF Forgotten(e) THEN 1 ELSE Capped(e.count + 1), age |-> 0]
                    \in Entries
             /\ ~Forgotten(e) => [e EXCEPT !.age = @ + 1] \in Entries
  BY DEF Entries, CountCap, Capped, Forgotten
<1>6. ASSUME Fail(k) PROVE fails' \in [Sources -> Entries]
  <2> DEFINE next == [count |-> IF Forgotten(fails[k]) THEN 1
                                ELSE Capped(fails[k].count + 1), age |-> 0]
  <2>1. k \in Sources => next \in Entries
    BY <1>5
  <2>2. fails' = IF k = NoSource THEN fails ELSE [fails EXCEPT ![k] = next]
    BY <1>6 DEF Fail
  <2> HIDE DEF next
  <2>3. QED
    BY <2>1, <2>2 DEF Keys
<1>7. ASSUME LimiterTick PROVE fails' \in [Sources -> Entries]
  <2> DEFINE next(j) == IF fails[j].count = 0 \/ Forgotten(fails[j]) THEN fails[j]
                        ELSE [fails[j] EXCEPT !.age = @ + 1]
  <2>1. ASSUME NEW j \in Sources PROVE next(j) \in Entries
    BY <1>5
  <2>2. fails' = [j \in Sources |-> next(j)]
    BY <1>7 DEF LimiterTick
  <2> HIDE DEF next
  <2>3. QED
    BY <2>1, <2>2
<1>8. QED
  BY <1>1, <1>2, <1>4, <1>6, <1>7

\* Verification.
LEMMA VerificationTyped ==
    ASSUME ProxyTyped, NEW c \in Clients,
           \/ (c \in conf.clients /\ (ConnectMySQL(c) \/ ConnectPostgres(c)))
           \/ ReadPenalty(c) \/ VerifyMySQL(c) \/ VerifyPostgres(c) \/ ReturnSlot(c)
    PROVE  ProxyTyped'
<1> USE Constants DEF ProxyTyped, ProxyTypeOK, branchVars
<1>0. sess[c].key \in Keys /\ sess[c] \in Named
  BY DEF Sessions, SessionsNamed
<1>1. CASE ConnectMySQL(c) \/ ConnectPostgres(c)
  <2>1. PICK b \in conf.branches, k \in conf.sources, p \in conf.passwords :
            /\ Acquire(k)
            /\ sess' = [sess EXCEPT ![c] = [Closed EXCEPT
                   !.pc = "slot", !.branch = b, !.key = k, !.password = p]]
    BY <1>1 DEF ConnectMySQL, ConnectPostgres, Admitted
  <2>2. b \in Branches /\ k \in Keys /\ p \in {"right", "wrong", "broken"}
    BY Config
  <2> DEFINE new == [Closed EXCEPT !.pc = "slot", !.branch = b, !.key = k,
                                   !.password = p]
  <2>3. new \in Named
    <3>1. ASSUME NEW s \in Sessions
          PROVE  [s EXCEPT !.pc = "slot", !.branch = b, !.key = k, !.password = p]
                     \in Named
      BY <2>2 DEF Named, Sessions, Pcs
    <3>2. Closed \in Sessions
      BY DEF Closed, Sessions, Pcs, Keys
    <3>3. QED
      BY <3>1, <3>2
  <2> HIDE DEF new
  <2>4. SessionsNamed'
    BY <2>1, <2>3 DEF new, SessionsNamed
  <2>5. inflight' \in [Sources -> 0..MaxInFly]
    BY <2>1, <2>2, LimiterTyped
  <2>6. QED
    BY <1>1, <2>4, <2>5, NamedTyped
    DEF ConnectMySQL, ConnectPostgres, Admitted, LimiterTypeOK, SessionsNamed, Named
<1>2. CASE ReadPenalty(c)
  <2>1. SessionsNamed'
    <3> DEFINE w == Penalty(sess[c].key)
               f == w = 0
    <3>1. /\ sess' = [sess EXCEPT ![c] = [sess[c] EXCEPT !.pc = "wait", !.wait = w,
                                                        !.free = f]]
          /\ sess[c].branch \in Branches /\ "wait" \in Pcs
      BY <1>0, <1>2 DEF ReadPenalty, At, Named, SessionsNamed, Pcs
    <3>2. w \in 0..MaxDelay /\ f \in BOOLEAN
      BY <1>0, PenaltyTyped
    <3> HIDE DEF w, f
    <3>3. QED
      BY <1>0, <3>1, <3>2, SessionTyped DEF SessionsNamed
  <2>2. QED
    BY <1>2, <2>1 DEF ReadPenalty, LimiterTypeOK, SessionsNamed, Named
<1>3. ASSUME Verified(c) \/ Mismatch(c), ~At(c, "closed")
      PROVE  /\ SessionsNamed'
             /\ fails' \in [Sources -> Entries]
             /\ freeFails' \in [Sources -> 0..FreeCap]
  <2>1. SessionsNamed'
    BY <1>3, SessionsTyped DEF Verified, Mismatch, Pcs
  <2>2. fails' \in [Sources -> Entries]
    BY <1>0, <1>3, LimiterTyped DEF Verified, Mismatch
  <2>3. freeFails' \in [Sources -> 0..FreeCap]
    BY <1>3 DEF Verified, Mismatch, CountFree, FreeCap
  <2>4. QED
    BY <2>1, <2>2, <2>3
<1>4. CASE VerifyMySQL(c)
  BY <1>3, <1>4 DEF VerifyMySQL, LimiterTypeOK, At, SessionsNamed, Named
<1>5. CASE VerifyPostgres(c)
  <2>1. CASE Verified(c) \/ Mismatch(c)
    BY <1>3, <1>5, <2>1 DEF VerifyPostgres, LimiterTypeOK, At, SessionsNamed, Named
  <2>2. CASE Goto(c, "refused") /\ UNCHANGED <<fails, freeFails>>
    <3>1. SessionsNamed'
      BY <1>5, <2>2, SessionsTyped DEF VerifyPostgres, Pcs, At
    <3>2. QED
      BY <1>5, <2>2, <3>1 DEF VerifyPostgres, LimiterTypeOK, SessionsNamed, Named
  <2>3. QED
    BY <1>5, <2>1, <2>2 DEF VerifyPostgres
<1>6. CASE ReturnSlot(c)
  <2>1. SessionsNamed'
    BY <1>6, SessionsTyped DEF ReturnSlot, Pcs, At
  <2>2. inflight' \in [Sources -> 0..MaxInFly]
    BY <1>0, <1>6, LimiterTyped DEF ReturnSlot
  <2>3. QED
    BY <1>6, <2>1, <2>2 DEF ReturnSlot, LimiterTypeOK, SessionsNamed, Named
<1>7. QED
  BY <1>1, <1>2, <1>4, <1>5, <1>6

\* What routing and the passes write of a row.
LEMMA RowTyped ==
    ASSUME row \in [Branches -> Rows], NEW b \in Branches
    PROVE  /\ \A s \in RowStates : [row EXCEPT ![b].state = s] \in [Branches -> Rows]
           /\ \A s \in RowStates :
                 [row EXCEPT ![b].state = s, ![b].age = 0] \in [Branches -> Rows]
           /\ \A s \in RowStates, p \in Ports :
                 [row EXCEPT ![b] = NewRow(s, p)] \in [Branches -> Rows]
           /\ [row EXCEPT ![b] = NoRow] \in [Branches -> Rows]
           /\ [row EXCEPT ![b].lease = LeaseTime] \in [Branches -> Rows]
           /\ TouchLastConn(b) => row' \in [Branches -> Rows]
<1>0. 0 \in 0..AgeCap /\ LeaseTime \in 0..NoLease /\ NoLease \in 0..NoLease
  BY Constants DEF NoLease
<1>1. NoRow \in Rows /\ \A s \in RowStates, p \in Ports : NewRow(s, p) \in Rows
  BY <1>0 DEF NoRow, NewRow, RowStates, Rows
<1>2. ASSUME NEW q \in Rows
      PROVE  /\ \A s \in RowStates : [q EXCEPT !.state = s] \in Rows
             /\ \A s \in RowStates : [q EXCEPT !.state = s, !.age = 0] \in Rows
             /\ [q EXCEPT !.lease = LeaseTime] \in Rows
             /\ \A n \in 0..AgeCap : [q EXCEPT !.age = n] \in Rows
  <2>1. \A s \in RowStates : [q EXCEPT !.state = s] \in Rows
    BY DEF Rows
  <2>2. ASSUME NEW s \in RowStates PROVE [q EXCEPT !.state = s, !.age = 0] \in Rows
    <3>1. [q EXCEPT !.state = s] \in Rows
      BY <2>1
    <3>2. ASSUME NEW r \in Rows PROVE [r EXCEPT !.age = 0] \in Rows
      BY <1>0 DEF Rows
    <3>3. [q EXCEPT !.state = s, !.age = 0] = [[q EXCEPT !.state = s] EXCEPT !.age = 0]
      OBVIOUS
    <3>4. QED
      BY <3>1, <3>2, <3>3
  <2>3. /\ [q EXCEPT !.lease = LeaseTime] \in Rows
        /\ \A n \in 0..AgeCap : [q EXCEPT !.age = n] \in Rows
    BY <1>0 DEF Rows
  <2>4. QED
    BY <2>1, <2>2, <2>3
<1>3. row[b] \in Rows
  OBVIOUS
<1>4. TouchLastConn(b) => row' \in [Branches -> Rows]
  <2>1. row[b].age \in 0..AgeCap
    BY <1>3 DEF Rows
  <2>2. TouchLastConn(b) => \E n \in 0..AgeCap :
            row' = [row EXCEPT ![b] = [row[b] EXCEPT !.age = n]]
    BY <1>0, <2>1 DEF TouchLastConn
  <2>3. QED
    BY <1>2, <1>3, <2>2
<1>5. ASSUME NEW s \in RowStates
      PROVE  /\ [row EXCEPT ![b].state = s] \in [Branches -> Rows]
             /\ [row EXCEPT ![b].state = s, ![b].age = 0] \in [Branches -> Rows]
  <2>1. /\ [row EXCEPT ![b].state = s] = [row EXCEPT ![b] = [row[b] EXCEPT !.state = s]]
        /\ [row EXCEPT ![b].state = s, ![b].age = 0]
              = [row EXCEPT ![b] = [row[b] EXCEPT !.state = s, !.age = 0]]
    OBVIOUS
  <2>2. QED
    BY <1>2, <1>3, <2>1
<1>6. [row EXCEPT ![b].lease = LeaseTime] \in [Branches -> Rows]
  BY <1>2, <1>3
<1>7. QED
  BY <1>1, <1>4, <1>5, <1>6

\* Routing.
LEMMA RoutingTyped ==
    ASSUME ProxyTyped, NEW c \in Clients,
           \/ Route(c) \/ LazyCreate(c) \/ Wake(c) \/ Provisioned(c) \/ WaitRunning(c)
    PROVE  ProxyTyped'
<1> USE Constants DEF ProxyTyped, ProxyTypeOK, branchVars, LimiterTypeOK
<1>0. ~At(c, "closed") /\ sess[c].branch \in Branches
  BY DEF Route, LazyCreate, Wake, Provisioned, WaitRunning, At, SessionsNamed, Named
<1>1. row[sess[c].branch] \in Rows
  BY <1>0
<1>2. ASSUME NEW pc \in Pcs, NEW p \in Ports \cup {NoPort},
             sess' = [sess EXCEPT ![c].pc = pc, ![c].port = p, ![c].gone = FALSE]
      PROVE  SessionsNamed'
  <2>1. sess' = [sess EXCEPT ![c] = [sess[c] EXCEPT !.pc = pc, !.port = p, !.gone = FALSE]]
    BY <1>2 DEF SessionsNamed
  <2>2. QED
    BY <1>0, <2>1, SessionTyped DEF SessionsNamed
<1>3. CASE Route(c)
  <2>1. SessionsNamed'
    BY <1>0, <1>1, <1>2, <1>3, SessionsTyped DEF Route, Pcs, Rows
  <2>2. QED
    BY <1>3, <2>1 DEF Route, SessionsNamed, Named
<1>4. CASE LazyCreate(c)
  <2>1. SessionsNamed'
    BY <1>0, <1>2, <1>4, SessionsTyped DEF LazyCreate, Pcs
  <2>2. row' \in [Branches -> Rows]
    <3>1. PICK b \in Branches : b = sess[c].branch
      BY <1>0
    <3>2. \/ row' = row
          \/ \E q \in Ports : row' = [row EXCEPT ![b] = NewRow("creating", q)]
      BY <1>4, <3>1 DEF LazyCreate
    <3>3. \A q \in Ports : [row EXCEPT ![b] = NewRow("creating", q)] \in [Branches -> Rows]
      BY RowTyped DEF RowStates
    <3>4. QED
      BY <3>2, <3>3
  <2>3. lock' \in [Branches -> Clients \cup {Free}]
    <3>1. lock' = lock \/ lock' = [lock EXCEPT ![sess[c].branch] = c]
      BY <1>4 DEF LazyCreate
    <3>2. QED
      BY <1>0, <3>1
  <2>4. QED
    BY <1>4, <2>1, <2>2, <2>3 DEF LazyCreate, SessionsNamed, Named
<1>5. CASE Wake(c)
  <2>1. SessionsNamed'
    BY <1>0, <1>5, SessionsTyped DEF Wake, Pcs
  <2>2. row' \in [Branches -> Rows]
    <3>1. PICK b \in Branches : b = sess[c].branch
      BY <1>0
    <3>2. \/ row' = row
          \/ row' = [row EXCEPT ![b].state = "running", ![b].age = 0]
      BY <1>5, <3>1 DEF Wake
    <3>3. [row EXCEPT ![b].state = "running", ![b].age = 0] \in [Branches -> Rows]
      BY RowTyped DEF RowStates
    <3>4. QED
      BY <3>2, <3>3
  <2>3. lock' \in [Branches -> Clients \cup {Free}]
    BY <1>5 DEF Wake
  <2>4. QED
    BY <1>5, <2>1, <2>2, <2>3 DEF Wake, SessionsNamed, Named
<1>6. CASE Provisioned(c)
  <2>1. SessionsNamed'
    BY <1>0, <1>6, SessionsTyped DEF Provisioned, Pcs
  <2>2. row' \in [Branches -> Rows]
    <3>1. PICK b \in Branches : b = sess[c].branch
      BY <1>0
    <3>2. \/ row' = [row EXCEPT ![b].state = "running"]
          \/ row' = [row EXCEPT ![b].state = "wakeFailed", ![b].age = 0]
          \/ row' = [row EXCEPT ![b].state = "error", ![b].age = 0]
      BY <1>6, <3>1 DEF Provisioned
    <3>3. /\ [row EXCEPT ![b].state = "running"] \in [Branches -> Rows]
          /\ [row EXCEPT ![b].state = "wakeFailed", ![b].age = 0] \in [Branches -> Rows]
          /\ [row EXCEPT ![b].state = "error", ![b].age = 0] \in [Branches -> Rows]
      BY RowTyped DEF RowStates
    <3>4. QED
      BY <3>2, <3>3
  <2>3. /\ lock' \in [Branches -> Clients \cup {Free}]
        /\ up' \in [Branches -> BOOLEAN]
    BY <1>6 DEF Provisioned
  <2>4. faults' \in 0..conf'.maxFaults
    BY <1>6, Config DEF Provisioned, Breaks
  <2>5. QED
    BY <1>6, <2>1, <2>2, <2>3, <2>4 DEF Provisioned, SessionsNamed, Named
<1>7. CASE WaitRunning(c)
  <2>1. SessionsNamed'
    BY <1>0, <1>1, <1>2, <1>7, SessionsTyped DEF WaitRunning, Pcs, Rows
  <2>2. QED
    BY <1>7, <2>1 DEF WaitRunning, SessionsNamed, Named
<1>8. QED
  BY <1>3, <1>4, <1>5, <1>6, <1>7

\* The connection to the engine.
LEMMA ConnectionTyped ==
    ASSUME ProxyTyped, NEW c \in Clients,
           \/ TakeSlot(c) \/ Hangup(c) \/ Dial(c) \/ Touch(c) \/ AnswerMySQL(c)
           \/ ForwardKey(c) \/ ForwardStartup(c)
    PROVE  ProxyTyped'
<1> USE Constants DEF ProxyTyped, ProxyTypeOK, branchVars, LimiterTypeOK
<1>0. ~At(c, "closed") /\ sess[c].branch \in Branches
  BY DEF TakeSlot, Hangup, Dial, Touch, AnswerMySQL, ForwardKey, ForwardStartup, At,
     SessionsNamed, Named
<1>1. ASSUME ReleaseSession(c)
      PROVE  /\ SessionsNamed' /\ conns' \in [Branches -> 0..MaxConn]
             /\ cancels' \subseteq Clients
  <2>1. SessionsNamed' /\ cancels' \subseteq Clients
    BY <1>1, SessionsTyped DEF ReleaseSession
  <2>2. conns' \in [Branches -> 0..MaxConn]
    BY <1>0, <1>1 DEF ReleaseSession
  <2>3. QED
    BY <2>1, <2>2
<1>2. CASE TakeSlot(c)
  <2>1. SessionsNamed'
    BY <1>0, <1>2, SessionsTyped DEF TakeSlot, Pcs
  <2>2. conns' \in [Branches -> 0..MaxConn]
    BY <1>0, <1>2 DEF TakeSlot
  <2>3. QED
    BY <1>2, <2>1, <2>2 DEF TakeSlot, SessionsNamed, Named
<1>3. CASE Hangup(c)
  BY <1>1, <1>3 DEF Hangup, SessionsNamed, Named
<1>4. CASE Dial(c)
  <2>1. CASE ReleaseSession(c)
    BY <1>1, <1>4, <2>1 DEF Dial, SessionsNamed, Named
  <2>2. CASE /\ UNCHANGED <<conns, cancels>>
             /\ \E x \in Listening(sess[c].port) :
                   sess' = [sess EXCEPT ![c].pc = "touch", ![c].peer = x]
    <3>1. PICK x \in Branches :
              sess' = [sess EXCEPT ![c].pc = "touch", ![c].peer = x]
      BY <2>2 DEF Listening
    <3>2. sess' = [sess EXCEPT ![c] = [sess[c] EXCEPT !.pc = "touch", !.peer = x]]
      BY <3>1 DEF SessionsNamed
    <3>3. SessionsNamed'
      BY <1>0, <3>2, SessionTyped DEF SessionsNamed, Pcs
    <3>4. QED
      BY <1>4, <2>2, <3>3 DEF Dial, SessionsNamed, Named
  <2>3. QED
    BY <1>4, <2>1, <2>2 DEF Dial
<1>5. CASE Touch(c)
  <2>1. SessionsNamed'
    BY <1>0, <1>5, SessionsTyped DEF Touch, Pcs
  <2>2. row' \in [Branches -> Rows] /\ lastTouch' \in [Branches -> 0..AgeCap]
    <3>1. PICK b \in Branches : b = sess[c].branch
      BY <1>0
    <3>2. /\ TouchLastConn(b) \/ row' = row
          /\ lastTouch' = [lastTouch EXCEPT ![b] = 0] \/ lastTouch' = lastTouch
      BY <1>5, <3>1 DEF Touch
    <3>3. row' \in [Branches -> Rows]
      BY <3>2, RowTyped
    <3>4. QED
      BY <3>2, <3>3
  <2>3. QED
    BY <1>5, <2>1, <2>2 DEF Touch, SessionsNamed, Named
<1>6. CASE AnswerMySQL(c)
  <2>1. SessionsNamed'
    BY <1>0, <1>6, SessionsTyped DEF AnswerMySQL, Pcs
  <2>2. QED
    BY <1>6, <2>1 DEF AnswerMySQL, SessionsNamed, Named
<1>7. CASE ForwardStartup(c)
  <2>1. CASE ReleaseSession(c)
    BY <1>1, <1>7, <2>1 DEF ForwardStartup, SessionsNamed, Named
  <2>2. CASE (Goto(c, "pipe") \/ GivenUp(c)) /\ UNCHANGED <<conns, cancels>>
    <3>1. Goto(c, "pipe") => SessionsNamed'
      BY <1>0, SessionsTyped DEF Pcs
    <3>2. ASSUME GivenUp(c) PROVE SessionsNamed'
      <4>1. sess \in [Clients -> Named] /\ sess[c] \in Named
        BY DEF SessionsNamed
      <4>2. \A s \in Named : s.branch \in Branches =>
                [s EXCEPT !.pc = "pipe", !.peer = NoBranch, !.old = FALSE] \in Named
        BY DEF Named, Sessions, Pcs
      <4>3. PICK m \in Named : m = [sess[c] EXCEPT !.pc = "pipe", !.peer = NoBranch, !.old = FALSE]
        BY <1>0, <4>1, <4>2
      <4>4. sess' = [sess EXCEPT ![c] =
                [sess[c] EXCEPT !.pc = "pipe", !.peer = NoBranch, !.old = FALSE]]
        BY <3>2, <4>1 DEF GivenUp
      <4>5. sess' = [sess EXCEPT ![c] = m]
        BY <4>3, <4>4
      <4>6. sess' \in [Clients -> Named]
        BY <4>1, <4>5, <4>3
      <4>7. QED
        BY <4>6 DEF SessionsNamed
    <3>3. QED
      BY <1>7, <2>2, <3>1, <3>2 DEF ForwardStartup, SessionsNamed, Named
  <2>3. QED
    BY <1>7, <2>1, <2>2 DEF ForwardStartup
<1>8. CASE ForwardKey(c)
  BY <1>8 DEF ForwardKey, SessionsNamed, Named
<1>9. QED
  BY <1>2, <1>3, <1>4, <1>5, <1>6, <1>7, <1>8

\* The end of an engine, as a sleep or a deletion brings it about.
LEMMA EndsTyped ==
    ASSUME ProxyTyped, NEW b \in Branches
    PROVE  /\ EngineEnds(b) => /\ up' \in [Branches -> BOOLEAN]
                               /\ direct' \in [Branches -> {"none", "new", "old"}]
           /\ SleepBody(b) \/ DeleteBody(b) =>
                 /\ SessionsNamed' /\ row' \in [Branches -> Rows]
                 /\ up' \in [Branches -> BOOLEAN]
                 /\ direct' \in [Branches -> {"none", "new", "old"}]
<1> USE DEF ProxyTyped, ProxyTypeOK
<1>1. EngineEnds(b) => /\ up' \in [Branches -> BOOLEAN]
                       /\ direct' \in [Branches -> {"none", "new", "old"}]
  BY DEF EngineEnds
<1>2. /\ [row EXCEPT ![b].state = "sleeping"] \in [Branches -> Rows]
      /\ [row EXCEPT ![b] = NoRow] \in [Branches -> Rows]
      /\ [row EXCEPT ![b].state = "error", ![b].age = 0] \in [Branches -> Rows]
  BY RowTyped DEF RowStates
<1>3. Cut(b) \in [Clients -> Named]
  BY CutTyped
<1>4. ASSUME SleepBody(b)
      PROVE  SessionsNamed' /\ row' \in [Branches -> Rows]
  BY <1>2, <1>3, <1>4 DEF SleepBody, SessionsNamed
<1>5. ASSUME DeleteBody(b)
      PROVE  SessionsNamed' /\ row' \in [Branches -> Rows]
  <2>1. row' \in [Branches -> Rows]
    BY <1>2, <1>5 DEF DeleteBody
  <2>2. ASSUME NEW s \in Named PROVE [s EXCEPT !.gone = TRUE] \in Named
    BY DEF Named, Sessions
  <2> DEFINE next(c) == IF sess[c].branch = b THEN [Cut(b)[c] EXCEPT !.gone = TRUE]
                        ELSE Cut(b)[c]
  <2>3. [c \in Clients |-> next(c)] \in [Clients -> Named]
    BY <1>3, <2>2
  <2>4. sess' = [c \in Clients |-> next(c)] \/ sess' = Cut(b)
    BY <1>5 DEF DeleteBody
  <2> HIDE DEF next
  <2>5. QED
    BY <1>3, <2>1, <2>3, <2>4 DEF SessionsNamed
<1>6. QED
  BY <1>1, <1>4, <1>5 DEF SleepBody, DeleteBody

\* The users of the API, connections past the proxy, and time.
LEMMA RequestsTyped ==
    ASSUME ProxyTyped, NEW b \in Branches,
           \/ ApiSleep(b) \/ ApiDelete(b) \/ ApiCreate(b) \/ Lease(b)
           \/ DirectConnect(b) \/ DirectClose(b) \/ EngineDies(b)
    PROVE  ProxyTyped'
<1> USE DEF ProxyTyped, ProxyTypeOK, LimiterTypeOK, sessionVars
<1>1. CASE ApiSleep(b)
  BY <1>1, EndsTyped DEF ApiSleep, SessionsNamed, Named
<1>2. CASE ApiDelete(b)
  <2>1. faults' \in 0..conf'.maxFaults
    BY <1>2, Config DEF ApiDelete, DeleteBody, Breaks
  <2>2. QED
    BY <1>2, <2>1, EndsTyped DEF ApiDelete, SessionsNamed, Named
<1>3. CASE ApiCreate(b)
  <2>1. row' \in [Branches -> Rows]
    <3>1. PICK p \in Ports : row' = [row EXCEPT ![b] = NewRow("running", p)]
      BY <1>3 DEF ApiCreate
    <3>2. [row EXCEPT ![b] = NewRow("running", p)] \in [Branches -> Rows]
      BY RowTyped DEF RowStates
    <3>3. QED
      BY <3>1, <3>2
  <2>2. QED
    BY <1>3, <2>1 DEF ApiCreate, SessionsNamed, Named
<1>4. CASE Lease(b)
  <2>1. row' \in [Branches -> Rows]
    BY <1>4, RowTyped DEF Lease
  <2>2. QED
    BY <1>4, <2>1 DEF Lease, SessionsNamed, Named
<1>5. CASE DirectConnect(b)
  BY <1>5 DEF DirectConnect, SessionsNamed, Named
<1>6. CASE DirectClose(b)
  BY <1>6 DEF DirectClose, SessionsNamed, Named
<1>7. CASE EngineDies(b)
  <2>1. faults' \in 0..conf'.maxFaults
    BY <1>7, Config DEF EngineDies, Breaks
  <2>2. SessionsNamed'
    BY <1>7, CutTyped DEF EngineDies, SessionsNamed
  <2>3. QED
    BY <1>7, <2>1, <2>2, EndsTyped DEF EngineDies, SessionsNamed, Named
<1>8. QED
  BY <1>1, <1>2, <1>3, <1>4, <1>5, <1>6, <1>7

LEMMA TickTyped ==
    ASSUME ProxyTyped, Tick
    PROVE  ProxyTyped'
<1> USE DEF ProxyTyped, ProxyTypeOK
<1>1. fails' \in [Sources -> Entries]
  <2>1. PICK k \in Keys : TRUE
    BY DEF Keys
  <2>2. QED
    BY <2>1, LimiterTyped DEF Tick
<1>2. row' \in [Branches -> Rows]
  <2> DEFINE next(r) == IF r.state = "absent" THEN r
                        ELSE [r EXCEPT !.age = Older(@),
                                !.lease = IF @ = NoLease \/ @ = 0 THEN @ ELSE @ - 1]
  <2>1. ASSUME NEW n \in 0..AgeCap PROVE Older(n) \in 0..AgeCap
    BY Config, Constants DEF Older
  <2>2. ASSUME NEW n \in 0..NoLease
        PROVE  (IF n = NoLease \/ n = 0 THEN n ELSE n - 1) \in 0..NoLease
    BY Constants DEF NoLease
  <2>3. ASSUME NEW r \in Rows PROVE next(r) \in Rows
    <3>1. ASSUME NEW a \in 0..AgeCap, NEW l \in 0..NoLease
          PROVE  [r EXCEPT !.age = a, !.lease = l] \in Rows
      BY DEF Rows
    <3>2. r.age \in 0..AgeCap /\ r.lease \in 0..NoLease
      BY DEF Rows
    <3>3. QED
      BY <2>1, <2>2, <3>1, <3>2
  <2>4. row' = [b \in Branches |-> next(row[b])]
    BY DEF Tick
  <2> HIDE DEF next
  <2>5. QED
    BY <2>3, <2>4
<1>3. SessionsNamed'
  <2> DEFINE next(s) == [s EXCEPT !.wait = IF @ = 0 THEN 0 ELSE @ - 1]
  <2>1. ASSUME NEW s \in Named PROVE next(s) \in Named
    <3>1. s.wait \in 0..MaxDelay
      BY DEF Named, Sessions
    <3>2. (IF s.wait = 0 THEN 0 ELSE s.wait - 1) \in 0..MaxDelay
      BY <3>1, Constants
    <3>3. ASSUME NEW w \in 0..MaxDelay PROVE [s EXCEPT !.wait = w] \in Named
      BY DEF Named, Sessions
    <3>4. QED
      BY <3>2, <3>3
  <2>2. sess' = [c \in Clients |-> next(sess[c])]
    BY DEF Tick
  <2> HIDE DEF next
  <2>3. QED
    BY <2>1, <2>2 DEF SessionsNamed
<1>4. lastTouch' \in [Branches -> 0..AgeCap]
  <2>1. conf.touchEvery \in 0..AgeCap
    BY Config
  <2>2. ASSUME NEW n \in 0..AgeCap
        PROVE  (IF n < conf.touchEvery THEN n + 1 ELSE n) \in 0..AgeCap
    BY <2>1, Constants
  <2>3. QED
    BY <2>2 DEF Tick
<1>5. QED
  BY <1>1, <1>2, <1>3, <1>4 DEF Tick, LimiterTypeOK, SessionsNamed, Named

Decided == reap.pc \in {"count", "stop", "delete"} => reap.branch \in Branches
PassTyped == reap \in Passes /\ Decided
Typed == ProxyTyped /\ PassTyped /\ poll \in Polls /\ seen \in [Branches -> Nat]

LEMMA CountTyped ==
    ASSUME Typed, NEW p, Listening(p) # {}
    PROVE  ConnCount(p) \in Nat
<1> DEFINE x == CHOOSE y \in Listening(p) : TRUE
           S == {c \in Clients : Connected(c, x)}
<1>1. Cardinality(S) \in Nat
  BY Constants, FS_Subset, FS_CardinalityType
<1> HIDE DEF S
<1>2. QED
  BY <1>1 DEF ConnCount, S

\* What a pass makes of itself.
LEMMA ReapTyped ==
    ASSUME Typed
    PROVE  /\ \A b \in Branches : NextBranch(b) => PassTyped'
           /\ \A b \in Branches, pc \in {"count", "stop", "delete"},
                 why \in {"idle", "lease", "error"} :
                 Decide(b, pc, why) => PassTyped'
           /\ reap' = Resting => PassTyped'
           /\ reap' = [Resting EXCEPT !.pc = "look", !.list = row] => PassTyped'
<1> USE DEF Typed, PassTyped
<1>1. NoRow \in Rows /\ NoList \in [Branches -> Rows]
  BY Constants DEF NoList, NoRow, Rows, RowStates, NoLease
<1>2. \A l \in [Branches -> Rows] :
         [Resting EXCEPT !.pc = "look", !.list = l] \in Passes
  BY <1>1 DEF Passes, Resting
<1>3. ASSUME NEW b \in Branches, NextBranch(b) PROVE PassTyped'
  <2>1. Unlisted(b) \in [Branches -> Rows]
    BY <1>1 DEF Unlisted, Passes
  <2>2. QED
    BY <1>2, <1>3, <2>1 DEF NextBranch, Decided, Resting
<1>4. ASSUME NEW b \in Branches, NEW pc \in {"count", "stop", "delete"},
             NEW why \in {"idle", "lease", "error"}, Decide(b, pc, why)
      PROVE  PassTyped'
  BY <1>4 DEF Decide, Passes, Decided
<1>5. reap' = Resting => PassTyped'
  BY <1>1 DEF Resting, Passes, Decided
<1>6. reap' = [Resting EXCEPT !.pc = "look", !.list = row] => PassTyped'
  BY <1>2 DEF ProxyTyped, ProxyTypeOK, Decided, Resting
<1>7. QED
  BY <1>3, <1>4, <1>5, <1>6

LEMMA ReaperTyped == Typed /\ ReaperStep => Typed'
<1> SUFFICES ASSUME Typed, ReaperStep PROVE Typed'
  OBVIOUS
<1> USE DEF Typed
<1>0. \A b \in Branches : PassTyped' \/ ~NextBranch(b)
  BY ReapTyped
<1>1. CASE StartReap
  <2>1. SessionsNamed'
    <3>1. ASSUME NEW s \in Named PROVE [s EXCEPT !.old = s.peer # NoBranch] \in Named
      BY DEF Named, Sessions
    <3>2. QED
      BY <1>1, <3>1 DEF StartReap, ProxyTyped, SessionsNamed
  <2>2. direct' \in [Branches -> {"none", "new", "old"}]
    BY <1>1 DEF StartReap
  <2>3. PassTyped'
    BY <1>1, ReapTyped DEF StartReap
  <2>4. QED
    BY <1>1, <2>1, <2>2, <2>3
    DEF StartReap, ProxyTyped, ProxyTypeOK, LimiterTypeOK, SessionsNamed, Named
<1>2. CASE ReapLook
  <2>1. PICK b \in Branches : LookExpired(b) \/ LookError(b) \/ LookIdle(b)
    BY <1>2 DEF ReapLook
  <2>2. PassTyped'
    <3>1. CASE LookExpired(b)
      BY <3>1, ReapTyped DEF LookExpired
    <3>2. CASE LookError(b)
      BY <3>2, ReapTyped DEF LookError
    <3>3. CASE LookIdle(b)
      BY <3>3, ReapTyped DEF LookIdle
    <3>4. QED
      BY <2>1, <3>1, <3>2, <3>3
  <2>3. QED
    BY <1>2, <2>2
    DEF ReapLook, ProxyTyped, ProxyTypeOK, LimiterTypeOK, SessionsNamed, Named,
        proxyVars, sessionVars, branchVars
<1>3. CASE EndReap
  BY <1>3, ReapTyped
  DEF EndReap, ProxyTyped, ProxyTypeOK, LimiterTypeOK, SessionsNamed, Named,
      proxyVars, sessionVars, branchVars
<1>4. CASE ReapCount
  <2>1. reap.branch \in Branches
    BY <1>4 DEF ReapCount, PassTyped, Decided
  <2>2. PassTyped'
    BY <1>0, <1>4, <2>1, ReapTyped DEF ReapCount
  <2>3. row' \in [Branches -> Rows] /\ faults' \in 0..conf.maxFaults
    <3>1. row' = row \/ TouchLastConn(reap.branch)
      BY <1>4 DEF ReapCount
    <3>2. faults' = faults \/ Breaks
      BY <1>4 DEF ReapCount
    <3>3. row' \in [Branches -> Rows]
      BY <2>1, <3>1, RowTyped DEF ProxyTyped, ProxyTypeOK
    <3>4. faults' \in 0..conf.maxFaults
      BY <3>2, Config DEF ProxyTyped, ProxyTypeOK, Breaks
    <3>5. QED
      BY <3>3, <3>4
  <2>4. QED
    BY <1>4, <2>2, <2>3
    DEF ReapCount, ProxyTyped, ProxyTypeOK, LimiterTypeOK, SessionsNamed, Named,
        sessionVars
<1>5. CASE ReapStop \/ ReapDelete
  <2>1. reap.branch \in Branches
    BY <1>5 DEF ReapStop, ReapDelete, PassTyped, Decided
  <2>2. PassTyped'
    BY <1>0, <1>5, <2>1 DEF ReapStop, ReapDelete
  <2>3. faults' \in 0..conf.maxFaults
    <3>1. faults' = faults \/ Breaks
      BY <1>5 DEF ReapStop, ReapDelete, DeleteBody
    <3>2. QED
      BY <3>1, Config DEF ProxyTyped, ProxyTypeOK, Breaks
  <2>4. /\ SessionsNamed' /\ row' \in [Branches -> Rows]
        /\ up' \in [Branches -> BOOLEAN]
        /\ direct' \in [Branches -> {"none", "new", "old"}]
    <3>1. \/ SleepBody(reap.branch) \/ DeleteBody(reap.branch)
          \/ UNCHANGED <<row, up, direct, sess>>
      BY <1>5 DEF ReapStop, ReapDelete
    <3>2. QED
      BY <2>1, <3>1, EndsTyped DEF ProxyTyped, ProxyTypeOK, SessionsNamed
  <2>5. QED
    BY <1>5, <2>2, <2>3, <2>4
    DEF ReapStop, ReapDelete, ProxyTyped, ProxyTypeOK, LimiterTypeOK, SessionsNamed, Named
<1>6. QED
  BY <1>1, <1>2, <1>3, <1>4, <1>5 DEF ReaperStep

LEMMA PollerTyped == Typed /\ PollerStep => Typed'
<1> SUFFICES ASSUME Typed, PollerStep PROVE Typed'
  OBVIOUS
<1> USE DEF Typed
<1>1. NotPolling \in Polls
  BY DEF NotPolling, Polls
<1>2. CASE StartPoll
  <2> DEFINE ports == [b \in Branches |->
                          IF row[b].state = "running" THEN row[b].port ELSE NoPort]
  <2>1. ports \in [Branches -> Ports \cup {NoPort}]
    BY DEF ProxyTyped, ProxyTypeOK, Rows
  <2>2. poll' = [NotPolling EXCEPT !.pc = "counting", !.ports = ports]
    BY <1>2 DEF StartPoll
  <2> HIDE DEF ports
  <2>3. poll' \in Polls
    BY <1>1, <2>1, <2>2 DEF Polls
  <2>4. QED
    BY <1>2, <2>3
    DEF StartPoll, ProxyTyped, ProxyTypeOK, LimiterTypeOK, SessionsNamed, Named,
        proxyVars, sessionVars, branchVars, PassTyped, Decided
<1>3. ASSUME NEW b \in Branches, PollOne(b) PROVE Typed'
  <2>1. poll' \in Polls
    <3>1. PICK n \in Nat : Counted(b, n)
      BY <1>3, CountTyped DEF PollOne
    <3>2. QED
      BY <3>1 DEF Counted, Polls
  <2>2. row' \in [Branches -> Rows]
    <3>1. row' = row \/ TouchLastConn(b)
      BY <1>3 DEF PollOne
    <3>2. QED
      BY <3>1, RowTyped DEF ProxyTyped, ProxyTypeOK
  <2>3. faults' \in 0..conf.maxFaults
    <3>1. faults' = faults \/ Breaks
      BY <1>3 DEF PollOne
    <3>2. QED
      BY <3>1, Config DEF ProxyTyped, ProxyTypeOK, Breaks
  <2>4. QED
    BY <1>3, <2>1, <2>2, <2>3
    DEF PollOne, ProxyTyped, ProxyTypeOK, LimiterTypeOK, SessionsNamed, Named,
        sessionVars, PassTyped, Decided
<1>4. CASE EndPoll
  BY <1>1, <1>4
  DEF EndPoll, Polls, ProxyTyped, ProxyTypeOK, LimiterTypeOK, SessionsNamed, Named,
      proxyVars, sessionVars, branchVars, PassTyped, Decided
<1>5. QED
  BY <1>2, <1>3, <1>4 DEF PollerStep

LEMMA ProxyStepTyped ==
    Typed /\ ProxyNext /\ UNCHANGED <<reap, poll, seen>> => Typed'
<1> SUFFICES ASSUME Typed, ProxyNext, UNCHANGED <<reap, poll, seen>> PROVE Typed'
  OBVIOUS
<1>1. conf.clients \subseteq Clients /\ conf.branches \subseteq Branches
  BY Config DEF Typed, ProxyTyped, ProxyTypeOK
<1>2. ProxyTyped'
  <2>1. CASE Tick
    BY <2>1, TickTyped DEF Typed
  <2>2. ASSUME NEW c \in conf.clients,
               ConnectMySQL(c) \/ ConnectPostgres(c) \/ Advance(c) \/ Hangup(c)
        PROVE  ProxyTyped'
    BY <1>1, <2>2, VerificationTyped, RoutingTyped, ConnectionTyped DEF Advance, Typed
  <2>3. ASSUME NEW b \in conf.branches,
               \/ ApiSleep(b) \/ ApiDelete(b) \/ ApiCreate(b) \/ Lease(b)
               \/ DirectConnect(b) \/ DirectClose(b) \/ EngineDies(b)
        PROVE  ProxyTyped'
    BY <1>1, <2>3, RequestsTyped DEF Typed
  <2>4. QED
    BY <2>1, <2>2, <2>3 DEF ProxyNext
<1>3. QED
  BY <1>2 DEF Typed, PassTyped, Decided

LEMMA InitTyped == Init => Typed
<1> SUFFICES ASSUME Init PROVE Typed
  OBVIOUS
<1> USE DEF Init
<1>1. conf \in Configs
  BY DEF ProxyInit
<1>2. NoRow \in Rows /\ \A p \in Ports : NewRow("running", p) \in Rows
  BY Constants DEF NoRow, NewRow, Rows, RowStates, NoLease
<1>3. row \in [Branches -> Rows]
  <2>1. PICK f \in [Branches -> Ports \cup {NoPort}] :
            /\ \A b \in Branches : f[b] = NoPort <=> b \notin conf.running
            /\ row = [b \in Branches |->
                  IF b \in conf.running THEN NewRow("running", f[b]) ELSE NoRow]
    BY DEF ProxyInit
  <2>2. QED
    BY <1>2, <2>1
<1>4. SessionsNamed
  <2>1. Closed \in Named
    BY Constants DEF Closed, Named, Sessions, Pcs, Keys
  <2>2. QED
    BY <2>1 DEF ProxyInit, SessionsNamed
<1>5. LimiterTypeOK
  BY Constants DEF ProxyInit, LimiterInit, LimiterTypeOK, NoEntry, Entries, CountCap
<1>6. reap \in Passes /\ Decided
  BY <1>2 DEF Resting, Passes, NoList, Decided
<1>7. poll \in Polls /\ seen \in [Branches -> Nat]
  BY DEF NotPolling, Polls
<1>8. faults \in 0..conf.maxFaults /\ conf.touchEvery \in 0..AgeCap
  BY <1>1, Config DEF ProxyInit
<1>9. freeFails \in [Sources -> 0..FreeCap] /\ conns \in [Branches -> 0..MaxConn]
  BY Constants DEF ProxyInit, FreeCap
<1>10. QED
  BY <1>1, <1>3, <1>4, <1>5, <1>6, <1>7, <1>8, <1>9, NamedTyped
  DEF ProxyInit, Typed, ProxyTyped, ProxyTypeOK, PassTyped

\* Every variable has its type, and who has got so far has named a branch.
LEMMA AlwaysTyped == Spec => []Typed
<1>1. Typed /\ [Next]_vars => Typed'
  <2> SUFFICES ASSUME Typed, [Next]_vars PROVE Typed'
    OBVIOUS
  <2>1. CASE UNCHANGED vars
    BY <2>1
    DEF vars, Typed, ProxyTyped, ProxyTypeOK, LimiterTypeOK, SessionsNamed, Named,
        proxyVars, sessionVars, branchVars, PassTyped, Decided
  <2>2. QED
    BY <2>1, ReaperTyped, PollerTyped, ProxyStepTyped DEF Next
<1>2. QED
  BY <1>1, InitTyped, PTL DEF Spec

\* Every variable of the sessions, the limiter and the two passes has its type.
THEOREM TypeCorrect == Spec => []TypeOK
<1>1. Typed => TypeOK
  BY DEF Typed, PassTyped, ProxyTyped, TypeOK
<1>2. QED
  BY <1>1, AlwaysTyped, PTL

-----------------------------------------------------------------------------
(***************************************************************************)
(* The invariant                                                           *)
(***************************************************************************)

VerifiedNow(k) == {c \in Clients : sess[c].key = k /\ InVerification(c)}
Holders(b)     == {c \in Clients : HoldsSlot(c, b)}
MayHaveKey(c)  == sess[c].pc \in {"answer", "pipe"} /\ conf.engine = "postgres"
WithKey        == {c \in Clients : MayHaveKey(c)}
FreeNow(k)     == {c \in Clients : sess[c].key = k /\ At(c, "wait") /\ sess[c].free}

\* Once a source is over the threshold nobody new is verified at once: who
\* still will be had read the penalty before, and holds a slot.
DelayFits(k) ==
    /\ freeFails[k] <= Threshold + MaxInFly
    /\ ~Forgotten(fails[k]) =>
          IF fails[k].count <= Threshold THEN freeFails[k] <= fails[k].count
          ELSE freeFails[k] + Cardinality(FreeNow(k)) <= Threshold + MaxInFly

Trusted == {"verified", "route", "again", "wake", "waking", "create", "creating",
            "poll", "acquire", "dial", "touch", "answer", "pipe"}
Located == {"wake", "waking", "creating", "poll", "acquire", "dial"}

\* Who has got past the verification knew the password; the port looked up is
\* still that of the branch, unless it was deleted; and so is the peer.
SessionFits(c) ==
    /\ sess[c].pc \in Trusted => sess[c].password = "right"
    /\ sess[c].pc \in Located /\ ~sess[c].gone =>
          sess[c].port # NoPort /\ row[sess[c].branch].port = sess[c].port
    /\ sess[c].peer # NoBranch =>
          /\ sess[c].pc \in {"touch", "answer", "pipe"}
          /\ sess[c].peer = sess[c].branch \/ sess[c].gone
    /\ sess[c].old => sess[c].peer # NoBranch

Quiet(b) == ~up[b] /\ direct[b] = "none" /\ \A c \in Clients : sess[c].peer # b

\* A row has a port, and nobody is connected to what sleeps or is no more.
BranchFits(b) ==
    /\ row[b].state = "absent" <=> row[b].port = NoPort
    /\ row[b].state \in {"absent", "sleeping"} => Quiet(b)

PortsDistinct ==
    \A x, y \in Branches : row[x].port = row[y].port /\ row[x].port # NoPort => x = y

\* Was there a connection to b when the reaper listed the rows, and is it still
\* there?
Old(b) == direct[b] = "old" \/ \E c \in Clients : sess[c].old /\ sess[c].peer = b

\* What the list says of a branch with such a connection is still true of its
\* port, it was not asleep, and no stop or deletion for idleness is meant for it.
ListFits(b) ==
    reap.pc # "idle" /\ reap.list[b].state # "absent" /\ Old(b) =>
        row[b].port = reap.list[b].port /\ reap.list[b].state # "sleeping"
PassFits ==
    /\ \A b \in Branches : ListFits(b)
    /\ reap.pc = "count" => reap.list[reap.branch].state # "absent"
    /\ reap.pc \in {"stop", "delete"} /\ reap.why = "idle" => ~Old(reap.branch)

\* Who creates or wakes a branch holds its lock, and its row stays.
LockFits(c) ==
    sess[c].pc \in {"waking", "creating"} =>
        lock[sess[c].branch] = c /\ row[sess[c].branch].state # "absent"

Delays   == \A k \in Sources : DelayFits(k)
Routes   == /\ \A c \in Clients : SessionFits(c) /\ LockFits(c)
            /\ \A b \in Branches : BranchFits(b)
            /\ PortsDistinct
-----------------------------------------------------------------------------
(***************************************************************************)
(* Slots                                                                   *)
(***************************************************************************)

\* A set in which one client alone may come or go is larger or smaller by
\* one, or the same.
LEMMA OneMoves ==
    ASSUME NEW S, NEW T, IsFiniteSet(S), NEW c, S \ {c} = T \ {c}
    PROVE  /\ (c \in S <=> c \in T) => T = S
           /\ c \notin S /\ c \in T => Cardinality(T) = Cardinality(S) + 1
           /\ c \in S /\ c \notin T => Cardinality(T) = Cardinality(S) - 1
<1>1. (c \in S <=> c \in T) => T = S
  OBVIOUS
<1>2. c \notin S /\ c \in T => T = S \cup {c}
  OBVIOUS
<1>3. c \in S /\ c \notin T => T = S \ {c}
  OBVIOUS
<1>4. QED
  BY <1>1, <1>2, <1>3, FS_AddElement, FS_RemoveElement

\* What the counters count is finite, as the clients are.
LEMMA SetsFinite ==
    /\ \A k : IsFiniteSet(VerifiedNow(k)) /\ IsFiniteSet(FreeNow(k))
    /\ \A b : IsFiniteSet(Holders(b))
BY Constants, FS_Subset DEF VerifiedNow, FreeNow, Holders

\* SlotsExact in the words of these sets.
LEMMA SlotsAre ==
    /\ SlotsExact <=>
          /\ \A k \in Sources : inflight[k] = Cardinality(VerifiedNow(k))
          /\ \A b \in Branches : conns[b] = Cardinality(Holders(b))
          /\ cancels \subseteq WithKey
    /\ SlotsExact' <=>
          /\ \A k \in Sources : inflight'[k] = Cardinality(VerifiedNow(k)')
          /\ \A b \in Branches : conns'[b] = Cardinality(Holders(b)')
          /\ cancels' \subseteq WithKey'
BY DEF SlotsExact, VerifiedNow, Holders, WithKey, MayHaveKey

OnlyMoves(c) == \A d \in Clients \ {c} : sess'[d] = sess[d]

\* One session enters or leaves the verification, or neither.
LEMMA VerifiedMove ==
    ASSUME Typed, SlotsExact, NEW c \in Clients, OnlyMoves(c), sess'[c].key \in Keys,
           \/ /\ UNCHANGED inflight
              /\ InVerification(c)' <=> InVerification(c)
              /\ InVerification(c) => sess'[c].key = sess[c].key
           \/ ~InVerification(c) /\ InVerification(c)' /\ Acquire(sess'[c].key)
           \/ InVerification(c) /\ ~InVerification(c)' /\ SlotReturned(sess[c].key)
    PROVE  \A k \in Sources : inflight'[k] = Cardinality(VerifiedNow(k)')
<1> TAKE k \in Sources
<1>1. inflight[k] = Cardinality(VerifiedNow(k)) /\ inflight[k] \in Nat
  BY SlotsAre, Constants DEF Typed, ProxyTyped, ProxyTypeOK, LimiterTypeOK
<1>2. VerifiedNow(k) \ {c} = VerifiedNow(k)' \ {c}
  BY DEF VerifiedNow, InVerification, OnlyMoves
<1>3. /\ c \in VerifiedNow(k) <=> sess[c].key = k /\ InVerification(c)
      /\ c \in VerifiedNow(k)' <=> sess'[c].key = k /\ InVerification(c)'
  BY DEF VerifiedNow
<1>4. k # NoSource
  BY Constants
<1>5. inflight \in [Sources -> 0..MaxInFly]
  BY DEF Typed, ProxyTyped, ProxyTypeOK, LimiterTypeOK
<1>6. CASE /\ UNCHANGED inflight
           /\ InVerification(c)' <=> InVerification(c)
           /\ InVerification(c) => sess'[c].key = sess[c].key
  <2>1. c \in VerifiedNow(k) <=> c \in VerifiedNow(k)'
    BY <1>3, <1>6
  <2>2. VerifiedNow(k)' = VerifiedNow(k)
    BY <1>2, <2>1, OneMoves, SetsFinite
  <2>3. QED
    BY <1>1, <1>6, <2>2
<1>7. CASE ~InVerification(c) /\ InVerification(c)' /\ Acquire(sess'[c].key)
  <2>1. CASE sess'[c].key = k
    <3>1. inflight'[k] = inflight[k] + 1
      BY <1>4, <1>5, <1>7, <2>1 DEF Acquire
    <3>2. Cardinality(VerifiedNow(k)') = Cardinality(VerifiedNow(k)) + 1
      BY <1>2, <1>3, <1>7, <2>1, OneMoves, SetsFinite
    <3>3. QED
      BY <1>1, <3>1, <3>2
  <2>2. CASE sess'[c].key # k
    <3>1. inflight'[k] = inflight[k]
      BY <1>5, <1>7, <2>2 DEF Acquire
    <3>2. VerifiedNow(k)' = VerifiedNow(k)
      BY <1>2, <1>3, <1>7, <2>2, OneMoves, SetsFinite
    <3>3. QED
      BY <1>1, <3>1, <3>2
  <2>3. QED
    BY <2>1, <2>2
<1>8. CASE InVerification(c) /\ ~InVerification(c)' /\ SlotReturned(sess[c].key)
  <2>1. CASE sess[c].key = k
    <3>1. Cardinality(VerifiedNow(k)') = Cardinality(VerifiedNow(k)) - 1
      BY <1>2, <1>3, <1>8, <2>1, OneMoves, SetsFinite
    <3>2. VerifiedNow(k) # {}
      BY <1>3, <1>8, <2>1
    <3>3. inflight[k] # 0
      BY <1>1, <3>2, SetsFinite, FS_EmptySet
    <3>4. inflight'[k] = inflight[k] - 1
      BY <1>4, <1>5, <1>8, <2>1, <3>3 DEF SlotReturned
    <3>5. QED
      BY <1>1, <3>1, <3>4
  <2>2. CASE sess[c].key # k
    <3>1. inflight'[k] = inflight[k]
      BY <1>5, <1>8, <2>2 DEF SlotReturned
    <3>2. VerifiedNow(k)' = VerifiedNow(k)
      BY <1>2, <1>3, <1>8, <2>2, OneMoves, SetsFinite
    <3>3. QED
      BY <1>1, <3>1, <3>2
  <2>3. QED
    BY <2>1, <2>2
<1>9. QED
  BY <1>6, <1>7, <1>8

InSlot(c) == sess[c].pc \in {"dial", "touch", "answer", "pipe"}

\* One session takes or gives back a slot of its branch, or neither.
LEMMA HoldersMove ==
    ASSUME Typed, SlotsExact, NEW c \in Clients, OnlyMoves(c),
           \/ /\ UNCHANGED conns
              /\ InSlot(c)' <=> InSlot(c)
              /\ InSlot(c) => sess'[c].branch = sess[c].branch
           \/ /\ ~InSlot(c) /\ InSlot(c)' /\ sess'[c].branch = sess[c].branch
              /\ conns' = [conns EXCEPT ![sess[c].branch] = @ + 1]
           \/ InSlot(c) /\ ReleaseSession(c)
    PROVE  \A b \in Branches : conns'[b] = Cardinality(Holders(b)')
<1> TAKE b \in Branches
<1>1. conns[b] = Cardinality(Holders(b)) /\ conns[b] \in Nat
  BY SlotsAre, Constants DEF Typed, ProxyTyped, ProxyTypeOK
<1>2. Holders(b) \ {c} = Holders(b)' \ {c}
  BY DEF Holders, HoldsSlot, OnlyMoves
<1>3. /\ c \in Holders(b) <=> sess[c].branch = b /\ InSlot(c)
      /\ c \in Holders(b)' <=> sess'[c].branch = b /\ InSlot(c)'
  BY DEF Holders, HoldsSlot, InSlot
<1>5. conns \in [Branches -> 0..MaxConn] /\ sess \in [Clients -> Named]
  BY DEF Typed, ProxyTyped, ProxyTypeOK, SessionsNamed
<1>6. CASE /\ UNCHANGED conns
           /\ InSlot(c)' <=> InSlot(c)
           /\ InSlot(c) => sess'[c].branch = sess[c].branch
  <2>1. Holders(b)' = Holders(b)
    BY <1>2, <1>3, <1>6, OneMoves, SetsFinite
  <2>2. QED
    BY <1>1, <1>6, <2>1
<1>7. CASE /\ ~InSlot(c) /\ InSlot(c)' /\ sess'[c].branch = sess[c].branch
           /\ conns' = [conns EXCEPT ![sess[c].branch] = @ + 1]
  <2>1. CASE sess[c].branch = b
    <3>1. conns'[b] = conns[b] + 1
      BY <1>5, <1>7, <2>1
    <3>2. Cardinality(Holders(b)') = Cardinality(Holders(b)) + 1
      BY <1>2, <1>3, <1>7, <2>1, OneMoves, SetsFinite
    <3>3. QED
      BY <1>1, <3>1, <3>2
  <2>2. CASE sess[c].branch # b
    <3>1. conns'[b] = conns[b]
      BY <1>5, <1>7, <2>2
    <3>2. Holders(b)' = Holders(b)
      BY <1>2, <1>3, <1>7, <2>2, OneMoves, SetsFinite
    <3>3. QED
      BY <1>1, <3>1, <3>2
  <2>3. QED
    BY <2>1, <2>2
<1>8. CASE InSlot(c) /\ ReleaseSession(c)
  <2>0. ~InSlot(c)'
    BY <1>5, <1>8 DEF ReleaseSession, Leave, Closed, InSlot
  <2>1. CASE sess[c].branch = b
    <3>1. Cardinality(Holders(b)') = Cardinality(Holders(b)) - 1
      BY <1>2, <1>3, <1>8, <2>0, <2>1, OneMoves, SetsFinite
    <3>2. Holders(b) # {}
      BY <1>3, <1>8, <2>1
    <3>3. conns[b] > 0
      BY <1>1, <3>2, SetsFinite, FS_EmptySet
    <3>4. conns'[b] = conns[b] - 1
      BY <1>5, <1>8, <2>1, <3>3 DEF ReleaseSession
    <3>5. QED
      BY <1>1, <3>1, <3>4
  <2>2. CASE sess[c].branch # b
    <3>1. conns'[b] = conns[b]
      BY <1>5, <1>8, <2>2 DEF ReleaseSession
    <3>2. Holders(b)' = Holders(b)
      BY <1>2, <1>3, <1>8, <2>0, <2>2, OneMoves, SetsFinite
    <3>3. QED
      BY <1>1, <3>1, <3>2
  <2>3. QED
    BY <2>1, <2>2
<1>9. QED
  BY <1>6, <1>7, <1>8

\* The keys of the others stay where they were.
LEMMA CancelsMove ==
    ASSUME SlotsExact, NEW c \in Clients, OnlyMoves(c), UNCHANGED conf,
           cancels' \ {c} = cancels \ {c},
           c \in cancels' => MayHaveKey(c)'
    PROVE  cancels' \subseteq WithKey'
<1>1. cancels \subseteq WithKey
  BY SlotsAre
<1>2. ASSUME NEW d \in cancels', d # c PROVE d \in WithKey'
  BY <1>1, <1>2 DEF WithKey, MayHaveKey, OnlyMoves
<1>3. c \in cancels' => c \in WithKey'
  BY DEF WithKey
<1>4. QED
  BY <1>2, <1>3

\* Steps that leave every session where it is.
LEMMA SlotsKept ==
    ASSUME SlotsExact, UNCHANGED <<conf, inflight, conns, cancels>>,
           \A c \in Clients : /\ sess'[c].pc = sess[c].pc /\ sess'[c].key = sess[c].key
                              /\ sess'[c].branch = sess[c].branch
    PROVE  SlotsExact'
<1>1. /\ \A k : VerifiedNow(k)' = VerifiedNow(k)
      /\ \A b : Holders(b)' = Holders(b)
      /\ WithKey' = WithKey
  BY DEF VerifiedNow, Holders, WithKey, MayHaveKey, InVerification, HoldsSlot, At
<1>2. QED
  BY <1>1, SlotsAre

Connects(c) == c \in conf.clients /\ (ConnectMySQL(c) \/ ConnectPostgres(c))
SessionStep(c) == Connects(c) \/ Advance(c) \/ Hangup(c)

\* A step of one session moves no other.
LEMMA OthersStay ==
    ASSUME Typed, NEW c \in Clients, SessionStep(c)
    PROVE  OnlyMoves(c) /\ UNCHANGED conf
<1>1. sess \in [Clients -> Named]
  BY DEF Typed, ProxyTyped, SessionsNamed
<1>2. CASE Connects(c)
  BY <1>1, <1>2 DEF Connects, ConnectMySQL, ConnectPostgres, Admitted, OnlyMoves
<1>3. CASE ReadPenalty(c) \/ VerifyMySQL(c) \/ VerifyPostgres(c) \/ ReturnSlot(c)
  BY <1>1, <1>3
  DEF ReadPenalty, VerifyMySQL, VerifyPostgres, ReturnSlot, Verified, Mismatch, Goto,
      Leave, OnlyMoves
<1>4. CASE Route(c) \/ LazyCreate(c) \/ Wake(c) \/ Provisioned(c) \/ WaitRunning(c)
  BY <1>1, <1>4
  DEF Route, LazyCreate, Wake, Provisioned, WaitRunning, Goto, Leave, OnlyMoves
<1>5. CASE TakeSlot(c) \/ Dial(c) \/ Touch(c) \/ AnswerMySQL(c) \/ ForwardKey(c)
            \/ ForwardStartup(c) \/ Hangup(c)
  BY <1>1, <1>5
  DEF TakeSlot, Dial, Touch, AnswerMySQL, ForwardKey, ForwardStartup, GivenUp, Hangup,
      ReleaseSession, Goto, Leave, OnlyMoves
<1>6. QED
  BY <1>2, <1>3, <1>4, <1>5 DEF SessionStep, Advance

\* What a step writes of its session.
SameName(c)   == /\ sess'[c].branch = sess[c].branch /\ sess'[c].key = sess[c].key
                 /\ sess'[c].password = sess[c].password
SameClient(c) == /\ sess'[c].branch = sess[c].branch /\ sess'[c].key = sess[c].key
                 /\ sess'[c].password = sess[c].password
                 /\ sess'[c].old = sess[c].old
SameFree(c)   == sess'[c].free = sess[c].free
SamePeer(c)   == sess'[c].peer = sess[c].peer
Finds(c, pc, p) == sess' = [sess EXCEPT ![c].pc = pc, ![c].port = p, ![c].gone = FALSE]
Waits(c, w, f) == sess' = [sess EXCEPT ![c].pc = "wait", ![c].wait = w, ![c].free = f]
SamePort(c)   == sess'[c].port = sess[c].port /\ sess'[c].gone = sess[c].gone

\* What the helpers write into the session, and what they leave.
LEMMA Writes ==
    ASSUME Typed, NEW c \in Clients, NEW pc
    PROVE  /\ Goto(c, pc) => At(c, pc)' /\ SameClient(c) /\ SamePeer(c) /\ SamePort(c)
                             /\ SameFree(c)
           /\ Leave(c) => sess'[c] = Closed
           /\ \A p : Finds(c, pc, p) =>
                 /\ At(c, pc)' /\ SameClient(c) /\ SamePeer(c)
                 /\ sess'[c].port = p /\ ~sess'[c].gone
           /\ \A w, f : Waits(c, w, f) =>
                 /\ At(c, "wait")' /\ SameClient(c) /\ SamePeer(c) /\ SamePort(c)
                 /\ sess'[c].free = f
           /\ \A x : sess' = [sess EXCEPT ![c].pc = pc, ![c].peer = x]
                 => /\ At(c, pc)' /\ SameClient(c) /\ SamePort(c)
                    /\ sess'[c].peer = x
           /\ GivenUp(c) => /\ At(c, "pipe")' /\ SameName(c) /\ SamePort(c)
                            /\ sess'[c].peer = NoBranch /\ ~sess'[c].old
<1>1. sess \in [Clients -> Sessions]
  BY NamedTyped DEF Typed, ProxyTyped
<1> USE DEF At, SameName, SameClient, SamePeer, SamePort, SameFree, Sessions
<1>2. Goto(c, pc) => At(c, pc)' /\ SameClient(c) /\ SamePeer(c) /\ SamePort(c)
                     /\ SameFree(c)
  BY <1>1 DEF Goto
<1>3. Leave(c) => sess'[c] = Closed
  BY <1>1 DEF Leave
<1>4. \A p : Finds(c, pc, p) =>
         /\ At(c, pc)' /\ SameClient(c) /\ SamePeer(c)
         /\ sess'[c].port = p /\ ~sess'[c].gone
  BY <1>1 DEF Finds
<1>5. \A w, f : Waits(c, w, f) =>
         /\ At(c, "wait")' /\ SameClient(c) /\ SamePeer(c) /\ SamePort(c)
         /\ sess'[c].free = f
  BY <1>1 DEF Waits
<1>6. \A x : sess' = [sess EXCEPT ![c].pc = pc, ![c].peer = x]
         => /\ At(c, pc)' /\ SameClient(c) /\ SamePort(c)
            /\ sess'[c].peer = x
  BY <1>1
<1>7. GivenUp(c) => /\ At(c, "pipe")' /\ SameName(c) /\ SamePort(c)
                    /\ sess'[c].peer = NoBranch /\ ~sess'[c].old
  BY <1>1 DEF GivenUp
<1>8. QED
  BY <1>2, <1>3, <1>4, <1>5, <1>6, <1>7

\* Before the verification, or between it and the slot of the branch.
Outside == {"closed", "route", "again", "wake", "waking", "create", "creating", "poll",
            "acquire"}

\* From where to where the steps go.
LEMMA Hops ==
    ASSUME Typed, NEW c \in Clients
    PROVE  /\ Connects(c) =>
                 /\ At(c, "closed") /\ At(c, "slot")' /\ Acquire(sess'[c].key)
                 /\ UNCHANGED <<conns, cancels>>
           /\ ReadPenalty(c) \/ VerifyMySQL(c) \/ VerifyPostgres(c) =>
                 /\ InVerification(c) /\ InVerification(c)'
                 /\ sess'[c].key = sess[c].key
                 /\ UNCHANGED <<inflight, conns, cancels>>
           /\ ReturnSlot(c) =>
                 /\ sess[c].pc \in {"verified", "refused"} /\ sess'[c].pc \in Outside
                 /\ SlotReturned(sess[c].key)
                 /\ UNCHANGED <<conns, cancels>>
           /\ Route(c) \/ LazyCreate(c) \/ Wake(c) \/ Provisioned(c) \/ WaitRunning(c) =>
                 /\ sess[c].pc \in Outside /\ sess'[c].pc \in Outside
                 /\ UNCHANGED <<inflight, conns, cancels>>
           /\ TakeSlot(c) =>
                 /\ At(c, "acquire") /\ UNCHANGED <<inflight, cancels>>
                 /\ \/ sess'[c] = Closed /\ UNCHANGED conns
                    \/ /\ At(c, "dial")' /\ SameClient(c)
                       /\ conns' = [conns EXCEPT ![sess[c].branch] = @ + 1]
           /\ Dial(c) \/ Touch(c) =>
                 /\ At(c, "dial") \/ At(c, "touch")
                 /\ UNCHANGED inflight
                 /\ \/ ReleaseSession(c)
                    \/ /\ At(c, "touch")' \/ At(c, "answer")'
                       /\ SameClient(c) /\ UNCHANGED <<conns, cancels>>
           /\ AnswerMySQL(c) =>
                 /\ At(c, "answer") /\ At(c, "pipe")' /\ SameClient(c)
                 /\ conf.engine = "mysql" /\ UNCHANGED <<inflight, conns, cancels>>
           /\ ForwardKey(c) =>
                 /\ At(c, "answer") /\ conf.engine = "postgres"
                 /\ UNCHANGED <<inflight, sess, conns>>
                 /\ cancels' = cancels \cup {c}
           /\ ForwardStartup(c) =>
                 /\ At(c, "answer") /\ conf.engine = "postgres" /\ UNCHANGED inflight
                 /\ \/ ReleaseSession(c)
                    \/ /\ At(c, "pipe")' /\ SameName(c)
                       /\ UNCHANGED <<conns, cancels>>
<1>1. sess \in [Clients -> Named]
  BY DEF Typed, ProxyTyped, SessionsNamed
<1>2. Connects(c) => /\ At(c, "closed") /\ At(c, "slot")' /\ Acquire(sess'[c].key)
                     /\ UNCHANGED <<conns, cancels>>
  BY <1>1 DEF Connects, ConnectMySQL, ConnectPostgres, Admitted, At, Closed
<1>3. ReadPenalty(c) \/ VerifyMySQL(c) \/ VerifyPostgres(c) =>
          /\ InVerification(c) /\ InVerification(c)' /\ sess'[c].key = sess[c].key
          /\ UNCHANGED <<inflight, conns, cancels>>
  <2>1. ASSUME ReadPenalty(c) PROVE At(c, "wait")' /\ SameClient(c)
    <3> DEFINE w == Penalty(sess[c].key)
               f == w = 0
    <3>1. Waits(c, w, f)
      BY <2>1 DEF ReadPenalty, Waits
    <3> HIDE DEF w, f
    <3>2. QED
      BY <3>1, Writes
  <2>2. VerifyMySQL(c) \/ VerifyPostgres(c) =>
            (At(c, "verified")' \/ At(c, "refused")') /\ SameClient(c)
    BY Writes DEF VerifyMySQL, VerifyPostgres, Verified, Mismatch
  <2>3. QED
    BY <2>1, <2>2
    DEF ReadPenalty, VerifyMySQL, VerifyPostgres, At, InVerification, SameClient
<1>4. ReturnSlot(c) =>
          /\ sess[c].pc \in {"verified", "refused"} /\ sess'[c].pc \in Outside
          /\ SlotReturned(sess[c].key) /\ UNCHANGED <<conns, cancels>>
  <2>1. ReturnSlot(c) => At(c, "route")' \/ sess'[c] = Closed
    BY Writes DEF ReturnSlot
  <2>2. QED
    BY <2>1 DEF ReturnSlot, At, Closed, Outside
<1>5. Route(c) \/ LazyCreate(c) \/ Wake(c) \/ Provisioned(c) \/ WaitRunning(c) =>
          /\ sess[c].pc \in Outside /\ sess'[c].pc \in Outside
          /\ UNCHANGED <<inflight, conns, cancels>>
  <2> DEFINE to(pc) == At(c, pc)'
  <2>1. Route(c) => \/ to("acquire") \/ to("wake") \/ to("poll") \/ to("create")
                    \/ sess'[c] = Closed
    <3> DEFINE p == row[sess[c].branch].port
    <3>1. Route(c) => \/ Finds(c, "acquire", p) \/ Finds(c, "wake", p)
                      \/ Finds(c, "poll", p) \/ Goto(c, "create") \/ Leave(c)
      BY DEF Route, Finds
    <3> HIDE DEF p
    <3>2. QED
      BY <3>1, Writes
  <2>2. LazyCreate(c) => to("again") \/ to("creating") \/ sess'[c] = Closed
    <3>1. LazyCreate(c) =>
              \/ Goto(c, "again") \/ (\E p \in Ports : Finds(c, "creating", p))
              \/ Leave(c)
      BY DEF LazyCreate, Finds
    <3>2. QED
      BY <3>1, Writes
  <2>3. Wake(c) => to("waking") \/ to("acquire") \/ sess'[c] = Closed
    BY Writes DEF Wake
  <2>4. Provisioned(c) \/ WaitRunning(c) => to("acquire") \/ sess'[c] = Closed
    <3> DEFINE p == row[sess[c].branch].port
    <3>1. Provisioned(c) => Goto(c, "acquire") \/ Leave(c)
      BY DEF Provisioned
    <3>2. WaitRunning(c) => Finds(c, "acquire", p) \/ Leave(c)
      BY DEF WaitRunning, Finds
    <3> HIDE DEF p
    <3>3. QED
      BY <3>1, <3>2, Writes
  <2>5. Route(c) \/ LazyCreate(c) \/ Wake(c) \/ Provisioned(c) \/ WaitRunning(c) =>
            sess'[c].pc \in Outside
    BY <2>1, <2>2, <2>3, <2>4 DEF At, Closed, Outside
  <2>6. QED
    BY <2>5 DEF Route, LazyCreate, Wake, Provisioned, WaitRunning, At, Outside
<1>6. TakeSlot(c) =>
          /\ At(c, "acquire") /\ UNCHANGED <<inflight, cancels>>
          /\ \/ sess'[c] = Closed /\ UNCHANGED conns
             \/ /\ At(c, "dial")' /\ SameClient(c)
                /\ conns' = [conns EXCEPT ![sess[c].branch] = @ + 1]
  BY Writes DEF TakeSlot
<1>7. Dial(c) \/ Touch(c) =>
          /\ At(c, "dial") \/ At(c, "touch")
          /\ UNCHANGED inflight
          /\ \/ ReleaseSession(c)
             \/ /\ At(c, "touch")' \/ At(c, "answer")'
                /\ SameClient(c) /\ UNCHANGED <<conns, cancels>>
  BY Writes DEF Dial, Touch
<1>8. AnswerMySQL(c) =>
          /\ At(c, "answer") /\ At(c, "pipe")' /\ SameClient(c)
          /\ conf.engine = "mysql" /\ UNCHANGED <<inflight, conns, cancels>>
  BY Writes DEF AnswerMySQL
<1>9. ForwardKey(c) =>
          /\ At(c, "answer") /\ conf.engine = "postgres"
          /\ UNCHANGED <<inflight, sess, conns>> /\ cancels' = cancels \cup {c}
  BY DEF ForwardKey
<1>10. ForwardStartup(c) =>
          /\ At(c, "answer") /\ conf.engine = "postgres" /\ UNCHANGED inflight
          /\ \/ ReleaseSession(c)
             \/ At(c, "pipe")' /\ SameName(c) /\ UNCHANGED <<conns, cancels>>
  BY Writes DEF ForwardStartup, SameClient, SameName
<1>11. QED
  BY <1>2, <1>3, <1>4, <1>5, <1>6, <1>7, <1>8, <1>9, <1>10

\* The counters follow each step of a session.
LEMMA SessionSlots ==
    ASSUME Typed, Typed', SlotsExact, NEW c \in Clients, SessionStep(c)
    PROVE  SlotsExact'
<1>0. /\ OnlyMoves(c) /\ UNCHANGED conf /\ sess'[c].key \in Keys
      /\ sess \in [Clients -> Named]
      /\ c \in cancels => MayHaveKey(c)
  BY OthersStay, SlotsAre
  DEF Typed, ProxyTyped, ProxyTypeOK, SessionsNamed, Sessions, WithKey
<1>1. CASE Connects(c) \/ ReturnSlot(c)
  <2>1. /\ ~InSlot(c) /\ ~InSlot(c)' /\ ~MayHaveKey(c)
        /\ UNCHANGED <<conns, cancels>>
        /\ \/ ~InVerification(c) /\ InVerification(c)' /\ Acquire(sess'[c].key)
           \/ InVerification(c) /\ ~InVerification(c)' /\ SlotReturned(sess[c].key)
    BY <1>1, Hops DEF InSlot, At, InVerification, MayHaveKey, Outside
  <2>2. QED
    BY <1>0, <2>1, VerifiedMove, HoldersMove, CancelsMove, SlotsAre
<1>2. CASE \/ ReadPenalty(c) \/ VerifyMySQL(c) \/ VerifyPostgres(c)
           \/ Route(c) \/ LazyCreate(c) \/ Wake(c) \/ Provisioned(c) \/ WaitRunning(c)
  <2>1. /\ ~InSlot(c) /\ ~InSlot(c)' /\ ~MayHaveKey(c)
        /\ UNCHANGED <<inflight, conns, cancels>>
        /\ InVerification(c)' <=> InVerification(c)
        /\ InVerification(c) => sess'[c].key = sess[c].key
    BY <1>2, Hops DEF InSlot, At, InVerification, MayHaveKey, Outside
  <2>2. QED
    BY <1>0, <2>1, VerifiedMove, HoldersMove, CancelsMove, SlotsAre
<1>3. ASSUME ReleaseSession(c), InSlot(c), UNCHANGED inflight PROVE SlotsExact'
  <2>1. /\ ~InVerification(c) /\ ~InVerification(c)'
        /\ cancels' = cancels \ {c}
    BY <1>0, <1>3 DEF ReleaseSession, Leave, Closed, InSlot, InVerification, At
  <2>2. QED
    BY <1>0, <1>3, <2>1, VerifiedMove, HoldersMove, CancelsMove, SlotsAre
<1>4. CASE TakeSlot(c)
  <2>1. /\ ~InVerification(c) /\ ~InVerification(c)' /\ ~MayHaveKey(c)
        /\ UNCHANGED <<inflight, cancels>>
        /\ \/ ~InSlot(c) /\ ~InSlot(c)' /\ UNCHANGED conns
           \/ /\ ~InSlot(c) /\ InSlot(c)' /\ sess'[c].branch = sess[c].branch
              /\ conns' = [conns EXCEPT ![sess[c].branch] = @ + 1]
    BY <1>4, Hops DEF Closed, InSlot, InVerification, MayHaveKey, At, SameClient
  <2>2. QED
    BY <1>0, <2>1, VerifiedMove, HoldersMove, CancelsMove, SlotsAre
<1>5. CASE Hangup(c)
  BY <1>3, <1>5 DEF Hangup, InSlot
<1>6. CASE Dial(c) \/ Touch(c)
  <2>1. CASE ReleaseSession(c)
    BY <1>3, <1>6, <2>1, Hops DEF InSlot, At
  <2>2. CASE ~ReleaseSession(c)
    <3>1. /\ ~InVerification(c) /\ ~InVerification(c)' /\ ~MayHaveKey(c)
          /\ UNCHANGED <<inflight, cancels, conns>>
          /\ InSlot(c) /\ InSlot(c)' /\ sess'[c].branch = sess[c].branch
      BY <1>6, <2>2, Hops DEF InSlot, InVerification, MayHaveKey, At, SameClient
    <3>2. QED
      BY <1>0, <3>1, VerifiedMove, HoldersMove, CancelsMove, SlotsAre
  <2>3. QED
    BY <2>1, <2>2
<1>7. CASE AnswerMySQL(c)
  <2>1. /\ ~InVerification(c) /\ ~InVerification(c)' /\ ~MayHaveKey(c)
        /\ UNCHANGED <<inflight, cancels, conns>>
        /\ InSlot(c) /\ InSlot(c)' /\ sess'[c].branch = sess[c].branch
    BY <1>7, Hops DEF InSlot, InVerification, MayHaveKey, At, SameClient
  <2>2. QED
    BY <1>0, <2>1, VerifiedMove, HoldersMove, CancelsMove, SlotsAre
<1>8. CASE ForwardStartup(c)
  <2>1. CASE ReleaseSession(c)
    BY <1>3, <1>8, <2>1, Hops DEF InSlot, At
  <2>2. CASE ~ReleaseSession(c)
    <3>1. /\ ~InVerification(c) /\ ~InVerification(c)' /\ MayHaveKey(c)'
          /\ UNCHANGED <<inflight, conns, cancels>>
          /\ InSlot(c) /\ InSlot(c)' /\ sess'[c].branch = sess[c].branch
      BY <1>0, <1>8, <2>2, Hops DEF InSlot, InVerification, MayHaveKey, At, SameName
    <3>2. QED
      BY <1>0, <3>1, VerifiedMove, HoldersMove, CancelsMove, SlotsAre
  <2>3. QED
    BY <2>1, <2>2
<1>9. CASE ForwardKey(c)
  <2>1. /\ UNCHANGED <<inflight, conns, sess>> /\ cancels' = cancels \cup {c}
        /\ MayHaveKey(c)' /\ ~InVerification(c) /\ ~InVerification(c)'
        /\ InSlot(c) /\ InSlot(c)' /\ sess'[c].branch = sess[c].branch
    BY <1>0, <1>9, Hops DEF InSlot, InVerification, MayHaveKey, At
  <2>2. QED
    BY <1>0, <2>1, VerifiedMove, HoldersMove, CancelsMove, SlotsAre
<1>10. QED
  BY <1>1, <1>2, <1>4, <1>5, <1>6, <1>7, <1>8, <1>9 DEF SessionStep, Advance

\* Everything that is no step of a session.
Asked(b) == \/ ApiSleep(b) \/ ApiDelete(b) \/ ApiCreate(b) \/ Lease(b)
            \/ DirectConnect(b) \/ DirectClose(b) \/ EngineDies(b)
Environment == \/ (Tick \/ \E b \in Branches : Asked(b)) /\ UNCHANGED <<reap, poll, seen>>
               \/ ReaperStep \/ PollerStep \/ UNCHANGED vars

\* A step is one of a session or one of its environment.
LEMMA StepsSplit ==
    ASSUME Typed, [Next]_vars
    PROVE  \/ Environment
           \/ \E c \in Clients : SessionStep(c) /\ UNCHANGED <<reap, poll, seen>>
<1>1. conf.clients \subseteq Clients /\ conf.branches \subseteq Branches
  BY Config DEF Typed, ProxyTyped, ProxyTypeOK
<1>2. QED
  BY <1>1 DEF Next, ProxyNext, Environment, Asked, SessionStep, Connects

\* What such a step leaves of a session: it may cut its peer off, and say that
\* its branch is gone.
Remains(c) ==
    /\ sess'[c].pc = sess[c].pc /\ sess'[c].key = sess[c].key
    /\ sess'[c].branch = sess[c].branch /\ sess'[c].password = sess[c].password
    /\ sess'[c].port = sess[c].port /\ sess'[c].free = sess[c].free
    /\ sess[c].gone => sess'[c].gone
    /\ sess'[c].peer = sess[c].peer \/ sess'[c].peer = NoBranch

\* The end of an engine moves no session,
LEMMA CutRemains ==
    ASSUME Typed, NEW x, NEW c \in Clients,
           \/ sess' = Cut(x)
           \/ sess' = [d \in Clients |->
                  IF sess[d].branch = x THEN [Cut(x)[d] EXCEPT !.gone = TRUE]
                  ELSE Cut(x)[d]]
    PROVE  Remains(c)
<1>1. sess[c] \in Sessions
  BY NamedTyped DEF Typed, ProxyTyped
<1>2. CASE sess' = Cut(x)
  BY <1>1, <1>2 DEF Cut, Remains, Sessions
<1>3. CASE sess' = [d \in Clients |->
                  IF sess[d].branch = x THEN [Cut(x)[d] EXCEPT !.gone = TRUE]
                  ELSE Cut(x)[d]]
  <2> DEFINE m == Cut(x)[c]
  <2>1. /\ m \in Sessions
        /\ m.pc = sess[c].pc /\ m.key = sess[c].key /\ m.branch = sess[c].branch
        /\ m.password = sess[c].password /\ m.port = sess[c].port
        /\ m.free = sess[c].free /\ m.gone = sess[c].gone
        /\ m.peer = sess[c].peer \/ m.peer = NoBranch
    BY <1>1 DEF Cut, Sessions
  <2>2. sess'[c] = m \/ sess'[c] = [m EXCEPT !.gone = TRUE]
    BY <1>3
  <2> HIDE DEF m
  <2>3. QED
    BY <2>1, <2>2 DEF Remains, Sessions
<1>4. QED
  BY <1>2, <1>3

\* and nothing else around the sessions does.
LEMMA EnvironmentRemains ==
    ASSUME Typed, Environment
    PROVE  /\ UNCHANGED <<conf, inflight, conns, cancels, freeFails>>
           /\ \A c \in Clients : Remains(c)
<1> DEFINE S == UNCHANGED <<conf, inflight, conns, cancels, freeFails>>
<1>1. \A c \in Clients : sess[c] \in Sessions
  BY NamedTyped DEF Typed, ProxyTyped
<1>2. UNCHANGED sess => \A c \in Clients : Remains(c)
  BY DEF Remains
<1>3. ASSUME NEW b, SleepBody(b) \/ DeleteBody(b) PROVE \A c \in Clients : Remains(c)
  BY <1>3, CutRemains DEF SleepBody, DeleteBody
<1>4. CASE Tick
  BY <1>1, <1>4 DEF Tick, Remains, Sessions
<1>5. CASE \E b \in Branches : Asked(b)
  <2>1. PICK b \in Branches : Asked(b)
    BY <1>5
  <2>2. CASE ApiSleep(b) \/ ApiDelete(b)
    BY <1>3, <2>2 DEF ApiSleep, ApiDelete
  <2>3. CASE EngineDies(b)
    BY <2>3, CutRemains DEF EngineDies
  <2>4. CASE ApiCreate(b) \/ Lease(b) \/ DirectConnect(b) \/ DirectClose(b)
    BY <1>2, <2>4 DEF ApiCreate, Lease, DirectConnect, DirectClose, sessionVars
  <2>5. QED
    BY <2>1, <2>2, <2>3, <2>4 DEF Asked
<1>6. CASE ReaperStep
  <2>1. CASE StartReap
    BY <1>1, <2>1 DEF StartReap, Remains, Sessions
  <2>2. CASE ReapLook \/ EndReap \/ ReapCount
    BY <1>2, <2>2 DEF ReapLook, EndReap, ReapCount, proxyVars, sessionVars
  <2>3. CASE ReapStop \/ ReapDelete
    BY <1>2, <1>3, <2>3 DEF ReapStop, ReapDelete
  <2>4. QED
    BY <1>6, <2>1, <2>2, <2>3 DEF ReaperStep
<1>7. CASE PollerStep
  BY <1>2, <1>7 DEF PollerStep, StartPoll, PollOne, EndPoll, proxyVars, sessionVars
<1>8. CASE UNCHANGED vars
  BY <1>2, <1>8 DEF vars, proxyVars, sessionVars
<1>9. QED
  BY <1>4, <1>5, <1>6, <1>7, <1>8 DEF Environment

\* The counters stay exact.
LEMMA SlotsNext ==
    ASSUME Typed, Typed', SlotsExact, [Next]_vars
    PROVE  SlotsExact'
<1>1. CASE Environment
  <2>1. \A c \in Clients : /\ sess'[c].pc = sess[c].pc /\ sess'[c].key = sess[c].key
                           /\ sess'[c].branch = sess[c].branch
    BY <1>1, EnvironmentRemains DEF Remains
  <2>2. QED
    BY <1>1, <2>1, EnvironmentRemains, SlotsKept
<1>2. QED
  BY <1>1, StepsSplit, SessionSlots

\* They begin at zero, with no session.
LEMMA SlotsInit == Init => SlotsExact
<1> SUFFICES ASSUME Init PROVE SlotsExact
  OBVIOUS
<1>1. \A c \in Clients : sess[c] = Closed
  BY DEF Init, ProxyInit
<1>2. /\ \A k : VerifiedNow(k) = {}
      /\ \A b : Holders(b) = {}
  BY <1>1 DEF VerifiedNow, Holders, InVerification, HoldsSlot, At, Closed
<1>3. QED
  BY <1>2, SlotsAre, FS_EmptySet DEF Init, ProxyInit, LimiterInit

\* Every verification slot and every slot of a branch is held by exactly those
\* who should hold one, through every early return and cut (proxy.go, pgproxy).
THEOREM SlotAccounting == Spec => []SlotsExact
<1>1. Typed /\ Typed' /\ SlotsExact /\ [Next]_vars => SlotsExact'
  BY SlotsNext
<1>2. QED
  BY <1>1, SlotsInit, AlwaysTyped, PTL DEF Spec

-----------------------------------------------------------------------------
(***************************************************************************)
(* Delays                                                                  *)
(***************************************************************************)

\* As long as nobody new gets through at once they do not become more.
LEMMA FreeSmaller ==
    ASSUME NEW k, FreeNow(k)' \subseteq FreeNow(k)
    PROVE  /\ Cardinality(FreeNow(k)') \in Nat /\ Cardinality(FreeNow(k)) \in Nat
           /\ Cardinality(FreeNow(k)') <= Cardinality(FreeNow(k))
BY SetsFinite, FS_Subset, FS_CardinalityType

\* The limiter counts in natural numbers.
LEMMA LimiterNumbers ==
    ASSUME Typed, NEW k \in Sources
    PROVE  /\ fails[k].count \in Nat /\ freeFails[k] \in Nat
           /\ fails[k].age \in Nat /\ Window \in Nat
           /\ Threshold \in Nat /\ MaxInFly \in Nat \ {0} /\ MaxDelay \in Nat \ {0}
           /\ fails \in [Sources -> Entries] /\ freeFails \in [Sources -> Nat]
  BY Constants
  DEF Typed, ProxyTyped, ProxyTypeOK, LimiterTypeOK, Entries, CountCap, FreeCap

\* Nothing is counted, and nobody new is let through at once.
LEMMA DelayKept ==
    ASSUME Typed, NEW k \in Sources, DelayFits(k), freeFails'[k] = freeFails[k],
           ~Forgotten(fails[k])' =>
               /\ ~Forgotten(fails[k]) /\ fails'[k].count = fails[k].count
               /\ fails[k].count > Threshold => FreeNow(k)' \subseteq FreeNow(k)
    PROVE  DelayFits(k)'
  BY FreeSmaller, LimiterNumbers DEF DelayFits

\* The environment: only time matters.
LEMMA EnvironmentDelays ==
    ASSUME Typed, Environment, NEW k \in Sources, DelayFits(k)
    PROVE  DelayFits(k)'
<1>1. freeFails' = freeFails /\ \A c \in Clients : Remains(c)
  BY EnvironmentRemains
<1>2. FreeNow(k)' = FreeNow(k)
  BY <1>1 DEF FreeNow, Remains, At
<1>3. fails' = fails \/ LimiterTick
  BY DEF Environment, Tick, Asked, ApiSleep, ApiDelete, ApiCreate, Lease, DirectConnect,
         DirectClose, EngineDies, ReaperStep, StartReap, ReapLook, EndReap, ReapCount,
         ReapStop, ReapDelete, PollerStep, StartPoll, PollOne, EndPoll, vars, proxyVars,
         sessionVars
<1>4. fails'[k].count = fails[k].count
      /\ (Forgotten(fails[k]) => Forgotten(fails[k])')
  BY <1>3, LimiterNumbers DEF LimiterTick, Entries, Forgotten
<1>5. QED
  BY <1>1, <1>2, <1>4, DelayKept

\* A wrong password is counted.
LEMMA MismatchDelays ==
    ASSUME Typed, Typed', SlotsExact', NEW k \in Sources, DelayFits(k),
           NEW c \in Clients, OnlyMoves(c), Mismatch(c), At(c, "wait"), sess[c].key = k
    PROVE  DelayFits(k)'
<1> DEFINE F == Cardinality(FreeNow(k))
           G == Cardinality(FreeNow(k)')
           free == sess[c].free
<1>1. At(c, "refused")' /\ sess'[c].key = k
  BY Writes DEF Mismatch, SameClient
<1>2. /\ FreeNow(k) \ {c} = FreeNow(k)' \ {c} /\ c \notin FreeNow(k)'
      /\ c \in FreeNow(k) <=> free
  BY <1>1 DEF FreeNow, At, OnlyMoves
<1>3. /\ F \in Nat /\ G \in Nat
      /\ free => G = F - 1
      /\ ~free => G = F
  <2>1. IsFiniteSet(FreeNow(k)) /\ F \in Nat
    BY SetsFinite, FS_CardinalityType
  <2>2. /\ free => G = F - 1
        /\ ~free => FreeNow(k)' = FreeNow(k)
    BY <1>2, <2>1, OneMoves
  <2>3. FreeNow(k)' \subseteq FreeNow(k)
    BY <1>2
  <2>4. G \in Nat
    BY <2>3, FreeSmaller
  <2>5. QED
    BY <2>1, <2>2, <2>4
\* c holds a slot beside those who will be verified at once.
<1>4. G + 1 <= MaxInFly
  <2>1. FreeNow(k)' \cup {c} \subseteq VerifiedNow(k)'
    BY <1>1 DEF FreeNow, VerifiedNow, InVerification, At
  <2>2. /\ IsFiniteSet(VerifiedNow(k)') /\ IsFiniteSet(FreeNow(k)')
        /\ Cardinality(VerifiedNow(k)') = inflight'[k]
    BY SlotsAre, Constants, FS_Subset DEF VerifiedNow, FreeNow
  <2>3. inflight'[k] \in 0..MaxInFly
    BY DEF Typed, ProxyTyped, ProxyTypeOK, LimiterTypeOK
  <2>4. Cardinality(FreeNow(k)' \cup {c}) = G + 1
    BY <1>2, <2>2, FS_AddElement
  <2>5. Cardinality(FreeNow(k)' \cup {c}) <= Cardinality(VerifiedNow(k)')
    BY <2>1, <2>2, FS_Subset
  <2>6. QED
    BY <1>3, <2>2, <2>3, <2>4, <2>5, LimiterNumbers
<1>5. k # NoSource
  BY Constants
<1>6. /\ fails'[k].count = IF Forgotten(fails[k]) THEN 1 ELSE Capped(fails[k].count + 1)
      /\ freeFails'[k] = IF Forgotten(fails[k]) THEN (IF free THEN 1 ELSE 0)
                         ELSE IF free /\ freeFails[k] < FreeCap THEN freeFails[k] + 1
                         ELSE freeFails[k]
  BY <1>5, LimiterNumbers DEF Mismatch, Fail, CountFree
<1>7. freeFails[k] < FreeCap
  BY LimiterNumbers DEF DelayFits, FreeCap
<1> HIDE DEF F, G, free
<1>8. CASE Forgotten(fails[k])
  <2>1. fails'[k].count = 1 /\ freeFails'[k] \in {0, 1}
    BY <1>6, <1>8
  <2>2. /\ freeFails'[k] <= Threshold + MaxInFly
        /\ 1 <= Threshold => freeFails'[k] <= 1
        /\ ~(1 <= Threshold) => freeFails'[k] + G <= Threshold + MaxInFly
    BY <1>3, <1>4, <2>1, LimiterNumbers
  <2>3. QED
    BY <2>1, <2>2 DEF DelayFits, G
<1>9. CASE ~Forgotten(fails[k])
  <2>1. /\ fails'[k].count = Capped(fails[k].count + 1)
        /\ freeFails'[k] = IF free THEN freeFails[k] + 1 ELSE freeFails[k]
    BY <1>6, <1>7, <1>9
  <2>5. fails'[k].count \in Nat /\ freeFails'[k] \in Nat
    BY <2>1, LimiterNumbers DEF Capped, CountCap
  <2>2. CASE fails[k].count + 1 <= Threshold
    <3>1. fails'[k].count = fails[k].count + 1
      BY <2>1, <2>2, LimiterNumbers DEF Capped, CountCap
    <3>2. /\ freeFails[k] <= fails[k].count
          /\ freeFails'[k] <= fails'[k].count
      BY <1>9, <2>1, <2>2, <3>1, LimiterNumbers DEF DelayFits
    <3>3. freeFails'[k] <= Threshold + MaxInFly
      BY <2>1, <2>2, <3>1, <3>2, LimiterNumbers
    <3>4. fails'[k].count <= Threshold
      BY <2>2, <3>1
    <3>5. QED
      BY <3>2, <3>3, <3>4 DEF DelayFits
  <2>3. CASE fails[k].count = Threshold
    <3>1. fails'[k].count > Threshold
      BY <2>1, <2>3, LimiterNumbers DEF Capped, CountCap
    <3>2. freeFails[k] <= Threshold
      BY <1>9, <2>3, LimiterNumbers DEF DelayFits
    <3>3. freeFails'[k] + G <= Threshold + MaxInFly
      BY <1>3, <1>4, <2>1, <3>2, LimiterNumbers
    <3>4. QED
      BY <1>3, <2>5, <3>1, <3>3, LimiterNumbers DEF DelayFits, G
  <2>4. CASE fails[k].count > Threshold
    <3>1. fails'[k].count > Threshold
      BY <2>1, <2>4, LimiterNumbers DEF Capped, CountCap
    <3>2. freeFails[k] + F <= Threshold + MaxInFly
      BY <1>9, <2>4, LimiterNumbers DEF DelayFits, F
    <3>3. freeFails'[k] + G <= Threshold + MaxInFly
      BY <1>3, <2>1, <3>2, LimiterNumbers
    <3>4. QED
      BY <1>3, <2>5, <3>1, <3>3, LimiterNumbers DEF DelayFits, G
  <2>6. QED
    BY <2>2, <2>3, <2>4, LimiterNumbers
<1>10. QED
  BY <1>8, <1>9

\* Each step of a session keeps what DelayFits says of each source.
LEMMA SessionDelays ==
    ASSUME Typed, Typed', SlotsExact', NEW k \in Sources, DelayFits(k),
           NEW c \in Clients, SessionStep(c)
    PROVE  DelayFits(k)'
<1>0. OnlyMoves(c)
  BY OthersStay
<1>1. FreeNow(k) \ {c} = FreeNow(k)' \ {c}
  BY <1>0 DEF FreeNow, At, OnlyMoves
<1>2. ~At(c, "wait")' => FreeNow(k)' \subseteq FreeNow(k)
  BY <1>1 DEF FreeNow
<1>3. CASE ReadPenalty(c)
  <2> DEFINE w == Penalty(sess[c].key)
             f == w = 0
  <2>1. /\ Waits(c, w, f)
        /\ At(c, "slot") /\ UNCHANGED <<fails, freeFails>>
    BY <1>3 DEF ReadPenalty, Waits
  <2>2. k = sess[c].key /\ ~Forgotten(fails[k]) /\ fails[k].count > Threshold => ~f
    BY PenaltyTyped, LimiterNumbers DEF Typed, ProxyTyped, ProxyTypeOK, Keys
  <2> HIDE DEF w, f
  <2>3. sess'[c].free = f /\ SameClient(c)
    BY <2>1, Writes
  <2>4. ~Forgotten(fails[k]) /\ fails[k].count > Threshold => FreeNow(k)' \subseteq FreeNow(k)
    BY <1>1, <2>2, <2>3 DEF FreeNow, SameClient
  <2>5. QED
    BY <2>1, <2>4, DelayKept DEF Forgotten
<1>4. ASSUME Verified(c), At(c, "wait") PROVE DelayFits(k)'
  <2>0. At(c, "verified")'
    BY <1>4, Writes DEF Verified
  <2>1. ~At(c, "wait")'
    BY <2>0 DEF At
  <2>2. CASE sess[c].key = k
    <3>1. freeFails'[k] = 0 /\ fails'[k] = NoEntry
      BY <1>4, <2>2, LimiterNumbers, Constants DEF Verified, Reset
    <3>2. QED
      BY <3>1, LimiterNumbers DEF DelayFits, NoEntry
  <2>3. CASE sess[c].key # k
    <3>1. freeFails'[k] = freeFails[k] /\ fails'[k] = fails[k]
      BY <1>4, <2>3, LimiterNumbers DEF Verified, Reset
    <3>2. QED
      BY <1>2, <2>1, <3>1, DelayKept DEF Forgotten
  <2>4. QED
    BY <2>2, <2>3
<1>5. ASSUME Mismatch(c), At(c, "wait") PROVE DelayFits(k)'
  <2>0. At(c, "refused")'
    BY <1>5, Writes DEF Mismatch
  <2>1. ~At(c, "wait")'
    BY <2>0 DEF At
  <2>2. CASE sess[c].key = k
    BY <1>0, <1>5, <2>2, MismatchDelays
  <2>3. CASE sess[c].key # k
    <3>1. freeFails'[k] = freeFails[k] /\ fails'[k] = fails[k]
      BY <1>5, <2>3, LimiterNumbers DEF Mismatch, Fail, CountFree
    <3>2. QED
      BY <1>2, <2>1, <3>1, DelayKept DEF Forgotten
  <2>4. QED
    BY <2>2, <2>3
<1>6. ASSUME UNCHANGED <<fails, freeFails>>, ~At(c, "wait")' PROVE DelayFits(k)'
  BY <1>2, <1>6, DelayKept DEF Forgotten
<1>7. CASE VerifyMySQL(c) \/ VerifyPostgres(c)
  <2>1. CASE Goto(c, "refused") /\ UNCHANGED <<fails, freeFails>>
    <3>1. At(c, "refused")'
      BY <2>1, Writes
    <3>2. ~At(c, "wait")'
      BY <3>1 DEF At
    <3>3. QED
      BY <1>6, <2>1, <3>2
  <2>2. QED
    BY <1>4, <1>5, <1>7, <2>1 DEF VerifyMySQL, VerifyPostgres
<1>8. CASE \/ Connects(c) \/ ReturnSlot(c)
           \/ Route(c) \/ LazyCreate(c) \/ Wake(c) \/ Provisioned(c) \/ WaitRunning(c)
           \/ TakeSlot(c) \/ Dial(c) \/ Touch(c) \/ AnswerMySQL(c) \/ ForwardKey(c)
           \/ ForwardStartup(c) \/ Hangup(c)
  <2>1. UNCHANGED <<fails, freeFails>>
    BY <1>8
    DEF Connects, ConnectMySQL, ConnectPostgres, Admitted, ReturnSlot, Route, LazyCreate,
        Wake, Provisioned, WaitRunning, TakeSlot, Dial, Touch, AnswerMySQL,
        ForwardKey, ForwardStartup, Hangup
  <2>2. ReleaseSession(c) => ~At(c, "wait")'
    <3>1. ReleaseSession(c) => sess'[c] = Closed
      BY Writes DEF ReleaseSession
    <3>2. QED
      BY <3>1 DEF At, Closed
  <2>3. ~At(c, "wait")'
    BY <1>8, <2>2, Hops DEF Hangup, At, Outside, Closed
  <2>4. QED
    BY <1>6, <2>1, <2>3
<1>9. QED
  BY <1>3, <1>7, <1>8 DEF SessionStep, Advance

\* So does every step.
LEMMA DelaysNext ==
    ASSUME Typed, Typed', SlotsExact', Delays, [Next]_vars
    PROVE  Delays'
BY StepsSplit, EnvironmentDelays, SessionDelays DEF Delays

\* At first no source has failed.
LEMMA DelaysInit == Init => Delays
<1> SUFFICES ASSUME Init, NEW k \in Sources PROVE DelayFits(k)
  BY DEF Delays
<1>1. freeFails[k] = 0 /\ fails[k] = NoEntry
  BY DEF Init, ProxyInit, LimiterInit
<1>2. QED
  BY <1>1, Constants DEF DelayFits, NoEntry

\* However many connections an address opens at once, it has no more than
\* Threshold + MaxInFly wrong passwords looked at without a delay (authlimit,
\* proxy.go: the penalty before the verification).
THEOREM DelayHolds == Spec => []DelayNotEvaded
<1>1. Typed /\ Typed' /\ SlotsExact' /\ Delays /\ [Next]_vars => Delays'
  BY DelaysNext
<1>2. Delays => DelayNotEvaded
  BY DEF Delays, DelayFits, DelayNotEvaded
<1>3. QED
  BY <1>1, <1>2, DelaysInit, AlwaysTyped, SlotAccounting, PTL DEF Spec

-----------------------------------------------------------------------------
(***************************************************************************)
(* Routes                                                                  *)
(***************************************************************************)

\* What a step does to the row of b: its port stays, or it is a new row at a
\* port that was free, or it is gone and all who looked b up are told.
Keeps(b) == /\ row'[b].port = row[b].port
            /\ row'[b].state = "absent" <=> row[b].state = "absent"
OthersKeep(b) == \A x \in Branches \ {b} : Keeps(x)
Appears(b) == /\ row[b].state = "absent" /\ row'[b].state # "absent"
              /\ row'[b].port \in Ports \ UsedPorts
              /\ OthersKeep(b)
Goes(b)    == /\ row'[b] = NoRow /\ lock[b] = Free
              /\ \A d \in Clients : sess[d].branch = b => sess'[d].gone
              /\ OthersKeep(b)
RowStep    == \/ \A b \in Branches : Keeps(b)
              \/ \E b \in Branches : Appears(b) \/ Goes(b)

\* What is not in the way of a row at rest.
Rests(b)   == row'[b].state \in {"absent", "sleeping"} => Quiet(b)'

\* A row that is written in its state, age or lease keeps its port.
LEMMA RowWrites ==
    ASSUME Typed, NEW b \in Branches, row[b].state # "absent"
    PROVE  /\ \A s \in RowStates \ {"absent"} :
                 \/ row' = [row EXCEPT ![b].state = s]
                 \/ row' = [row EXCEPT ![b].state = s, ![b].age = 0]
                 => /\ \A x \in Branches : Keeps(x)
                    /\ row'[b].state = s
                    /\ \A x \in Branches \ {b} : row'[x] = row[x]
           /\ row' = [row EXCEPT ![b].lease = LeaseTime] =>
                 \A x \in Branches : Keeps(x) /\ row'[x].state = row[x].state
<1>1. row \in [Branches -> Rows]
  BY DEF Typed, ProxyTyped, ProxyTypeOK
<1>2. row[b] \in Rows
  BY <1>1
<1>3. ASSUME NEW s \in RowStates \ {"absent"}, row' = [row EXCEPT ![b].state = s]
      PROVE  /\ \A x \in Branches : Keeps(x)
             /\ row'[b].state = s
             /\ \A x \in Branches \ {b} : row'[x] = row[x]
  BY <1>1, <1>2, <1>3 DEF Keeps, Rows
<1>4. ASSUME NEW s \in RowStates \ {"absent"},
             row' = [row EXCEPT ![b].state = s, ![b].age = 0]
      PROVE  /\ \A x \in Branches : Keeps(x)
             /\ row'[b].state = s
             /\ \A x \in Branches \ {b} : row'[x] = row[x]
  BY <1>1, <1>2, <1>4 DEF Keeps, Rows
<1>5. row' = [row EXCEPT ![b].lease = LeaseTime] =>
         \A x \in Branches : Keeps(x) /\ row'[x].state = row[x].state
  BY <1>1, <1>2 DEF Keeps, Rows
<1>6. QED
  BY <1>3, <1>4, <1>5

\* TouchLastConn writes the idle time alone.
LEMMA TouchKeeps ==
    ASSUME Typed, NEW b \in Branches, TouchLastConn(b)
    PROVE  \A x \in Branches : Keeps(x) /\ row'[x].state = row[x].state
<1>1. row \in [Branches -> Rows]
  BY DEF Typed, ProxyTyped, ProxyTypeOK
<1>2. row[b] \in Rows
  BY <1>1
<1>3. PICK n : row' = [row EXCEPT ![b].age = n]
  BY DEF TouchLastConn
<1>4. QED
  BY <1>1, <1>2, <1>3 DEF Keeps, Rows

\* Where no row is written every row keeps its state and its port.
LEMMA SameRows ==
    ASSUME UNCHANGED row
    PROVE  RowStep /\ \A b \in Branches : Keeps(b) /\ row'[b].state = row[b].state
BY DEF RowStep, Keeps

\* A row at rest is left at rest.
LEMMA RestKept ==
    ASSUME NEW b \in Branches, BranchFits(b), row'[b].state = row[b].state,
           up'[b] => up[b], direct[b] = "none" => direct'[b] = "none",
           \A c \in Clients : sess'[c].peer = b => sess[c].peer = b
    PROVE  Rests(b)
BY DEF BranchFits, Rests, Quiet

\* Only Dial gives a session another peer.
PeerLeft(c) == sess'[c].peer = sess[c].peer \/ sess'[c].peer = NoBranch

\* A session that goes on is connected to whom it was; one that leaves, to
\* nobody.
LEMMA LeavesPeer ==
    ASSUME Typed, NEW c \in Clients
    PROVE  /\ \A pc : Goto(c, pc) => PeerLeft(c)
           /\ Leave(c) \/ ReleaseSession(c) => PeerLeft(c)
           /\ \A pc, p : Finds(c, pc, p) => PeerLeft(c)
           /\ GivenUp(c) \/ ForwardKey(c) => PeerLeft(c)
<1>1. Closed.peer = NoBranch
  BY DEF Closed
<1>2. Leave(c) => PeerLeft(c)
  BY <1>1, Writes DEF PeerLeft
<1>3. ASSUME NEW pc PROVE /\ Goto(c, pc) => PeerLeft(c)
                          /\ \A p : Finds(c, pc, p) => PeerLeft(c)
  BY Writes DEF PeerLeft, SamePeer
<1>4. GivenUp(c) \/ ForwardKey(c) => PeerLeft(c)
  BY Writes DEF PeerLeft, ForwardKey
<1>5. QED
  BY <1>2, <1>3, <1>4 DEF ReleaseSession

\* What a session does to the rows: lazy create, wake, touch.
LEMMA SessionRows ==
    ASSUME Typed, Typed', Routes, NEW c \in Clients, SessionStep(c)
    PROVE  RowStep /\ \A b \in Branches : Rests(b)
<1> DEFINE b == sess[c].branch
           Done == RowStep /\ \A x \in Branches : Rests(x)
           Peers == \A x \in Branches : sess'[c].peer = x => sess[c].peer = x \/ up[x]
<1>1. /\ row \in [Branches -> Rows]
      /\ up \in [Branches -> BOOLEAN]
      /\ \A d \in Clients : SessionFits(d) /\ LockFits(d)
      /\ \A x \in Branches : BranchFits(x)
      /\ OnlyMoves(c)
  BY OthersStay DEF Typed, ProxyTyped, ProxyTypeOK, Routes
<1>2. ~At(c, "closed") => b \in Branches
  BY DEF Typed, ProxyTyped, SessionsNamed, Named, At
<1>3. ASSUME Peers, UNCHANGED <<up, direct>>, NEW x \in Branches,
             row'[x].state = row[x].state
      PROVE  Rests(x)
  <2>1. CASE row[x].state \in {"absent", "sleeping"}
    <3>1. \A d \in Clients : sess'[d].peer = x => sess[d].peer = x
      BY <1>1, <1>3, <2>1 DEF OnlyMoves, BranchFits, Quiet
    <3>2. QED
      BY <1>1, <1>3, <3>1, RestKept
  <2>2. QED
    BY <1>3, <2>1 DEF Rests
<1>4. ASSUME Peers, UNCHANGED <<up, direct, row>> PROVE Done
  BY <1>3, <1>4, SameRows
<1>5. PeerLeft(c) => Peers
  BY Constants DEF PeerLeft
<1>6. CASE Connects(c) \/ ReadPenalty(c) \/ VerifyMySQL(c) \/ VerifyPostgres(c)
            \/ ReturnSlot(c)
  <2>1. UNCHANGED <<up, direct, row>>
    BY <1>6
    DEF Connects, ConnectMySQL, ConnectPostgres, Admitted, ReadPenalty, VerifyMySQL,
        VerifyPostgres, ReturnSlot, branchVars
  <2>2. PeerLeft(c)
    <3>1. CASE Connects(c)
      BY <3>1, NamedTyped
      DEF Connects, ConnectMySQL, ConnectPostgres, Admitted, Closed, Typed, ProxyTyped,
          PeerLeft
    <3>2. CASE ReadPenalty(c)
      <4> DEFINE w == Penalty(sess[c].key)
                 f == w = 0
      <4>1. Waits(c, w, f)
        BY <3>2 DEF ReadPenalty, Waits
      <4> HIDE DEF w, f
      <4>2. QED
        BY <4>1, Writes DEF SamePeer, PeerLeft
    <3>3. CASE VerifyMySQL(c) \/ VerifyPostgres(c) \/ ReturnSlot(c)
      BY <3>3, LeavesPeer
      DEF VerifyMySQL, VerifyPostgres, Verified, Mismatch, ReturnSlot
    <3>4. QED
      BY <1>6, <3>1, <3>2, <3>3
  <2>3. QED
    BY <1>4, <1>5, <2>1, <2>2
<1>7. CASE Route(c) \/ WaitRunning(c)
  <2> DEFINE p == row[b].port
  <2>1. /\ UNCHANGED <<up, direct, row>>
        /\ \/ Finds(c, "acquire", p) \/ Finds(c, "wake", p)
           \/ Finds(c, "poll", p) \/ Goto(c, "create") \/ Leave(c)
    BY <1>7 DEF Route, WaitRunning, branchVars, Finds
  <2> HIDE DEF p
  <2>2. PeerLeft(c)
    BY <2>1, LeavesPeer
  <2>3. QED
    BY <1>4, <1>5, <2>1, <2>2
<1>8. CASE TakeSlot(c) \/ AnswerMySQL(c) \/ ForwardKey(c) \/ ForwardStartup(c)
            \/ Hangup(c)
  <2>1. UNCHANGED <<up, direct, row>>
    BY <1>8 DEF TakeSlot, AnswerMySQL, ForwardKey, ForwardStartup, Hangup, branchVars
  <2>2. PeerLeft(c)
    BY <1>8, LeavesPeer DEF TakeSlot, AnswerMySQL, ForwardStartup, Hangup
  <2>3. QED
    BY <1>4, <1>5, <2>1, <2>2
<1>9. CASE Dial(c)
  <2>1. UNCHANGED <<up, direct, row>>
    BY <1>9 DEF Dial, branchVars
  <2>2. Peers
    <3>1. CASE ReleaseSession(c)
      BY <1>5, <3>1, LeavesPeer
    <3>2. ASSUME NEW x \in Listening(sess[c].port),
                 sess' = [sess EXCEPT ![c].pc = "touch", ![c].peer = x]
          PROVE  Peers
      <4>1. sess'[c].peer = x
        BY <3>2, Writes
      <4>2. up[x]
        BY <3>2 DEF Listening
      <4>3. QED
        BY <4>1, <4>2
    <3>3. QED
      BY <1>9, <3>1, <3>2 DEF Dial
  <2>3. QED
    BY <1>4, <2>1, <2>2
<1>10. CASE Touch(c)
  <2>1. b \in Branches /\ UNCHANGED <<up, direct>> /\ PeerLeft(c)
    BY <1>2, <1>10, LeavesPeer DEF Touch, At
  <2>2. TouchLastConn(b) \/ UNCHANGED row
    BY <1>10 DEF Touch
  <2>3. \A x \in Branches : Keeps(x) /\ row'[x].state = row[x].state
    BY <2>1, <2>2, TouchKeeps, SameRows
  <2>4. QED
    BY <1>3, <1>5, <2>1, <2>3 DEF RowStep
<1>11. CASE Wake(c)
  <2>1. b \in Branches /\ UNCHANGED <<up, direct>> /\ PeerLeft(c)
    BY <1>2, <1>11, LeavesPeer DEF Wake, At
  <2>2. \/ UNCHANGED row
        \/ /\ row[b].state \in {"sleeping", "wakeFailed"}
           /\ row' = [row EXCEPT ![b].state = "running", ![b].age = 0]
    BY <1>11 DEF Wake
  <2>3. CASE UNCHANGED row
    BY <1>4, <1>5, <2>1, <2>3
  <2>4. CASE /\ row[b].state \in {"sleeping", "wakeFailed"}
             /\ row' = [row EXCEPT ![b].state = "running", ![b].age = 0]
    <3>1. /\ \A x \in Branches : Keeps(x)
          /\ row'[b].state = "running"
          /\ \A x \in Branches \ {b} : row'[x] = row[x]
      <4>1. row[b].state # "absent" /\ "running" \in RowStates \ {"absent"}
        BY <2>4 DEF RowStates
      <4> HIDE DEF b
      <4>2. QED
        BY <2>1, <2>4, <4>1, RowWrites
    <3>2. Rests(b)
      BY <3>1 DEF Rests
    <3>3. QED
      BY <1>3, <1>5, <2>1, <3>1, <3>2 DEF RowStep
  <2>5. QED
    BY <2>2, <2>3, <2>4
<1>12. CASE Provisioned(c)
  <2>1. b \in Branches /\ UNCHANGED direct /\ PeerLeft(c)
    BY <1>2, <1>12, LeavesPeer DEF Provisioned, At
  <2>2. row[b].state # "absent"
    BY <1>1, <1>12 DEF Provisioned, LockFits
  <2>3. PICK s \in {"running", "wakeFailed", "error"} :
            \/ row' = [row EXCEPT ![b].state = s]
            \/ row' = [row EXCEPT ![b].state = s, ![b].age = 0]
    BY <1>12 DEF Provisioned
  <2>4. /\ \A x \in Branches : Keeps(x)
        /\ row'[b].state = s
        /\ \A x \in Branches \ {b} : row'[x] = row[x]
    BY <2>1, <2>2, <2>3, RowWrites DEF RowStates
  <2>5. \A x \in Branches \ {b} : up'[x] = up[x]
    BY <1>1, <1>12 DEF Provisioned
  <2>6. Rests(b)
    BY <2>3, <2>4 DEF Rests
  <2>7. ASSUME NEW x \in Branches \ {b} PROVE Rests(x)
    <3>1. \A d \in Clients : sess'[d].peer = x => sess[d].peer = x
      BY <1>1, <2>1, Constants DEF OnlyMoves, PeerLeft
    <3>2. QED
      BY <1>1, <2>1, <2>4, <2>5, <3>1, RestKept
  <2>8. QED
    BY <2>4, <2>6, <2>7 DEF RowStep
<1>13. CASE LazyCreate(c)
  <2>1. b \in Branches /\ UNCHANGED <<up, direct>>
    BY <1>2, <1>13 DEF LazyCreate, At
  <2>2. CASE (Goto(c, "again") \/ Leave(c)) /\ UNCHANGED row
    <3>1. PeerLeft(c)
      BY <2>2, LeavesPeer
    <3>2. QED
      BY <1>4, <1>5, <2>1, <2>2, <3>1
  <2>3. ASSUME NEW p \in Ports, AllocPort(p), row[b].state = "absent",
               row' = [row EXCEPT ![b] = NewRow("creating", p)],
               Finds(c, "creating", p)
        PROVE  Done
    <3>1. row'[b] = NewRow("creating", p)
      BY <1>1, <2>1, <2>3
    <3>2. row'[b].state = "creating" /\ row'[b].port = p
      BY <3>1 DEF NewRow
    <3>3. \A x \in Branches \ {b} : row'[x] = row[x]
      BY <1>1, <2>3
    <3>4. Appears(b)
      BY <2>1, <2>3, <3>2, <3>3 DEF Appears, AllocPort, OthersKeep, Keeps
    <3>5. PeerLeft(c)
      BY <2>3, LeavesPeer
    <3>6. Rests(b)
      BY <3>2 DEF Rests
    <3>7. QED
      BY <1>3, <1>5, <2>1, <3>3, <3>4, <3>5, <3>6 DEF RowStep
  <2>4. QED
    BY <1>13, <2>2, <2>3 DEF LazyCreate, Finds
<1>14. QED
  BY <1>6, <1>7, <1>8, <1>9, <1>10, <1>11, <1>12, <1>13 DEF SessionStep, Advance

\* What the end of an engine leaves: nobody is connected to it.
LEMMA EngineGone ==
    ASSUME Typed, Typed', NEW b \in Branches, EngineEnds(b),
           \/ sess' = Cut(b)
           \/ sess' = [c \in Clients |->
                  IF sess[c].branch = b THEN [Cut(b)[c] EXCEPT !.gone = TRUE]
                  ELSE Cut(b)[c]]
    PROVE  /\ Quiet(b)'
           /\ \A x \in Branches \ {b} : up'[x] = up[x] /\ direct'[x] = direct[x]
           /\ \A c \in Clients : PeerLeft(c)
<1>1. /\ up \in [Branches -> BOOLEAN] /\ DOMAIN direct = Branches
      /\ \A c \in Clients : sess[c] \in Sessions
      /\ direct = [x \in Branches |-> direct[x]]
  BY NamedTyped DEF Typed, ProxyTyped, ProxyTypeOK
<1>2. ~up'[b] /\ direct'[b] = "none"
  BY <1>1 DEF EngineEnds
<1>3. \A x \in Branches \ {b} : up'[x] = up[x] /\ direct'[x] = direct[x]
  BY <1>1 DEF EngineEnds
<1>4. ASSUME NEW c \in Clients PROVE sess'[c].peer # b /\ PeerLeft(c)
  <2> DEFINE m == Cut(b)[c]
  <2>1. /\ m \in Sessions
        /\ m.peer # b
        /\ m.peer = sess[c].peer \/ m.peer = NoBranch
    <3>1. CASE sess[c].peer = b
      <4>1. m = [sess[c] EXCEPT !.peer = NoBranch, !.old = FALSE]
        BY <3>1 DEF Cut
      <4>2. m \in Sessions /\ m.peer = NoBranch
        BY <1>1, <4>1 DEF Sessions
      <4>3. QED
        BY <4>2, Constants
    <3>2. CASE sess[c].peer # b
      BY <1>1, <3>2 DEF Cut
    <3>3. QED
      BY <3>1, <3>2
  <2>2. sess'[c] = m \/ sess'[c] = [m EXCEPT !.gone = TRUE]
    BY DEF Cut
  <2> HIDE DEF m
  <2>3. QED
    BY <2>1, <2>2 DEF Sessions, PeerLeft
<1>5. QED
  BY <1>2, <1>3, <1>4 DEF Quiet

\* A branch whose row and engine are left alone rests if it did.
LEMMA OthersRest ==
    ASSUME Routes, Typed, NEW x \in Branches, row'[x].state = row[x].state,
           up'[x] => up[x], direct[x] = "none" => direct'[x] = "none",
           \A c \in Clients : PeerLeft(c)
    PROVE  Rests(x)
<1>1. \A c \in Clients : sess'[c].peer = x => sess[c].peer = x
  BY Constants DEF PeerLeft
<1>2. QED
  BY <1>1, RestKept DEF Routes

\* Sleep and Delete, by request or by the reaper.
LEMMA BodyRows ==
    ASSUME Typed, Typed', Routes, NEW b \in Branches, lock[b] = Free,
           SleepBody(b) \/ DeleteBody(b)
    PROVE  RowStep /\ \A x \in Branches : Rests(x)
<1>1. row \in [Branches -> Rows]
  BY DEF Typed, ProxyTyped, ProxyTypeOK
<1>2. /\ Quiet(b)'
      /\ \A x \in Branches \ {b} : up'[x] = up[x] /\ direct'[x] = direct[x]
      /\ \A c \in Clients : PeerLeft(c)
  BY EngineGone DEF SleepBody, DeleteBody
<1>3. \A x \in Branches \ {b} : row'[x] = row[x]
  BY <1>1 DEF SleepBody, DeleteBody
<1>4. \A x \in Branches : Rests(x)
  BY <1>2, <1>3, OthersRest DEF Rests
<1>5. CASE row[b].state # "absent" /\ \E s \in {"sleeping", "error"} :
              \/ row' = [row EXCEPT ![b].state = s]
              \/ row' = [row EXCEPT ![b].state = s, ![b].age = 0]
  <2>1. \A x \in Branches : Keeps(x)
    BY <1>5, RowWrites DEF RowStates
  <2>2. QED
    BY <1>4, <2>1 DEF RowStep
<1>6. CASE /\ row' = [row EXCEPT ![b] = NoRow]
           /\ sess' = [c \in Clients |->
                 IF sess[c].branch = b THEN [Cut(b)[c] EXCEPT !.gone = TRUE]
                 ELSE Cut(b)[c]]
  <2>1. \A c \in Clients : sess[c].branch = b => sess'[c].gone
    <3>1. \A c \in Clients : Cut(b)[c] \in Sessions
      BY NamedTyped, CutTyped DEF Typed, ProxyTyped, Named
    <3>2. QED
      BY <1>6, <3>1 DEF Sessions
  <2>2. row'[b] = NoRow
    BY <1>1, <1>6
  <2>3. Goes(b)
    BY <1>3, <2>1, <2>2 DEF Goes, OthersKeep, Keeps
  <2>4. QED
    BY <1>4, <2>3 DEF RowStep
<1>7. QED
  BY <1>5, <1>6 DEF SleepBody, DeleteBody

\* What calls, passes and time do to the rows.
LEMMA EnvironmentRows ==
    ASSUME Typed, Typed', Routes, Environment
    PROVE  RowStep /\ \A b \in Branches : Rests(b)
<1> DEFINE Done == RowStep /\ \A b \in Branches : Rests(b)
<1>1. /\ row \in [Branches -> Rows]
      /\ up \in [Branches -> BOOLEAN]
      /\ \A c \in Clients : PeerLeft(c)
  BY EnvironmentRemains DEF Typed, ProxyTyped, ProxyTypeOK, Remains, PeerLeft
<1>2. ASSUME UNCHANGED <<up, direct>>,
             \A b \in Branches : Keeps(b) /\ row'[b].state = row[b].state
      PROVE  Done
  BY <1>1, <1>2, OthersRest DEF RowStep
<1>3. ASSUME UNCHANGED <<up, direct, row>> PROVE Done
  BY <1>2, <1>3, SameRows
<1>4. CASE Tick
  <2>1. \A b \in Branches : Keeps(b) /\ row'[b].state = row[b].state
    BY <1>1, <1>4 DEF Tick, Keeps, Rows
  <2>2. QED
    BY <1>2, <1>4, <2>1 DEF Tick
<1>5. ASSUME NEW b \in Branches, ApiSleep(b) \/ ApiDelete(b) PROVE Done
  BY <1>5, BodyRows DEF ApiSleep, ApiDelete
<1>6. ASSUME NEW b \in Branches, ApiCreate(b) PROVE Done
  <2>1. PICK p \in Ports : AllocPort(p) /\ row' = [row EXCEPT ![b] = NewRow("running", p)]
    BY <1>6 DEF ApiCreate
  <2>2. row'[b] = NewRow("running", p) /\ \A x \in Branches \ {b} : row'[x] = row[x]
    BY <1>1, <2>1
  <2>3. row'[b].state = "running" /\ row'[b].port = p
    BY <2>2 DEF NewRow
  <2>4. Appears(b)
    BY <1>6, <2>1, <2>2, <2>3 DEF Appears, AllocPort, OthersKeep, Keeps, ApiCreate
  <2>5. \A x \in Branches \ {b} : up'[x] = up[x] /\ direct'[x] = direct[x]
    BY <1>1, <1>6 DEF ApiCreate
  <2>6. \A x \in Branches : Rests(x)
    BY <1>1, <2>2, <2>3, <2>5, OthersRest DEF Rests
  <2>7. QED
    BY <2>4, <2>6 DEF RowStep
<1>7. ASSUME NEW b \in Branches, Lease(b) PROVE Done
  BY <1>2, <1>7, RowWrites DEF Lease
<1>8. ASSUME NEW b \in Branches, DirectConnect(b) \/ DirectClose(b) PROVE Done
  <2>1. UNCHANGED <<up, row>>
    BY <1>8 DEF DirectConnect, DirectClose
  <2>2. DOMAIN direct = Branches
    BY DEF Typed, ProxyTyped, ProxyTypeOK
  <2>3. \A x \in Branches : direct[x] = "none" => direct'[x] = "none" \/ up[x]
    BY <1>8, <2>2 DEF DirectConnect, DirectClose
  <2>4. ASSUME NEW x \in Branches PROVE Rests(x)
    <3>1. CASE row[x].state \in {"absent", "sleeping"}
      <4>1. ~up[x]
        BY <3>1 DEF Routes, BranchFits, Quiet
      <4>2. QED
        BY <1>1, <2>1, <2>3, <4>1, OthersRest
    <3>2. QED
      BY <2>1, <3>1 DEF Rests
  <2>5. QED
    BY <2>1, <2>4, SameRows
<1>9. ASSUME NEW b \in Branches, EngineDies(b) PROVE Done
  <2>1. /\ Quiet(b)'
        /\ \A x \in Branches \ {b} : up'[x] = up[x] /\ direct'[x] = direct[x]
    BY <1>9, EngineGone DEF EngineDies
  <2>2. UNCHANGED row
    BY <1>9 DEF EngineDies
  <2>3. \A x \in Branches : Rests(x)
    BY <1>1, <2>1, <2>2, OthersRest DEF Rests
  <2>4. QED
    BY <2>2, <2>3, SameRows
<1>10. CASE ReaperStep
  <2>1. CASE StartReap
    <3>1. UNCHANGED <<up, row>> /\ \A x \in Branches : direct[x] = "none" => direct'[x] = "none"
      BY <2>1 DEF StartReap
    <3>2. \A x \in Branches : Rests(x)
      BY <1>1, <3>1, OthersRest
    <3>3. QED
      BY <3>1, <3>2, SameRows
  <2>2. CASE ReapLook \/ EndReap
    BY <1>3, <2>2 DEF ReapLook, EndReap, proxyVars, branchVars
  <2>3. CASE ReapCount
    <3>1. reap.branch \in Branches
      BY <2>3 DEF ReapCount, Typed, PassTyped, Decided
    <3>2. UNCHANGED <<up, direct>> /\ (TouchLastConn(reap.branch) \/ UNCHANGED row)
      BY <2>3 DEF ReapCount
    <3>3. QED
      BY <1>2, <3>1, <3>2, TouchKeeps, SameRows
  <2>4. CASE ReapStop \/ ReapDelete
    <3>1. reap.branch \in Branches
      BY <2>4 DEF ReapStop, ReapDelete, Typed, PassTyped, Decided
    <3>2. \/ UNCHANGED <<up, direct, row>>
          \/ /\ lock[reap.branch] = Free
             /\ SleepBody(reap.branch) \/ DeleteBody(reap.branch)
      BY <2>4 DEF ReapStop, ReapDelete
    <3>3. QED
      BY <1>3, <3>1, <3>2, BodyRows
  <2>5. QED
    BY <1>10, <2>1, <2>2, <2>3, <2>4 DEF ReaperStep
<1>11. CASE PollerStep
  <2>1. CASE StartPoll \/ EndPoll
    BY <1>3, <2>1 DEF StartPoll, EndPoll, proxyVars, branchVars
  <2>2. ASSUME NEW b \in Branches, PollOne(b) PROVE Done
    <3>1. UNCHANGED <<up, direct>> /\ (TouchLastConn(b) \/ UNCHANGED row)
      BY <2>2 DEF PollOne
    <3>2. QED
      BY <1>2, <3>1, TouchKeeps, SameRows
  <2>3. QED
    BY <1>11, <2>1, <2>2 DEF PollerStep
<1>12. CASE UNCHANGED vars
  BY <1>3, <1>12 DEF vars, proxyVars, branchVars
<1>13. QED
  BY <1>4, <1>5, <1>6, <1>7, <1>8, <1>9, <1>10, <1>11, <1>12 DEF Environment, Asked

\* Every row has a port of its own.
LEMMA PortsStay ==
    ASSUME Typed, Typed', Routes, RowStep, \A b \in Branches : Rests(b)
    PROVE  (\A b \in Branches : BranchFits(b)') /\ PortsDistinct'
<1>1. /\ \A b \in Branches : BranchFits(b)
      /\ PortsDistinct
  BY DEF Routes
<1>2. CASE \A b \in Branches : Keeps(b)
  BY <1>1, <1>2 DEF Keeps, BranchFits, PortsDistinct, Rests
<1>3. ASSUME NEW b \in Branches, Appears(b)
      PROVE  (\A x \in Branches : BranchFits(x)') /\ PortsDistinct'
  <2>1. row'[b].port # NoPort /\ \A x \in Branches : row[x].port # row'[b].port
    BY <1>3, Constants DEF Appears, UsedPorts
  <2>2. PortsDistinct'
    BY <1>1, <1>3, <2>1 DEF Appears, OthersKeep, Keeps, PortsDistinct
  <2>3. \A x \in Branches : BranchFits(x)'
    BY <1>1, <1>3, <2>1 DEF Appears, OthersKeep, Keeps, BranchFits, Rests
  <2>4. QED
    BY <2>2, <2>3
<1>4. ASSUME NEW b \in Branches, Goes(b)
      PROVE  (\A x \in Branches : BranchFits(x)') /\ PortsDistinct'
  <2>1. row'[b].port = NoPort /\ row'[b].state = "absent"
    BY <1>4 DEF Goes, NoRow
  <2>2. PortsDistinct'
    BY <1>1, <1>4, <2>1 DEF Goes, OthersKeep, Keeps, PortsDistinct
  <2>3. \A x \in Branches : BranchFits(x)'
    BY <1>1, <1>4, <2>1 DEF Goes, OthersKeep, Keeps, BranchFits, Rests
  <2>4. QED
    BY <2>2, <2>3
<1>5. QED
  BY <1>2, <1>3, <1>4 DEF RowStep

\* What was looked up still holds when the row changes under it.
LEMMA PortFound ==
    ASSUME Typed, Routes, RowStep, NEW c \in Clients, sess[c].branch \in Branches,
           SessionFits(c), sess[c].pc \in Located, ~sess[c].gone,
           sess'[c].branch = sess[c].branch, ~sess'[c].gone
    PROVE  sess[c].port # NoPort /\ row'[sess[c].branch].port = sess[c].port
<1> DEFINE b == sess[c].branch
<1>1. sess[c].port # NoPort /\ row[b].port = sess[c].port /\ row[b].state # "absent"
  BY DEF SessionFits, Routes, BranchFits
<1>2. Keeps(b)
  BY <1>1 DEF RowStep, Appears, Goes, OthersKeep
<1>3. QED
  BY <1>1, <1>2 DEF Keeps

\* Where a session may go without learning anything.
Onward(c, pc) ==
    /\ pc \in Trusted => sess[c].pc \in Trusted
    /\ pc \in Located => sess[c].pc \in Located
    /\ sess[c].pc \in {"touch", "answer", "pipe"} => pc \in {"touch", "answer", "pipe"}

\* A session that goes on to a later step has what that step relies on.
LEMMA OnwardFits ==
    ASSUME Typed, Routes, RowStep, NEW c \in Clients, ~At(c, "closed"),
           NEW pc, Goto(c, pc), Onward(c, pc)
    PROVE  SessionFits(c)'
<1>1. /\ At(c, pc)' /\ SameClient(c) /\ SamePeer(c) /\ SamePort(c)
      /\ SessionFits(c) /\ sess[c].branch \in Branches
  BY Writes DEF Routes, Typed, ProxyTyped, SessionsNamed, Named, At
<1>2. sess'[c].pc \in Located /\ ~sess'[c].gone =>
          sess'[c].port # NoPort /\ row'[sess'[c].branch].port = sess'[c].port
  BY <1>1, PortFound DEF At, SameClient, SamePort, Onward
<1>3. QED
  BY <1>1, <1>2 DEF At, SameClient, SamePeer, SamePort, Onward, SessionFits

\* Nothing is asked of a session that is closed.
LEMMA ClosedFits ==
    ASSUME NEW c \in Clients, sess'[c] = Closed
    PROVE  SessionFits(c)' /\ LockFits(c)'
<1>1. /\ Closed.pc = "closed" /\ Closed.peer = NoBranch /\ ~Closed.old
  BY DEF Closed
<1>2. QED
  BY <1>1 DEF SessionFits, LockFits, Trusted, Located

\* A session that has looked up its branch.
LEMMA FindsFits ==
    ASSUME Typed, Routes, UNCHANGED row, NEW c \in Clients,
           sess[c].pc \in {"route", "again", "poll"},
           NEW pc \in {"acquire", "wake", "poll"},
           Finds(c, pc, row[sess[c].branch].port),
           row[sess[c].branch].state # "absent"
    PROVE  SessionFits(c)'
<1> DEFINE b == sess[c].branch
<1>1. SessionFits(c) /\ b \in Branches /\ row[b].port # NoPort
  BY DEF Routes, Typed, ProxyTyped, SessionsNamed, Named, BranchFits
<1>2. /\ sess[c].password = "right" /\ sess[c].peer = NoBranch /\ ~sess[c].old
  BY <1>1 DEF SessionFits, Trusted
<1>3. At(c, pc)' /\ SameClient(c) /\ SamePeer(c)
      /\ sess'[c].port = row[b].port /\ ~sess'[c].gone
  <2> DEFINE p == row[b].port
  <2>1. Finds(c, pc, p)
    OBVIOUS
  <2> HIDE DEF p
  <2>2. At(c, pc)' /\ SameClient(c) /\ SamePeer(c) /\ sess'[c].port = p /\ ~sess'[c].gone
    BY <2>1, Writes
  <2>3. QED
    BY <2>2 DEF p
<1>4. QED
  BY <1>1, <1>2, <1>3 DEF At, SameClient, SamePeer, SessionFits

\* Every step of a session leaves it what it relies on.
LEMMA SessionRoutes ==
    ASSUME Typed, Typed', Routes, RowStep, NEW c \in Clients, SessionStep(c)
    PROVE  SessionFits(c)'
<1> DEFINE b == sess[c].branch
<1>1. /\ SessionFits(c) /\ LockFits(c)
      /\ \A x \in Branches : BranchFits(x)
      /\ ~At(c, "closed") => b \in Branches
  BY DEF Routes, Typed, ProxyTyped, SessionsNamed, Named, At
<1>2. Leave(c) \/ ReleaseSession(c) => SessionFits(c)'
  BY Writes, ClosedFits DEF ReleaseSession
<1>3. CASE Connects(c)
  <2>1. PICK x, k, p : sess' = [sess EXCEPT ![c] = [Closed EXCEPT
            !.pc = "slot", !.branch = x, !.key = k, !.password = p]]
    BY <1>3 DEF Connects, ConnectMySQL, ConnectPostgres, Admitted
  <2>2. sess \in [Clients -> Sessions]
    BY NamedTyped DEF Typed, ProxyTyped
  <2>3. sess'[c].pc = "slot" /\ sess'[c].peer = NoBranch /\ ~sess'[c].old
    BY <2>1, <2>2 DEF Closed
  <2>4. QED
    BY <2>3 DEF SessionFits, Trusted, Located
<1>4. CASE ReadPenalty(c)
  <2> DEFINE w == Penalty(sess[c].key)
             f == w = 0
  <2>1. Waits(c, w, f) /\ At(c, "slot")
    BY <1>4 DEF ReadPenalty, Waits
  <2> HIDE DEF w, f
  <2>2. At(c, "wait")' /\ SameClient(c) /\ SamePeer(c)
    BY <2>1, Writes
  <2>3. sess[c].peer = NoBranch /\ ~sess[c].old
    BY <1>1, <2>1 DEF SessionFits, At
  <2>4. QED
    BY <2>2, <2>3 DEF At, SameClient, SamePeer, SessionFits, Trusted, Located
<1>5. CASE VerifyMySQL(c) \/ VerifyPostgres(c)
  <2>1. At(c, "wait")
    BY <1>5 DEF VerifyMySQL, VerifyPostgres
  <2>2. \/ Goto(c, "verified") /\ sess[c].password = "right"
        \/ Goto(c, "refused")
    BY <1>5 DEF VerifyMySQL, VerifyPostgres, Verified, Mismatch
  <2>3. sess[c].peer = NoBranch /\ ~sess[c].old
    BY <1>1, <2>1 DEF SessionFits, At
  <2>4. /\ SameClient(c) /\ SamePeer(c)
        /\ \/ At(c, "verified")' /\ sess[c].password = "right"
           \/ At(c, "refused")'
    BY <2>2, Writes
  <2>5. QED
    BY <2>3, <2>4 DEF At, SameClient, SamePeer, SessionFits, Trusted, Located
<1>6. CASE ReturnSlot(c)
  <2>1. CASE At(c, "verified") /\ Goto(c, "route")
    <3>1. Onward(c, "route") /\ ~At(c, "closed")
      BY <2>1 DEF Onward, At, Trusted, Located
    <3>2. QED
      BY <2>1, <3>1, OnwardFits
  <2>2. QED
    BY <1>2, <1>6, <2>1 DEF ReturnSlot
<1>7. CASE Route(c) \/ WaitRunning(c)
  <2> DEFINE p == row[b].port
  <2>1. UNCHANGED row /\ sess[c].pc \in {"route", "again", "poll"}
    BY <1>7 DEF Route, WaitRunning, branchVars, At
  <2>2. CASE At(c, "route") /\ Goto(c, "create")
    <3>1. Onward(c, "create") /\ ~At(c, "closed")
      BY <2>2 DEF Onward, At, Trusted, Located
    <3>2. QED
      BY <2>2, <3>1, OnwardFits
  <2>3. CASE row[b].state # "absent"
             /\ (Finds(c, "acquire", p) \/ Finds(c, "wake", p) \/ Finds(c, "poll", p))
    BY <2>1, <2>3, FindsFits
  <2>4. QED
    BY <1>2, <1>7, <2>2, <2>3 DEF Route, WaitRunning, Finds
<1>8. CASE LazyCreate(c)
  <2>1. CASE Goto(c, "again")
    <3>1. Onward(c, "again") /\ ~At(c, "closed")
      BY <1>8, <2>1 DEF LazyCreate, Onward, At, Trusted, Located
    <3>2. QED
      BY <2>1, <3>1, OnwardFits
  <2>2. ASSUME NEW p \in Ports, row' = [row EXCEPT ![b] = NewRow("creating", p)],
               Finds(c, "creating", p)
        PROVE  SessionFits(c)'
    <3>1. sess[c].password = "right" /\ sess[c].peer = NoBranch /\ ~sess[c].old
      BY <1>1, <1>8 DEF LazyCreate, SessionFits, At, Trusted
    <3>2. row' = [row EXCEPT ![b] = NewRow("creating", p)]
      BY <2>2
    <3>3. row'[b] = NewRow("creating", p)
      BY <1>1, <1>8, <3>2 DEF LazyCreate, At, Typed, ProxyTyped, ProxyTypeOK
    <3>4. row'[b].port = p /\ p # NoPort
      BY <3>3, Constants DEF NewRow
    <3>5. At(c, "creating")' /\ SameClient(c) /\ SamePeer(c) /\ sess'[c].port = p
      BY <2>2, Writes
    <3>6. QED
      BY <3>1, <3>4, <3>5 DEF At, SameClient, SamePeer, SessionFits
  <2>3. QED
    BY <1>2, <1>8, <2>1, <2>2 DEF LazyCreate, Finds
<1>9. CASE Wake(c)
  <2>1. Goto(c, "waking") \/ Goto(c, "acquire") \/ Leave(c)
    BY <1>9 DEF Wake
  <2>2. Onward(c, "waking") /\ Onward(c, "acquire") /\ ~At(c, "closed")
    BY <1>9 DEF Wake, Onward, At, Trusted, Located
  <2>3. QED
    BY <1>2, <2>1, <2>2, OnwardFits
<1>10. CASE Provisioned(c)
  <2>1. Goto(c, "acquire") \/ Leave(c)
    BY <1>10 DEF Provisioned
  <2>2. Onward(c, "acquire") /\ ~At(c, "closed")
    BY <1>10 DEF Provisioned, Onward, At, Trusted, Located
  <2>3. QED
    BY <1>2, <2>1, <2>2, OnwardFits
<1>11. CASE TakeSlot(c)
  <2>1. Goto(c, "dial") \/ Leave(c)
    BY <1>11 DEF TakeSlot
  <2>2. Onward(c, "dial") /\ ~At(c, "closed")
    BY <1>11 DEF TakeSlot, Onward, At, Trusted, Located
  <2>3. QED
    BY <1>2, <2>1, <2>2, OnwardFits
<1>12. CASE Dial(c)
  <2>1. ASSUME NEW x \in Listening(sess[c].port),
               sess' = [sess EXCEPT ![c].pc = "touch", ![c].peer = x]
        PROVE  SessionFits(c)'
    <3>1. At(c, "touch")' /\ SameClient(c) /\ SamePort(c) /\ sess'[c].peer = x
      BY <2>1, Writes
    <3>2. sess[c].password = "right" /\ b \in Branches
      BY <1>1, <1>12 DEF Dial, SessionFits, At, Trusted
    <3>3. ~sess[c].gone => x = b
      <4>1. x \in Branches /\ row[x].port = sess[c].port
        BY <2>1 DEF Listening
      <4>2. ~sess[c].gone => sess[c].port # NoPort /\ row[b].port = sess[c].port
        BY <1>1, <1>12 DEF Dial, SessionFits, At, Located
      <4>3. QED
        BY <3>2, <4>1, <4>2 DEF Routes, PortsDistinct
    <3>4. QED
      BY <3>1, <3>2, <3>3, Constants
      DEF At, SameClient, SamePort, SessionFits, Trusted, Located, Listening
  <2>2. QED
    BY <1>2, <1>12, <2>1 DEF Dial
<1>13. CASE Touch(c)
  <2>1. Goto(c, "answer")
    BY <1>13 DEF Touch
  <2>2. Onward(c, "answer") /\ ~At(c, "closed")
    BY <1>13 DEF Touch, Onward, At, Trusted, Located
  <2>3. QED
    BY <2>1, <2>2, OnwardFits
<1>14. CASE AnswerMySQL(c) \/ ForwardStartup(c)
  <2>1. Goto(c, "pipe") \/ GivenUp(c) \/ ReleaseSession(c)
    BY <1>14 DEF AnswerMySQL, ForwardStartup
  <2>2. Onward(c, "pipe") /\ ~At(c, "closed")
    BY <1>14 DEF AnswerMySQL, ForwardStartup, Onward, At, Trusted, Located
  <2>3. CASE GivenUp(c)
    <3>1. sess[c].password = "right"
      BY <1>1, <1>14 DEF AnswerMySQL, ForwardStartup, SessionFits, At, Trusted
    <3>2. At(c, "pipe")' /\ SameName(c) /\ sess'[c].peer = NoBranch /\ ~sess'[c].old
      BY <2>3, Writes
    <3>3. QED
      BY <3>1, <3>2 DEF At, SameName, SessionFits, Located
  <2>4. QED
    BY <1>2, <2>1, <2>2, <2>3, OnwardFits
<1>15. CASE Hangup(c)
  BY <1>2, <1>15 DEF Hangup
<1>16. CASE ForwardKey(c)
  BY <1>1, <1>16 DEF ForwardKey, branchVars, SessionFits
<1>17. QED
  BY <1>3, <1>4, <1>5, <1>6, <1>7, <1>8, <1>9, <1>10, <1>11, <1>12, <1>13, <1>14, <1>15,
     <1>16
  DEF SessionStep, Advance

\* The lock of a branch that is being provisioned.
LEMMA SessionLocks ==
    ASSUME Typed, Typed', Routes, NEW c \in Clients, SessionStep(c)
    PROVE  \A d \in Clients : LockFits(d)'
<1> DEFINE b == sess[c].branch
<1>1. /\ \A d \in Clients : LockFits(d)
      /\ row \in [Branches -> Rows] /\ lock \in [Branches -> Clients \cup {Free}]
      /\ ~At(c, "closed") => b \in Branches
      /\ OnlyMoves(c)
  BY OthersStay DEF Routes, Typed, ProxyTyped, ProxyTypeOK, SessionsNamed, Named, At
<1>2. ASSUME UNCHANGED <<row, lock>>, sess'[c].pc \notin {"waking", "creating"}
      PROVE  \A d \in Clients : LockFits(d)'
  BY <1>1, <1>2 DEF LockFits, OnlyMoves
<1>3. ASSUME ~At(c, "closed"), lock[b] = Free \/ lock[b] = c,
             \A x \in Branches \ {b} : row'[x] = row[x] /\ lock'[x] = lock[x]
      PROVE  \A d \in Clients \ {c} : LockFits(d)'
  <2> SUFFICES ASSUME NEW d \in Clients \ {c}, sess[d].pc \in {"waking", "creating"}
               PROVE  /\ lock'[sess[d].branch] = d
                      /\ row'[sess[d].branch].state # "absent"
    BY <1>1 DEF OnlyMoves, LockFits
  <2>1. /\ lock[sess[d].branch] = d /\ row[sess[d].branch].state # "absent"
        /\ sess[d].branch \in Branches
    BY <1>1 DEF LockFits, Typed, ProxyTyped, SessionsNamed, Named
  <2>2. sess[d].branch # b
    BY <1>3, <2>1, Constants
  <2>3. QED
    BY <1>3, <2>1, <2>2
<1>4. CASE Connects(c) \/ ReadPenalty(c) \/ VerifyMySQL(c) \/ VerifyPostgres(c)
            \/ ReturnSlot(c)
  <2>1. UNCHANGED <<row, lock>>
    BY <1>4
    DEF Connects, ConnectMySQL, ConnectPostgres, Admitted, ReadPenalty, VerifyMySQL,
        VerifyPostgres, ReturnSlot, branchVars
  <2>2. sess'[c].pc \notin {"waking", "creating"}
    <3>1. CASE ReturnSlot(c)
      <4>1. At(c, "route")' \/ sess'[c] = Closed
        BY <3>1, Writes DEF ReturnSlot
      <4>2. QED
        BY <4>1 DEF At, Closed
    <3>2. QED
      BY <1>4, <3>1, Hops DEF At, InVerification
  <2>3. QED
    BY <1>2, <2>1, <2>2
<1>5. CASE Route(c) \/ WaitRunning(c)
  <2> DEFINE p == row[b].port
  <2>1. /\ UNCHANGED <<row, lock>>
        /\ \/ Finds(c, "acquire", p) \/ Finds(c, "wake", p)
           \/ Finds(c, "poll", p) \/ Goto(c, "create") \/ Leave(c)
    BY <1>5 DEF Route, WaitRunning, branchVars, Finds
  <2> HIDE DEF p
  <2>2. \/ At(c, "acquire")' \/ At(c, "wake")' \/ At(c, "poll")' \/ At(c, "create")'
        \/ sess'[c] = Closed
    BY <2>1, Writes
  <2>3. QED
    BY <1>2, <2>1, <2>2 DEF At, Closed
<1>6. CASE TakeSlot(c) \/ Dial(c) \/ AnswerMySQL(c) \/ ForwardKey(c)
            \/ ForwardStartup(c) \/ Hangup(c)
  <2>1. UNCHANGED <<row, lock>>
    BY <1>6
    DEF TakeSlot, Dial, AnswerMySQL, ForwardKey, ForwardStartup, Hangup, branchVars
  <2>2. \/ At(c, "dial")' \/ At(c, "touch")' \/ At(c, "answer")' \/ At(c, "pipe")'
        \/ sess'[c] = Closed
    <3>1. ForwardKey(c) => At(c, "answer")'
      BY DEF ForwardKey, At
    <3>2. (TakeSlot(c) \/ Dial(c) \/ AnswerMySQL(c) \/ ForwardStartup(c) \/ Hangup(c)) =>
              \/ At(c, "dial")' \/ At(c, "touch")' \/ At(c, "pipe")' \/ sess'[c] = Closed
      BY Writes
      DEF TakeSlot, Dial, AnswerMySQL, ForwardStartup, Hangup, ReleaseSession
    <3>3. QED
      BY <1>6, <3>1, <3>2
  <2>3. QED
    BY <1>2, <2>1, <2>2 DEF At, Closed
<1>7. CASE Touch(c)
  <2>1. b \in Branches /\ UNCHANGED lock /\ At(c, "answer")'
    BY <1>1, <1>7, Writes DEF Touch, At
  <2>2. TouchLastConn(b) \/ UNCHANGED row
    BY <1>7 DEF Touch
  <2>3. \A x \in Branches : row'[x].state = row[x].state
    BY <2>1, <2>2, TouchKeeps
  <2>4. \A d \in Clients : LockFits(d) => LockFits(d)'
    BY <1>1, <2>1, <2>3
    DEF OnlyMoves, LockFits, At, Typed, ProxyTyped, SessionsNamed, Named
  <2>5. QED
    BY <1>1, <2>4
<1>8. CASE LazyCreate(c) \/ Wake(c)
  <2>1. ~At(c, "closed") /\ lock[b] = Free
    BY <1>8 DEF LazyCreate, Wake, At
  <2>2. \A x \in Branches \ {b} : row'[x] = row[x] /\ lock'[x] = lock[x]
    BY <1>1, <1>8 DEF LazyCreate, Wake
  <2>3. \A d \in Clients \ {c} : LockFits(d)'
    BY <1>3, <2>1, <2>2
  <2>4. LockFits(c)'
    <3>1. CASE Leave(c)
      BY <3>1, Writes, ClosedFits
    <3>2. CASE Goto(c, "again") \/ Goto(c, "acquire")
      <4>1. At(c, "again")' \/ At(c, "acquire")'
        BY <3>2, Writes
      <4>2. QED
        BY <4>1 DEF At, LockFits
    <3>3. ASSUME NEW p \in Ports, Finds(c, "creating", p),
                 row' = [row EXCEPT ![b] = NewRow("creating", p)],
                 lock' = [lock EXCEPT ![b] = c]
          PROVE  LockFits(c)'
      <4>1. SameClient(c)
        BY <3>3, Writes
      <4>2. lock'[b] = c /\ row'[b] = NewRow("creating", p)
        BY <1>1, <2>1, <3>3
      <4>3. row'[b].state # "absent"
        BY <4>2 DEF NewRow
      <4>4. QED
        BY <4>1, <4>2, <4>3 DEF SameClient, LockFits
    <3>4. ASSUME Goto(c, "waking"), lock' = [lock EXCEPT ![b] = c],
                 row[b].state # "absent",
                 UNCHANGED row \/ row' = [row EXCEPT ![b].state = "running", ![b].age = 0]
          PROVE  LockFits(c)'
      <4>1. SameClient(c)
        BY <3>4, Writes
      <4>2. lock'[b] = c /\ b \in Branches
        BY <1>1, <2>1, <3>4
      <4>3. row'[b].state # "absent"
        BY <3>4, <4>2, RowWrites DEF RowStates
      <4>4. QED
        BY <4>1, <4>2, <4>3 DEF SameClient, LockFits
    <3>5. QED
      BY <1>8, <3>1, <3>2, <3>3, <3>4 DEF LazyCreate, Wake, Finds
  <2>5. QED
    BY <2>3, <2>4
<1>9. CASE Provisioned(c)
  <2>1. ~At(c, "closed") /\ lock[b] = c /\ row[b].state # "absent"
    BY <1>1, <1>9 DEF Provisioned, At, LockFits
  <2>2. \A x \in Branches \ {b} : row'[x] = row[x] /\ lock'[x] = lock[x]
    BY <1>1, <1>9 DEF Provisioned
  <2>3. \A d \in Clients \ {c} : LockFits(d)'
    BY <1>3, <2>1, <2>2
  <2>4. At(c, "acquire")' \/ sess'[c] = Closed
    BY <1>9, Writes DEF Provisioned
  <2>5. LockFits(c)'
    BY <2>4 DEF At, Closed, LockFits
  <2>6. QED
    BY <2>3, <2>5
<1>10. QED
  BY <1>4, <1>5, <1>6, <1>7, <1>8, <1>9 DEF SessionStep, Advance

\* What StartReap has marked is only ever cut off, by anything but StartReap.
OldStays(c) == sess'[c].old => sess[c].old /\ sess'[c].peer = sess[c].peer
DirectStays(b) == direct'[b] = "old" => direct[b] = "old"

\* The end of an engine marks no connection as old.
LEMMA CutOld ==
    ASSUME Typed, NEW x, NEW c \in Clients,
           \/ sess' = Cut(x)
           \/ sess' = [d \in Clients |->
                  IF sess[d].branch = x THEN [Cut(x)[d] EXCEPT !.gone = TRUE]
                  ELSE Cut(x)[d]]
    PROVE  OldStays(c)
<1> DEFINE m == Cut(x)[c]
<1>1. sess[c] \in Sessions
  BY NamedTyped DEF Typed, ProxyTyped
<1>2. m \in Sessions /\ (m.old => sess[c].old /\ m.peer = sess[c].peer)
  BY <1>1 DEF Cut, Sessions
<1>3. sess'[c] = m \/ sess'[c] = [m EXCEPT !.gone = TRUE]
  BY DEF Cut
<1> HIDE DEF m
<1>4. QED
  BY <1>2, <1>3 DEF OldStays, Sessions

\* A pass that begins marks the connections there are.
LEMMA StartMarks ==
    ASSUME Typed, StartReap, NEW c \in Clients
    PROVE  /\ sess'[c].old <=> sess[c].peer # NoBranch
           /\ sess'[c].peer = sess[c].peer
<1>1. sess[c] \in Sessions
  BY NamedTyped DEF Typed, ProxyTyped
<1>2. sess'[c] = [sess[c] EXCEPT !.old = sess[c].peer # NoBranch]
  BY DEF StartReap
<1>3. QED
  BY <1>1, <1>2 DEF Sessions

\* Nothing else around the sessions makes a connection old.
LEMMA EnvironmentOld ==
    ASSUME Typed, Environment
    PROVE  /\ UNCHANGED lock
           /\ \/ StartReap
              \/ /\ \A c \in Clients : OldStays(c)
                 /\ \A b \in Branches : DirectStays(b)
<1> DEFINE Stay == /\ UNCHANGED lock
                   /\ \A c \in Clients : OldStays(c)
                   /\ \A b \in Branches : DirectStays(b)
<1>1. /\ \A c \in Clients : sess[c] \in Sessions
      /\ DOMAIN direct = Branches
  BY NamedTyped DEF Typed, ProxyTyped, ProxyTypeOK
<1>2. UNCHANGED <<sess, direct, lock>> => Stay
  BY DEF OldStays, DirectStays
<1>3. ASSUME NEW b \in Branches, SleepBody(b) \/ DeleteBody(b), UNCHANGED lock PROVE Stay
  <2>1. \A x \in Branches : DirectStays(x)
    BY <1>1, <1>3 DEF SleepBody, DeleteBody, EngineEnds, DirectStays
  <2>2. QED
    BY <1>3, <2>1, CutOld DEF SleepBody, DeleteBody
<1>4. ASSUME Tick PROVE Stay
  <2>1. UNCHANGED <<lock, direct>>
    BY <1>4 DEF Tick
  <2>2. ASSUME NEW c \in Clients PROVE OldStays(c)
    <3>1. PICK w : sess'[c] = [sess[c] EXCEPT !.wait = w]
      BY <1>4 DEF Tick
    <3>2. QED
      BY <1>1, <3>1 DEF OldStays, Sessions
  <2>3. QED
    BY <2>1, <2>2 DEF DirectStays
<1>5. ASSUME NEW b \in Branches, Asked(b) PROVE Stay
  <2>1. CASE ApiSleep(b) \/ ApiDelete(b)
    BY <1>3, <2>1 DEF ApiSleep, ApiDelete
  <2>2. CASE EngineDies(b)
    BY <1>1, <2>2, CutOld DEF EngineDies, EngineEnds, DirectStays
  <2>3. CASE ApiCreate(b) \/ Lease(b)
    BY <1>2, <2>3 DEF ApiCreate, Lease, sessionVars
  <2>4. CASE DirectConnect(b) \/ DirectClose(b)
    BY <1>1, <2>4 DEF DirectConnect, DirectClose, sessionVars, OldStays, DirectStays
  <2>5. QED
    BY <1>5, <2>1, <2>2, <2>3, <2>4 DEF Asked
<1>6. ASSUME ReapStop \/ ReapDelete PROVE Stay
  <2>1. reap.branch \in Branches
    BY <1>6 DEF ReapStop, ReapDelete, Typed, PassTyped, Decided
  <2>2. \/ UNCHANGED <<sess, direct, lock>>
        \/ (SleepBody(reap.branch) \/ DeleteBody(reap.branch)) /\ UNCHANGED lock
    BY <1>6 DEF ReapStop, ReapDelete
  <2>3. QED
    BY <1>2, <1>3, <2>1, <2>2
<1>7. ReapLook \/ EndReap \/ ReapCount => Stay
  BY <1>2 DEF ReapLook, EndReap, ReapCount, proxyVars, sessionVars, branchVars
<1>8. PollerStep => Stay
  BY <1>2 DEF PollerStep, StartPoll, PollOne, EndPoll, proxyVars, sessionVars, branchVars
<1>9. UNCHANGED vars => Stay
  BY <1>2 DEF vars, proxyVars, sessionVars, branchVars
<1>10. StartReap => UNCHANGED lock
  BY DEF StartReap
<1>11. Stay \/ StartReap
  BY <1>4, <1>5, <1>6, <1>7, <1>8, <1>9 DEF Environment, ReaperStep
<1>12. QED
  BY <1>10, <1>11

\* A session keeps what it relies on while calls, passes and time go on
\* around it.
LEMMA EnvironmentRoutes ==
    ASSUME Typed, Typed', Routes, Environment, RowStep, NEW c \in Clients
    PROVE  SessionFits(c)' /\ LockFits(c)'
<1>1. /\ SessionFits(c) /\ LockFits(c) /\ Remains(c) /\ UNCHANGED lock
      /\ ~At(c, "closed") => sess[c].branch \in Branches
      /\ sess[c] \in Sessions
  BY EnvironmentRemains, EnvironmentOld, NamedTyped
  DEF Routes, Typed, ProxyTyped, SessionsNamed, Named, At
<1>2. sess'[c].old => sess'[c].peer # NoBranch
  <2>1. CASE StartReap
    BY <2>1, StartMarks
  <2>2. CASE OldStays(c)
    BY <1>1, <2>2 DEF OldStays, SessionFits
  <2>3. QED
    BY <2>1, <2>2, EnvironmentOld
<1>3. sess'[c].pc \in Located /\ ~sess'[c].gone =>
          sess'[c].port # NoPort /\ row'[sess'[c].branch].port = sess'[c].port
  BY <1>1, PortFound DEF Remains, Located, At
<1>4. SessionFits(c)'
  BY <1>1, <1>2, <1>3 DEF Remains, SessionFits
<1>5. LockFits(c)'
  <2> SUFFICES ASSUME sess[c].pc \in {"waking", "creating"}
               PROVE  row'[sess[c].branch].state # "absent"
    BY <1>1 DEF Remains, LockFits
  <2>1. /\ sess[c].branch \in Branches /\ row[sess[c].branch].state # "absent"
        /\ lock[sess[c].branch] # Free
    BY <1>1, Constants DEF LockFits, At
  <2>2. Keeps(sess[c].branch)
    BY <2>1 DEF RowStep, Appears, Goes, OthersKeep
  <2>3. QED
    BY <2>1, <2>2 DEF Keeps
<1>6. QED
  BY <1>4, <1>5

\* Every step keeps Routes.
LEMMA RoutesNext ==
    ASSUME Typed, Typed', Routes, [Next]_vars
    PROVE  Routes'
<1>1. RowStep /\ \A b \in Branches : Rests(b)
  BY StepsSplit, SessionRows, EnvironmentRows
<1>2. (\A b \in Branches : BranchFits(b)') /\ PortsDistinct'
  BY <1>1, PortsStay
<1>3. CASE Environment
  BY <1>1, <1>2, <1>3, EnvironmentRoutes DEF Routes
<1>4. ASSUME NEW c \in Clients, SessionStep(c) PROVE Routes'
  <2>1. ASSUME NEW d \in Clients \ {c} PROVE SessionFits(d)'
    <3>1. SessionFits(d) /\ sess'[d] = sess[d]
          /\ (~At(d, "closed") => sess[d].branch \in Branches)
      BY <1>4, OthersStay
      DEF OnlyMoves, Routes, Typed, ProxyTyped, SessionsNamed, Named, At
    <3>2. sess'[d].pc \in Located /\ ~sess'[d].gone =>
              sess'[d].port # NoPort /\ row'[sess'[d].branch].port = sess'[d].port
      BY <1>1, <3>1, PortFound DEF Located, At
    <3>3. QED
      BY <3>1, <3>2 DEF SessionFits
  <2>2. SessionFits(c)'
    BY <1>1, <1>4, SessionRoutes
  <2>3. \A d \in Clients : LockFits(d)'
    BY <1>4, SessionLocks
  <2>4. QED
    BY <1>2, <2>1, <2>2, <2>3 DEF Routes
<1>5. QED
  BY <1>3, <1>4, StepsSplit

\* At first there is no session, and every row with a state has a port of its
\* own.
LEMMA RoutesInit == Init => Routes
<1> SUFFICES ASSUME Init PROVE Routes
  OBVIOUS
<1>1. \A c \in Clients : sess[c] = Closed
  BY DEF Init, ProxyInit
<1>2. \A c \in Clients : SessionFits(c) /\ LockFits(c)
  BY <1>1 DEF Closed, SessionFits, LockFits, Trusted, Located
<1>3. PICK f \in [Branches -> Ports \cup {NoPort}] :
          /\ \A b \in Branches : f[b] = NoPort <=> b \notin conf.running
          /\ \A x, y \in conf.running : f[x] = f[y] => x = y
          /\ row = [b \in Branches |->
                IF b \in conf.running THEN NewRow("running", f[b]) ELSE NoRow]
  BY DEF Init, ProxyInit
<1>4. ASSUME NEW b \in Branches
      PROVE  IF b \in conf.running
             THEN row[b].state = "running" /\ row[b].port = f[b] /\ f[b] # NoPort
             ELSE row[b].state = "absent" /\ row[b].port = NoPort
  <2>1. row[b] = IF b \in conf.running THEN NewRow("running", f[b]) ELSE NoRow
    BY <1>3
  <2>2. QED
    BY <1>3, <2>1 DEF NewRow, NoRow
<1>5. ASSUME NEW b \in Branches PROVE BranchFits(b)
  <2>1. b \notin conf.running => Quiet(b)
    BY <1>1, Constants DEF Init, ProxyInit, Quiet, Closed
  <2>2. QED
    BY <1>4, <2>1 DEF BranchFits
<1>6. PortsDistinct
  BY <1>3, <1>4 DEF PortsDistinct
<1>7. QED
  BY <1>2, <1>5, <1>6 DEF Routes

\* Routes holds of every reachable state.
LEMMA AlwaysRoutes == Spec => []Routes
<1>1. Typed /\ Typed' /\ Routes /\ [Next]_vars => Routes'
  BY RoutesNext
<1>2. QED
  BY <1>1, RoutesInit, AlwaysTyped, PTL DEF Spec

\* A client talks to the engine of the branch it named, and to no other, unless
\* that branch was deleted after the look-up: ports are not shared, and a
\* sleeping branch keeps its own (AllocPort, routeExisting, Dial).
THEOREM RightBranch == Spec => []PipedToNamedBranch
<1>1. Routes => PipedToNamedBranch
  BY DEF Routes, SessionFits, PipedToNamedBranch
<1>2. QED
  BY <1>1, AlwaysRoutes, PTL

\* Nobody who has not shown the password creates or wakes a branch or reaches
\* an engine (authTerminate).
THEOREM PasswordFirst == Spec => BranchNeedsPassword
<1>1. Routes' /\ [Next]_vars =>
        [\A c \in Clients :
            (sess'[c].pc \in {"creating", "waking", "touch"} /\ sess[c].pc # sess'[c].pc)
                => sess'[c].password = "right"]_vars
  BY DEF Routes, SessionFits, Trusted
<1>2. QED
  BY <1>1, AlwaysRoutes, PTL DEF Spec, BranchNeedsPassword

-----------------------------------------------------------------------------
(***************************************************************************)
(* Passes                                                                  *)
(***************************************************************************)

\* No step of a session makes a connection old.
LEMMA SessionOld ==
    ASSUME Typed, Routes, NEW c \in Clients, SessionStep(c)
    PROVE  /\ \A d \in Clients : OldStays(d)
           /\ UNCHANGED direct
<1>1. /\ OnlyMoves(c) /\ SessionFits(c)
      /\ sess[c] \in Sessions
  BY OthersStay, NamedTyped DEF Routes, Typed, ProxyTyped
<1>2. UNCHANGED direct
  BY DEF SessionStep, Advance, Connects, ConnectMySQL, ConnectPostgres, Admitted,
         ReadPenalty, VerifyMySQL, VerifyPostgres, ReturnSlot, Route, LazyCreate, Wake,
         Provisioned, WaitRunning, TakeSlot, Dial, Touch, AnswerMySQL, ForwardKey,
         ForwardStartup, Hangup, branchVars
<1>3. (\A pc : Goto(c, pc) => OldStays(c)) /\ (\A pc, p : Finds(c, pc, p) => OldStays(c))
  BY Writes DEF SameClient, SamePeer, OldStays
<1>4. Leave(c) \/ ReleaseSession(c) \/ GivenUp(c) => OldStays(c)
  <2>1. ~Closed.old
    BY DEF Closed
  <2>2. QED
    BY <2>1, Writes DEF ReleaseSession, OldStays
<1>5. CASE Connects(c)
  <2>1. PICK x, k, p : sess' = [sess EXCEPT ![c] = [Closed EXCEPT
            !.pc = "slot", !.branch = x, !.key = k, !.password = p]]
    BY <1>5 DEF Connects, ConnectMySQL, ConnectPostgres, Admitted
  <2>2. DOMAIN sess = Clients
    BY NamedTyped DEF Typed, ProxyTyped
  <2>3. ~sess'[c].old
    BY <2>1, <2>2 DEF Closed
  <2>4. QED
    BY <1>1, <1>2, <2>3 DEF OnlyMoves, OldStays
<1>6. CASE ReadPenalty(c)
  <2> DEFINE w == Penalty(sess[c].key)
             f == w = 0
  <2>1. Waits(c, w, f)
    BY <1>6 DEF ReadPenalty, Waits
  <2> HIDE DEF w, f
  <2>2. SameClient(c) /\ SamePeer(c)
    BY <2>1, Writes
  <2>3. QED
    BY <1>1, <1>2, <2>2 DEF OnlyMoves, OldStays, SameClient, SamePeer
<1>7. CASE Route(c) \/ WaitRunning(c)
  <2> DEFINE p == row[sess[c].branch].port
  <2>1. \/ Finds(c, "acquire", p) \/ Finds(c, "wake", p)
        \/ Finds(c, "poll", p) \/ Goto(c, "create") \/ Leave(c)
    BY <1>7 DEF Route, WaitRunning, Finds
  <2> HIDE DEF p
  <2>2. OldStays(c)
    BY <2>1, <1>3, <1>4
  <2>3. QED
    BY <1>1, <1>2, <2>2 DEF OnlyMoves, OldStays
<1>8. CASE Dial(c)
  <2>1. ASSUME NEW x, sess' = [sess EXCEPT ![c].pc = "touch", ![c].peer = x]
        PROVE  OldStays(c)
    <3>1. SameClient(c)
      BY <2>1, Writes
    <3>2. ~sess[c].old
      BY <1>1, <1>8 DEF Dial, At, SessionFits
    <3>3. QED
      BY <3>1, <3>2 DEF SameClient, OldStays
  <2>2. OldStays(c)
    BY <1>4, <1>8, <2>1 DEF Dial
  <2>3. QED
    BY <1>1, <1>2, <2>2 DEF OnlyMoves, OldStays
<1>9. CASE LazyCreate(c)
  <2>1. \/ Goto(c, "again") \/ (\E p \in Ports : Finds(c, "creating", p)) \/ Leave(c)
    BY <1>9 DEF LazyCreate, Finds
  <2>2. OldStays(c)
    BY <1>3, <1>4, <2>1
  <2>3. QED
    BY <1>1, <1>2, <2>2 DEF OnlyMoves, OldStays
<1>10. CASE VerifyMySQL(c) \/ VerifyPostgres(c) \/ ReturnSlot(c) \/ Wake(c)
             \/ Provisioned(c) \/ TakeSlot(c) \/ Touch(c) \/ AnswerMySQL(c)
             \/ ForwardStartup(c) \/ Hangup(c)
  <2>1. (\E pc : Goto(c, pc)) \/ Leave(c) \/ ReleaseSession(c) \/ GivenUp(c)
    BY <1>10
    DEF VerifyMySQL, VerifyPostgres, Verified, Mismatch, ReturnSlot, Wake, Provisioned,
        TakeSlot, Touch, AnswerMySQL, ForwardStartup, Hangup
  <2>2. OldStays(c)
    BY <1>3, <1>4, <2>1
  <2>3. QED
    BY <1>1, <1>2, <2>2 DEF OnlyMoves, OldStays
<1>11. CASE ForwardKey(c)
  BY <1>1, <1>2, <1>11 DEF ForwardKey, OldStays
<1>12. QED
  BY <1>5, <1>6, <1>7, <1>8, <1>9, <1>10, <1>11 DEF SessionStep, Advance

\* Nobody becomes one of the old connections while a pass runs, and the port
\* under one of them does not change.
LEMMA OldFits ==
    ASSUME Typed, Typed', Routes, [Next]_vars, ~StartReap, NEW b \in Branches, Old(b)'
    PROVE  Old(b) /\ Keeps(b)
<1>1. (\A c \in Clients : OldStays(c)) /\ (\A x \in Branches : DirectStays(x))
  BY StepsSplit, EnvironmentOld, SessionOld DEF DirectStays
<1>2. Old(b)
  BY <1>1 DEF Old, OldStays, DirectStays
<1>3. RowStep /\ Routes' /\ BranchFits(b)
  BY StepsSplit, SessionRows, EnvironmentRows, RoutesNext DEF Routes
<1>4. ~Quiet(b) /\ ~Quiet(b)'
  BY <1>2 DEF Quiet, Old
<1>5. row[b].state # "absent" /\ row'[b].state # "absent"
  BY <1>3, <1>4 DEF Routes, BranchFits
<1>6. QED
  BY <1>2, <1>3, <1>5 DEF RowStep, Appears, Goes, OthersKeep, NoRow

\* A branch whose engine counts no connection has none that is old.
LEMMA CountedNone ==
    ASSUME Typed, Routes, NEW b \in Branches, NEW p, Listening(p) # {},
           ConnCount(p) = 0, row[b].port = p
    PROVE  ~Old(b)
<1> DEFINE x == CHOOSE y \in Listening(p) : TRUE
           S == {c \in Clients : Connected(c, x)}
<1>1. x \in Branches /\ row[x].port = p /\ up[x]
  BY DEF Listening
<1>2. p # NoPort
  BY <1>1 DEF Routes, BranchFits, Quiet
<1>3. x = b
  BY <1>1, <1>2 DEF Routes, PortsDistinct
<1>4. IsFiniteSet(S) /\ Cardinality(S) \in Nat
  BY Constants, FS_Subset, FS_CardinalityType
<1>5. Cardinality(S) = 0 /\ direct[x] = "none"
  <2>1. Cardinality(S) + (IF direct[x] = "none" THEN 0 ELSE 1) = 0
    BY DEF ConnCount
  <2> HIDE DEF S, x
  <2>2. QED
    BY <1>4, <2>1
<1>6. S = {}
  BY <1>4, <1>5, FS_EmptySet
<1>7. QED
  BY <1>3, <1>5, <1>6 DEF Old, Connected

\* The pass between two branches, and a decision.
LEMMA PassWrites ==
    ASSUME Typed, NEW b \in Branches
    PROVE  /\ NextBranch(b) => /\ reap'.pc = "look" /\ reap'.why = "none"
                               /\ reap'.list[b].state = "absent"
                               /\ \A x \in Branches \ {b} :
                                     reap'.list[x] = reap.list[x]
           /\ \A pc, why : Decide(b, pc, why) =>
                 /\ reap'.pc = pc /\ reap'.branch = b /\ reap'.why = why
                 /\ reap'.list = reap.list
<1>1. reap \in Passes
  BY DEF Typed, PassTyped
<1>2. reap.list \in [Branches -> Rows]
  BY <1>1 DEF Passes
<1>3. NextBranch(b) => /\ reap'.pc = "look" /\ reap'.why = "none"
                       /\ reap'.list[b].state = "absent"
                       /\ \A x \in Branches \ {b} : reap'.list[x] = reap.list[x]
  <2>1. NextBranch(b) => /\ reap'.pc = "look" /\ reap'.why = "none"
                         /\ reap'.list = Unlisted(b)
    BY DEF NextBranch, Resting
  <2>2. /\ Unlisted(b)[b].state = "absent"
        /\ \A x \in Branches \ {b} : Unlisted(b)[x] = reap.list[x]
    BY <1>2 DEF Unlisted, NoRow
  <2>3. QED
    BY <2>1, <2>2
<1>4. \A pc, why : Decide(b, pc, why) =>
         /\ reap'.pc = pc /\ reap'.branch = b /\ reap'.why = why
         /\ reap'.list = reap.list
  BY DEF Decide
<1>5. QED
  BY <1>3, <1>4

\* Every step keeps PassFits.
LEMMA PassNext ==
    ASSUME Typed, Typed', Routes, PassFits, [Next]_vars
    PROVE  PassFits'
<1>1. \A b \in Branches : ListFits(b)
  BY DEF PassFits
<1>2. \A b \in Branches : ~StartReap /\ Old(b)' => Old(b) /\ Keeps(b)
  BY OldFits
<1>3. CASE UNCHANGED reap /\ ~StartReap
  <2>1. \A b \in Branches : ListFits(b)'
    BY <1>1, <1>2, <1>3 DEF ListFits, Keeps
  <2>2. reap.pc \in {"stop", "delete"} /\ reap.why = "idle" => ~Old(reap.branch)'
    BY <1>2, <1>3 DEF PassFits, Typed, PassTyped, Decided
  <2>3. QED
    BY <1>3, <2>1, <2>2 DEF PassFits
<1>4. CASE StartReap
  <2>1. reap' = [Resting EXCEPT !.pc = "look", !.list = row]
    BY <1>4 DEF StartReap
  <2>2. reap'.pc = "look" /\ reap'.list = row
    BY <2>1 DEF Resting
  <2>3. UNCHANGED row
    BY <1>4 DEF StartReap
  <2>4. ASSUME NEW b \in Branches, Old(b)' PROVE row[b].state # "sleeping"
    <3>1. ~Quiet(b)'
      BY <2>4 DEF Quiet, Old
    <3>2. Routes'
      BY RoutesNext
    <3>3. QED
      BY <2>3, <3>1, <3>2 DEF Routes, BranchFits
  <2>5. QED
    BY <2>2, <2>3, <2>4 DEF PassFits, ListFits
<1>5. reap.pc # "idle" => ~StartReap
  BY DEF StartReap
<1>6. ASSUME NEW b \in Branches, NextBranch(b), reap.pc # "idle" PROVE PassFits'
  <2>1. /\ reap'.pc = "look"
        /\ \A x \in Branches : reap'.list[x].state # "absent" =>
              reap'.list[x] = reap.list[x]
    BY <1>6, PassWrites
  <2>2. \A x \in Branches : ListFits(x)'
    BY <1>1, <1>2, <1>5, <1>6, <2>1 DEF ListFits, Keeps
  <2>3. QED
    BY <2>1, <2>2 DEF PassFits
<1>7. ASSUME NEW b \in Branches, NEW pc, NEW why, Decide(b, pc, why), reap.pc # "idle",
             pc = "count" => reap.list[b].state # "absent",
             pc \in {"stop", "delete"} /\ why = "idle" => ~Old(b)
      PROVE  PassFits'
  <2>1. /\ reap'.pc = pc /\ reap'.branch = b /\ reap'.why = why
        /\ reap'.list = reap.list
    BY <1>7, PassWrites
  <2>2. \A x \in Branches : ListFits(x)'
    BY <1>1, <1>2, <1>5, <1>7, <2>1 DEF ListFits, Keeps
  <2>3. ~Old(b) => ~Old(b)'
    BY <1>2, <1>5, <1>7
  <2>4. QED
    BY <1>7, <2>1, <2>2, <2>3 DEF PassFits
<1>8. CASE ReapLook
  <2>1. PICK b \in Branches :
            /\ reap.list[b].state # "absent"
            /\ LookExpired(b) \/ LookError(b) \/ LookIdle(b)
    BY <1>8 DEF ReapLook
  <2>2. reap.pc = "look"
    BY <1>8 DEF ReapLook
  <2>3. CASE NextBranch(b)
    BY <1>6, <2>2, <2>3
  <2>4. CASE \E pc \in {"stop", "delete"}, why \in {"lease", "error"} : Decide(b, pc, why)
    BY <1>7, <2>2, <2>4
  <2>5. CASE Decide(b, "count", "idle")
    BY <1>7, <2>1, <2>2, <2>5
  <2>6. ASSUME Decide(b, "delete", "idle"), reap.list[b].state = "sleeping" PROVE PassFits'
    <3>1. ~Old(b)
      BY <1>1, <2>2, <2>6 DEF ListFits
    <3>2. QED
      BY <1>7, <2>2, <2>6, <3>1
  <2>7. QED
    BY <2>1, <2>3, <2>4, <2>5, <2>6
    DEF LookExpired, LookError, LookIdle, DeleteDue, StopDue, Lives
<1>9. CASE ReapCount
  <2> DEFINE b == reap.branch
             p == reap.list[b].port
             pc == IF DeleteDue(reap.list[b]) /\ b \notin conf.backing THEN "delete" ELSE "stop"
  <2>1. /\ reap.pc = "count" /\ b \in Branches /\ reap.list[b].state # "absent"
    BY <1>9 DEF ReapCount, PassFits, Typed, PassTyped, Decided
  <2>2. ASSUME Listening(p) # {}, ConnCount(p) = 0, Decide(b, pc, "idle") PROVE PassFits'
    <3>1. pc \in {"stop", "delete"}
      OBVIOUS
    <3>2. ~Old(b)
      BY <1>1, <2>1, <2>2, CountedNone DEF ListFits
    <3> HIDE DEF b, pc
    <3>3. QED
      BY <1>7, <2>1, <2>2, <3>1, <3>2
  <2>3. CASE NextBranch(b)
    BY <1>6, <2>1, <2>3
  <2>4. QED
    BY <1>9, <2>2, <2>3 DEF ReapCount
<1>10. CASE ReapStop \/ ReapDelete
  <2>1. /\ reap.pc # "idle" /\ reap.branch \in Branches /\ NextBranch(reap.branch)
    BY <1>10 DEF ReapStop, ReapDelete, Typed, PassTyped, Decided
  <2>2. QED
    BY <1>6, <2>1
<1>11. CASE EndReap
  <2>1. reap'.pc = "idle"
    BY <1>11 DEF EndReap, Resting
  <2>2. QED
    BY <2>1 DEF PassFits, ListFits
<1>12. CASE UNCHANGED reap
  BY <1>3, <1>4, <1>12
<1>13. UNCHANGED reap \/ ReaperStep
  BY DEF Next, PollerStep, StartPoll, PollOne, EndPoll, vars
<1>14. QED
  BY <1>4, <1>8, <1>9, <1>10, <1>11, <1>12, <1>13 DEF ReaperStep

\* At first there is no pass.
LEMMA PassInit == Init => PassFits
BY DEF Init, Resting, PassFits, ListFits

\* PassFits holds of every reachable state.
LEMMA AlwaysPass == Spec => []PassFits
<1>1. Typed /\ Typed' /\ Routes /\ PassFits /\ [Next]_vars => PassFits'
  BY PassNext
<1>2. QED
  BY <1>1, PassInit, AlwaysTyped, AlwaysRoutes, PTL DEF Spec

\* Whoever was connected when the reaper listed the branches is not cut off for
\* idleness, however stale the list and the poller's numbers are: the engine is
\* asked once more, at a port that is still the branch's (Reap, ConnCount).
THEOREM SparesConnected == Spec => IdleSparesConnected
<1>1. Typed /\ PassFits /\ [Next]_vars =>
        [(reap.pc \in {"stop", "delete"} /\ reap.why = "idle") =>
          /\ \A c \in Clients :
                (sess[c].old /\ sess[c].peer = reap.branch /\ ReaperStep)
                    => sess'[c].peer = sess[c].peer
          /\ (direct[reap.branch] = "old" /\ ReaperStep)
                    => direct'[reap.branch] = "old"]_vars
  BY DEF PassFits, Old
<1>2. QED
  BY <1>1, AlwaysTyped, AlwaysPass, PTL DEF Spec, IdleSparesConnected

=============================================================================
