---------------------------- MODULE AuthLimiter ----------------------------
(***************************************************************************)
(* authlimit.Limiter: per source address, how many verifications are in    *)
(* flight and how often the password was wrong.  The caller takes a slot   *)
(* and then waits for the penalty before it verifies; the slot is held for *)
(* the verification only.                                                  *)
(*                                                                         *)
(* Time is counted in units of the base delay.  An entry keeps the age of  *)
(* the last failure, which stops growing once it is past the window, and   *)
(* the count stops growing where the delay does.                           *)
(***************************************************************************)
EXTENDS Naturals

CONSTANTS
    Sources,    \* source addresses
    NoSource,   \* the key of an address that could not be read: no limits
    MaxInFly,   \* concurrent verifications per source
    Threshold,  \* failures without a delay
    MaxDelay,   \* the longest delay
    Window      \* after this long without a failure, the failures are forgotten

ASSUME LimiterAssumption ==
    /\ MaxInFly \in Nat \ {0}
    /\ Threshold \in Nat
    /\ MaxDelay \in Nat \ {0}
    /\ Window \in Nat \ {0}
    /\ NoSource \notin Sources

VARIABLES
    inflight,  \* verifications of a source that hold a slot
    fails      \* failures of a source: how many, and how long ago the last was

\* Where the delay no longer grows: Threshold + MaxDelay doublings are more
\* than enough, because 2^n > n.
CountCap == Threshold + MaxDelay + 1
Entries  == [count : 0..CountCap, age : 0..(Window + 1)]
NoEntry  == [count |-> 0, age |-> 0]

Keys == Sources \cup {NoSource}

\* base, 2 base, 4 base, ... up to max; a shift that overflows gives max.
DelayFor(count) ==
    LET over == count - Threshold
    IN  IF count <= Threshold THEN 0
        ELSE IF over <= MaxDelay /\ 2^(over - 1) \in 1..MaxDelay THEN 2^(over - 1)
        ELSE MaxDelay

Forgotten(e) == e.age > Window

Penalty(k) ==
    IF k = NoSource \/ Forgotten(fails[k]) THEN 0 ELSE DelayFor(fails[k].count)

Admits(k) == k \in Sources => inflight[k] < MaxInFly

Acquire(k) ==
    /\ Admits(k)
    /\ inflight' = IF k = NoSource THEN inflight
                   ELSE [inflight EXCEPT ![k] = @ + 1]

SlotReturned(k) ==
    inflight' = IF k = NoSource \/ inflight[k] = 0 THEN inflight
                ELSE [inflight EXCEPT ![k] = @ - 1]

Capped(n) == IF n < CountCap THEN n ELSE CountCap

Fail(k) ==
    fails' = IF k = NoSource THEN fails
             ELSE [fails EXCEPT ![k] =
                 [count |-> IF Forgotten(@) THEN 1 ELSE Capped(@.count + 1),
                  age   |-> 0]]

Reset(k) ==
    fails' = IF k = NoSource THEN fails ELSE [fails EXCEPT ![k] = NoEntry]

\* One unit of time.
LimiterTick ==
    fails' = [k \in Sources |->
        IF fails[k].count = 0 \/ Forgotten(fails[k]) THEN fails[k]
        ELSE [fails[k] EXCEPT !.age = @ + 1]]

LimiterInit ==
    /\ inflight = [k \in Sources |-> 0]
    /\ fails = [k \in Sources |-> NoEntry]

LimiterTypeOK ==
    /\ inflight \in [Sources -> 0..MaxInFly]
    /\ fails \in [Sources -> Entries]
=============================================================================
