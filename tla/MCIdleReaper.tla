---------------------------- MODULE MCIdleReaper ----------------------------
(***************************************************************************)
(* IdleReaper for TLC.  One instance per question: many wrong passwords    *)
(* from one address; one branch under the reaper, with idle periods, with  *)
(* a lease, and promoted; two names that share the ports.                  *)
(***************************************************************************)
EXTENDS IdleReaper

CONSTANTS b1, b2, c1, c2, c3, k1

Guessing ==
    [engine |-> "mysql", sources |-> {k1}, passwords |-> {"right", "wrong"},
     requests |-> {},
     branches |-> {b1}, clients |-> {c1, c2, c3}, running |-> {}, backing |-> {},
     lazy |-> FALSE, passes |-> FALSE, maxFaults |-> 0,
     idleStop |-> 0, deleteIdle |-> 0, errorRetention |-> 0, touchEvery |-> 0]

Idling ==
    [engine |-> "mysql", sources |-> {NoSource}, passwords |-> {"right"},
     requests |-> {"direct"},
     branches |-> {b1}, clients |-> {c1}, running |-> {b1}, backing |-> {},
     lazy |-> TRUE, passes |-> TRUE, maxFaults |-> 1,
     idleStop |-> 1, deleteIdle |-> 2, errorRetention |-> 2, touchEvery |-> 1]

Leasing  == [Idling EXCEPT !.passwords = {"right", "wrong"},
                           !.requests = {"lease", "create"}, !.deleteIdle = 0,
                           !.errorRetention = 0, !.touchEvery = 0]
Promoted == [Idling EXCEPT !.engine = "postgres", !.backing = {b1}, !.requests = {"lease"},
                           !.passwords = {"right", "broken"},
                           !.touchEvery = 0, !.maxFaults = 0]

Moving ==
    [engine |-> "postgres", sources |-> {NoSource}, passwords |-> {"right"},
     requests |-> {"delete", "sleep"},
     branches |-> {b1, b2}, clients |-> {c1, c2}, running |-> {b1}, backing |-> {},
     lazy |-> TRUE, passes |-> FALSE, maxFaults |-> 0,
     idleStop |-> 0, deleteIdle |-> 0, errorRetention |-> 0, touchEvery |-> 0]

Instances == {Guessing, Idling, Leasing, Promoted, Moving}
=============================================================================
