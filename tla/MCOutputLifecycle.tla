-------------------------- MODULE MCOutputLifecycle --------------------------
(* Instances of OutputLifecycle for TLC: the sessions looked at.            *)
EXTENDS OutputLifecycle

Plan(start, stop, fault, faults, retryMax) ==
    [start |-> start, stop |-> stop, fault |-> fault, faults |-> faults,
     retryMax |-> retryMax, metaDataFails |-> retryMax = 0, patient |-> TRUE]

(* one session, stopped up to n times, broken once *)
Session(n) == Plan(1, n, 1, {"server", "encoder", "settings"}, 0)

(* the connection is lost twice, the one retry included; nobody stops *)
Exhausted == Plan(1, 0, 2, {"server"}, 1)

(* one session that loses its connection and retries while it is stopped *)
Retry == Plan(1, 1, 1, {"server"}, 1)

(* two sessions, the second started while the first still ends *)
Restart == [Plan(2, 2, 0, {}, 0) EXCEPT !.patient = FALSE]

FairPlans  == {Session(1), Exhausted}
OtherPlans == {Session(2), Retry, Restart}
RetryPlan  == {Retry}

=============================================================================
