------------------------------ MODULE Telemetry ------------------------------
(***************************************************************************)
(* Request metrics over sliding windows (net/telemetry.cpp).               *)
(*                                                                         *)
(* A handler takes the time at which its request finished, and enters the  *)
(* event later, under the lock: events enter the window in the order of    *)
(* the lock and not of their times.  Old events are pruned from the front  *)
(* only.  Times are ticks of the steady clock.  Latencies are left out:    *)
(* their mean is taken over the events that count_10s counts.              *)
(***************************************************************************)
EXTENDS Integers, Sequences, FiniteSets, FiniteSetsExt

CONSTANTS
    Second, TenSeconds, Minute, TenMinutes     \* in ticks

ASSUME TelemetryAssumption ==
    /\ Second \in Nat \ {0}
    /\ {TenSeconds, Minute, TenMinutes} \subseteq Nat
    /\ Second <= TenSeconds /\ TenSeconds <= Minute /\ Minute <= TenMinutes
    /\ TenMinutes % Second = 0

VARIABLES
    clock,
    window,            \* window_: events in the order they were entered
    total_requests, total_errors,
    observed           \* history: every event that was ever entered

telemetry == <<window, total_requests, total_errors, observed>>

Entry(when, ok) == [when |-> when, ok |-> ok]

\* Mutant: events that are exactly ten minutes old go, too.
pruned_early(w, now) ==
    LET old == {n \in 0..Len(w) : \A i \in 1..n : now - w[i].when >= TenMinutes}
    IN  SubSeq(w, Max(old) + 1, Len(w))

\* prune_locked: drop from the front while the front is too old.
prune_locked(w, now) ==
    LET old == {n \in 0..Len(w) : \A i \in 1..n : now - w[i].when > TenMinutes}
    IN  SubSeq(w, Max(old) + 1, Len(w))

\* Mutant: only successful requests are requests.
observe_ok(finished, ok) ==
    /\ window' = prune_locked(Append(window, Entry(finished, ok)), finished)
    /\ total_requests' = IF ok THEN total_requests + 1 ELSE total_requests
    /\ total_errors' = IF ok THEN total_errors ELSE total_errors + 1
    /\ observed' = Append(observed, Entry(finished, ok))

observe(finished, ok) ==
    /\ window' = prune_locked(Append(window, Entry(finished, ok)), finished)
    /\ total_requests' = total_requests + 1
    /\ total_errors' = IF ok THEN total_errors ELSE total_errors + 1
    /\ observed' = Append(observed, Entry(finished, ok))

\* Events of a window with an age in a set of ages.
Age(w, i) == clock - w[i].when
Within(w, bound) == {i \in 1..Len(w) : Age(w, i) <= bound}
Failed(w) == {i \in 1..Len(w) : ~w[i].ok}
Bucket(w, age) == {i \in 1..Len(w) : Age(w, i) \div Second = age}
\* Mutant: events that prune_locked left in the window are in some bucket.
AllBuckets == 0..(clock \div Second)
Buckets == 0..(TenMinutes \div Second)

\* snapshot: what it returns for the window that its prune leaves.
Snapshot ==
    LET w == prune_locked(window, clock)
        rps(age) == Cardinality(Bucket(w, age))
    IN  [total_requests |-> total_requests,
         total_errors |-> total_errors,
         current_rps |-> Cardinality(Within(w, Second)),
         count_10s |-> Cardinality(Within(w, TenSeconds)),
         errors_1m |-> Cardinality(Within(w, Minute) \cap Failed(w)),
         sum_10m |-> Cardinality({i \in 1..Len(w) : Age(w, i) \div Second \in Buckets}),
         max_10m |-> Max({rps(age) : age \in Buckets})]

snapshot ==
    /\ window' = prune_locked(window, clock)
    /\ UNCHANGED <<total_requests, total_errors, observed>>

tick == clock' = clock + 1

TelemetryInit ==
    /\ clock = 0
    /\ window = <<>>
    /\ total_requests = 0 /\ total_errors = 0
    /\ observed = <<>>

Entries == [when : 0..clock, ok : BOOLEAN]

TelemetryTypeOK ==
    /\ clock \in Nat
    /\ window \in Seq(Entries) /\ observed \in Seq(Entries)
    /\ Len(window) <= Len(observed)
    /\ total_requests \in Nat /\ total_errors \in 0..total_requests

(* SnapshotExact: whenever snapshot() is called, the totals, the requests  *)
(* of the last second, of the last ten seconds and the errors of the last  *)
(* minute are those of all events ever observed, although pruning looks at *)
(* the front of a window that is not in order.  The ten-minute figures     *)
(* count every event of the last ten minutes and none that is a second     *)
(* older: ages are cut to whole seconds, and an event between 600 and 601  *)
(* seconds old is counted when it stands behind a younger one.             *)
SnapshotExact ==
    LET s == Snapshot
        recent == Within(observed, TenMinutes)
        nearly == Within(observed, TenMinutes + Second - 1)
    IN  /\ s.total_requests = Len(observed)
        /\ s.total_errors = Cardinality(Failed(observed))
        /\ s.current_rps = Cardinality(Within(observed, Second))
        /\ s.count_10s = Cardinality(Within(observed, TenSeconds))
        /\ s.errors_1m = Cardinality(Within(observed, Minute) \cap Failed(observed))
        /\ s.sum_10m \in Cardinality(recent)..Cardinality(nearly)
        /\ s.max_10m >= Max({Cardinality(recent \cap Bucket(observed, a)) : a \in Buckets})
        /\ s.max_10m <= Max({Cardinality(Bucket(observed, a)) : a \in Buckets})
=============================================================================
