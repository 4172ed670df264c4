---------------------------- MODULE MCStandalone ----------------------------
(***************************************************************************)
(* Parts that share no state with each other, each explored on its own:    *)
(* the initial state chooses one, and only that one moves.  The pure       *)
(* functions do not move at all: every input is an initial state.          *)
(***************************************************************************)
EXTENDS PureFunctions, LoginThrottle, ExtractionBackfill, TLC

LoginAttempts == [ip |-> 3, account |-> 2]

VARIABLE part

vars == <<part, pure_vars, throttle_vars, backfill_vars>>

NoInput == input = [kind |-> "none"] /\ output = None

BackfillOff ==
  /\ row = [i \in Rows |-> Null] /\ engine = 0
  /\ ingest = [w \in Ingests |-> Null] /\ run = [r \in Runs |-> NoRun]

Init ==
  \/ part = "pure" /\ PureInit /\ ThrottleInit /\ BackfillOff
  \/ part = "throttle" /\ NoInput /\ ThrottleInit /\ BackfillOff
  \/ part = "backfill" /\ NoInput /\ ThrottleInit /\ BackfillInit

Next ==
  \/ part = "pure" /\ UNCHANGED vars
  \/ part = "throttle" /\ ThrottleNext /\ UNCHANGED <<part, pure_vars, backfill_vars>>
  \/ part = "backfill" /\ BackfillNext /\ UNCHANGED <<part, pure_vars, throttle_vars>>

Spec == Init /\ [][Next]_vars

\* Bounds on the backfill: one row of a type other engines read, one whose payload
\* is not on disk, and one run at a time that has requeued rows.
FewAtOnce ==
  /\ Cardinality({r \in Runs : run[r].pc # "idle" /\ run[r].stale # {}}) <= 1
  /\ Cardinality({i \in Rows : Stored(i) /\ row[i].type \notin OwnTypes}) <= 1
  /\ Cardinality({i \in Rows : Stored(i) /\ row[i].hash \notin OnDisk}) <= 1

Symmetry == Permutations(Runs) \union Permutations(Attempts) \union Permutations(Ips)
            \union Permutations(Accounts)
=============================================================================
