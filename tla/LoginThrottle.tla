---------------------------- MODULE LoginThrottle ----------------------------
(***************************************************************************)
(* The login throttle (identity/security/rate_limit.py) and the two login  *)
(* services that use it: both keys are checked before the password work,   *)
(* which is awaited in a worker thread, and a failure is registered only   *)
(* after it, so attempts admitted together all count later.                *)
(***************************************************************************)
EXTENDS Integers, Sequences, FiniteSets, FiniteSetsExt

CONSTANTS
  Ips, Accounts,    \* client addresses (one of them the shared "unknown") and emails
  Attempts,         \* login requests that may be in flight at once
  MaxAttempts,      \* per key namespace: failures in a window that arm a lockout
  Window,           \* window_seconds
  BaseLockout, MaxLockout,
  MaxTime           \* bound on the clock

ASSUME ThrottleAssumption ==
  /\ MaxAttempts \in [{"ip", "account"} -> Nat \ {0}]
  /\ Window \in Nat /\ BaseLockout \in Nat /\ MaxLockout \in Nat
  \* as configured: 60 s, 60 s and 15 minutes
  /\ Window > 0 /\ Window <= BaseLockout /\ BaseLockout <= MaxLockout
  \* a lockout that can double outlives the window it punishes
  /\ Window < MaxLockout
  /\ IsFiniteSet(Attempts)

\* Keys are namespaced, so the two budgets never collide.
ip_key(i)      == <<"ip", i>>
account_key(a) == <<"account", a>>
Keys == {ip_key(i) : i \in Ips} \union {account_key(a) : a \in Accounts}

_policy_for(key) == MaxAttempts[key[1]]

VARIABLES now,       \* the monotonic clock
          state,     \* per key: the failures in the window, the end of the lockout
          attempt    \* per request in flight: the keys it was admitted with

throttle_vars == <<now, state, attempt>>

_KeyState == [failures |-> << >>, locked_until |-> 0]

ThrottleInit ==
  /\ now = 0
  /\ state = [k \in Keys |-> _KeyState]
  /\ attempt = [r \in Attempts |-> {}]

Locked(key) == state[key].locked_until > now
check(key)  == ~Locked(key)

\* 2^n
Doubled[n \in Nat] == IF n = 0 THEN 1 ELSE 2 * Doubled[n - 1]

Lockout(overflow) ==
  LET length == BaseLockout * Doubled[overflow]
  IN IF length < MaxLockout THEN length ELSE MaxLockout

\* The deque from its first failure in the window: the older ones are popped.
Trimmed(failures) ==
  LET young == {n \in DOMAIN failures : failures[n] >= now - Window}
  IN IF young = {} THEN << >> ELSE SubSeq(failures, Min(young), Len(failures))

register_failure_Late(s, key) ==
  LET failures == Append(Trimmed(s.failures), now)
      overflow == Len(failures) - _policy_for(key)
  IN [failures     |-> failures,
      locked_until |-> IF overflow > 0 THEN now + Lockout(overflow) ELSE s.locked_until]
register_failure(s, key) ==
  LET failures == Append(Trimmed(s.failures), now)
      overflow == Len(failures) - _policy_for(key)
  IN [failures     |-> failures,
      locked_until |-> IF overflow >= 0 THEN now + Lockout(overflow) ELSE s.locked_until]

-----------------------------------------------------------------------------

Admit_IpOnly(r, i, a) ==
  /\ attempt[r] = {}
  /\ check(ip_key(i))
  /\ attempt' = [attempt EXCEPT ![r] = {ip_key(i), account_key(a)}]
  /\ UNCHANGED <<now, state>>
\* login up to the awaited password check: both budgets are asked.
Admit(r, i, a) ==
  /\ attempt[r] = {}
  /\ check(ip_key(i)) /\ check(account_key(a))
  /\ attempt' = [attempt EXCEPT ![r] = {ip_key(i), account_key(a)}]
  /\ UNCHANGED <<now, state>>

\* An unknown email, an inactive account or a wrong password: both keys pay.
LoginFails(r) ==
  /\ attempt[r] # {}
  /\ state' = [k \in Keys |-> IF k \in attempt[r] THEN register_failure(state[k], k)
                              ELSE state[k]]
  /\ attempt' = [attempt EXCEPT ![r] = {}]
  /\ UNCHANGED now

\* A login that succeeds, or is refused for its organization's status, leaves
\* the budgets alone; so does a request that is cut off.
LoginPasses(r) ==
  /\ attempt[r] # {}
  /\ attempt' = [attempt EXCEPT ![r] = {}]
  /\ UNCHANGED <<now, state>>

\* The process restarts: the store is in its memory.
Restart ==
  /\ state # [k \in Keys |-> _KeyState]
  /\ state' = [k \in Keys |-> _KeyState]
  /\ attempt' = [r \in Attempts |-> {}]
  /\ UNCHANGED now

Tick ==
  /\ now < MaxTime
  /\ now' = now + 1
  /\ UNCHANGED <<state, attempt>>

ThrottleNext ==
  \/ \E r \in Attempts : \/ \E i \in Ips, a \in Accounts : Admit(r, i, a)
                         \/ LoginFails(r) \/ LoginPasses(r)
  \/ Restart \/ Tick

ThrottleSpec == ThrottleInit /\ [][ThrottleNext]_throttle_vars

-----------------------------------------------------------------------------

\* Failures of a key in the last window.
Recent(key) == {n \in DOMAIN state[key].failures : state[key].failures[n] > now - Window}

\* "over its sliding-window limit OR inside a backoff lockout" (rate_limit.py):
\* check asks only for the lockout and is asked before the password work, so the
\* attempts in flight are charged after it.  Still a key with its limit of
\* failures in the last window is locked, in whatever order they finish, and no
\* key is charged more in a window than its limit and what was in flight.
BudgetIsKept ==
  \A k \in Keys :
    /\ Cardinality(Recent(k)) >= _policy_for(k) => Locked(k)
    /\ Len(state[k].failures) <= _policy_for(k) + Cardinality(Attempts)
=============================================================================
