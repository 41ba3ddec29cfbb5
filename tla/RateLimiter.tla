----------------------------- MODULE RateLimiter -----------------------------
(***************************************************************************)
(* The request limiter of internal/middleware/ratelimit.go, one of the two *)
(* the router makes: the handler, its cleanup goroutine, and the goroutine *)
(* watchRateLimits that follows the setting in the database.  The handler  *)
(* and the cleanup hold the mutex from the first read to the last write,   *)
(* so each is one step.  Time is counted in ticks.                         *)
(***************************************************************************)
EXTENDS Naturals, Sequences, FiniteSets

CONSTANTS
  Ips,         \* client addresses
  Window,      \* window, in ticks
  DefaultRPM,  \* limit of the configuration
  Settings,    \* values an admin may store; 0 stands for one that is no positive number
  MaxTime,     \* bound: ticks; requests stop a window before the end
  MaxRequests, \* bound: requests of one client
  MaxChanges,  \* bound: changes of the setting
  MaxFaults    \* bound: database errors

ASSUME LimiterAssumption ==
  /\ Window \in Nat \ {0} /\ DefaultRPM \in Nat \ {0} /\ Settings \subseteq Nat
  /\ MaxTime \in Nat /\ MaxRequests \in Nat /\ MaxChanges \in Nat /\ MaxFaults \in Nat

VARIABLES
  now,      \* the clock
  limit,    \* RateLimiter.limit
  visitors, \* RateLimiter.visitors: a client's count (0: no entry) and lastSeen
  setting,  \* system_settings' value
  pending,  \* the value watchRateLimits has read and not yet set, if any
  changes,  \* changes of the setting still to happen
  faults,   \* database errors still to happen
  log       \* client -> its requests: when, admitted or not, under which limit (history)

watchVars == <<setting, pending, changes, faults>>
vars == <<now, limit, visitors, log, watchVars>>

NoVisitor == [count |-> 0, lastSeen |-> 0]

Init ==
  /\ now = 0
  /\ limit = DefaultRPM
  /\ visitors = [ip \in Ips |-> NoVisitor]
  /\ setting = DefaultRPM
  /\ pending = {}
  /\ changes = MaxChanges
  /\ faults = MaxFaults
  /\ log = [ip \in Ips |-> <<>>]

----------------------------------------------------------------------------
(* Handler and cleanup *)

Expired(ip) == now - visitors[ip].lastSeen > Window

\* Mutant of CountAfter: an old entry is left to the cleanup.
CountAfterNoExpiry(ip) == visitors[ip].count + 1

\* A client without an entry, or with an old one, starts again.
CountAfter(ip) ==
  IF visitors[ip].count = 0 \/ Expired(ip) THEN 1 ELSE visitors[ip].count + 1

\* The first request of a client is not compared with the limit.
Admits(n) == n = 1 \/ n <= limit

\* lastSeen moves with every request, rejected ones included.
Request(ip) ==
  /\ Len(log[ip]) < MaxRequests /\ now + Window < MaxTime
  /\ visitors' = [visitors EXCEPT ![ip] = [count |-> CountAfter(ip), lastSeen |-> now]]
  /\ log' = [log EXCEPT ![ip] =
               Append(@, [at |-> now, ok |-> Admits(CountAfter(ip)), limit |-> limit])]
  /\ UNCHANGED <<now, limit, watchVars>>

\* Mutant of Cleanup: whatever is not of this tick goes.
CleanupEager ==
  /\ visitors' = [ip \in Ips |-> IF now > visitors[ip].lastSeen THEN NoVisitor ELSE visitors[ip]]
  /\ UNCHANGED <<now, limit, log, watchVars>>

\* Mutant of Cleanup: the clients it would forget are those it keeps.
CleanupInverted ==
  /\ visitors' = [ip \in Ips |-> IF Expired(ip) THEN visitors[ip] ELSE NoVisitor]
  /\ UNCHANGED <<now, limit, log, watchVars>>

\* The goroutine wakes every window or later.
Cleanup ==
  /\ visitors' = [ip \in Ips |-> IF Expired(ip) THEN NoVisitor ELSE visitors[ip]]
  /\ UNCHANGED <<now, limit, log, watchVars>>

Tick ==
  /\ now < MaxTime
  /\ now' = now + 1
  /\ UNCHANGED <<limit, visitors, log, watchVars>>

----------------------------------------------------------------------------
(* The setting and watchRateLimits *)

ChangeSetting ==
  /\ changes > 0
  /\ changes' = changes - 1
  /\ setting' \in Settings
  /\ UNCHANGED <<now, limit, visitors, log, pending, faults>>

\* Mutant of Effective: a value that is no positive number is taken as it is.
EffectiveUnchecked(s) == s

\* A value that is no positive number is skipped and the default stays.
Effective(s) == IF s = 0 THEN DefaultRPM ELSE s

\* A connection lost between the rows ends the loop with the default: rows.Err is
\* not asked.  When the query itself fails the round is skipped.
WatchRead ==
  /\ pending = {}
  /\ \/ pending' = {Effective(setting)} /\ UNCHANGED faults
     \/ faults > 0 /\ faults' = faults - 1 /\ pending' \in {{}, {DefaultRPM}}
  /\ UNCHANGED <<now, limit, visitors, log, setting, changes>>

\* Mutant of WatchApply: only a lower limit is set.
WatchApplyLowers ==
  /\ pending # {}
  /\ \E n \in pending : limit' = IF n < limit THEN n ELSE limit
  /\ pending' = {}
  /\ UNCHANGED <<now, visitors, log, setting, changes, faults>>

WatchApply ==
  /\ \E n \in pending : limit' = n
  /\ pending' = {}
  /\ UNCHANGED <<now, visitors, log, setting, changes, faults>>

----------------------------------------------------------------------------
Next ==
  \/ \E ip \in Ips : Request(ip)
  \/ Cleanup \/ Tick
  \/ ChangeSetting \/ WatchRead \/ WatchApply

Spec == Init /\ [][Next]_vars

\* Time goes on, and both goroutines run for the life of the process.
FairSpec ==
  Spec /\ WF_vars(Tick) /\ WF_vars(Cleanup) /\ WF_vars(WatchRead) /\ WF_vars(WatchApply)

----------------------------------------------------------------------------
Entry == [at : Nat, ok : BOOLEAN, limit : Nat]

\* Every variable stays in its type, and no limit is 0.
TypeOK ==
  /\ now \in Nat
  /\ limit \in Nat \ {0}
  /\ visitors \in [Ips -> [count : Nat, lastSeen : Nat]]
  /\ setting \in Nat /\ pending \in SUBSET (Nat \ {0}) /\ changes \in Nat /\ faults \in Nat
  /\ log \in [Ips -> Seq(Entry)]

\* The requests admitted to a client in the window that ends with its i-th.
AdmittedInWindow(ip, i) ==
  {k \in 1 .. i : log[ip][k].ok /\ log[ip][k].at + Window >= log[ip][i].at}

\* In no window are more requests admitted than the limit then in force, whatever
\* the cleanup deletes and however the limit changes (ratelimit.go 56-72).
WindowWithinLimit ==
  \A ip \in Ips : \A i \in DOMAIN log[ip] :
    log[ip][i].ok => Cardinality(AdmittedInWindow(ip, i)) <= log[ip][i].limit

\* A client that was quiet for longer than a window is admitted, whether or not the
\* cleanup has seen its old entry.
QuietClientAdmitted ==
  \A ip \in Ips : \A i \in DOMAIN log[ip] :
    (i = 1 \/ log[ip][i].at - log[ip][i - 1].at > Window) => log[ip][i].ok

\* Clients that stay away are forgotten, so that the map does not grow for ever, and the
\* limit is that of the setting.
Settled == (\A ip \in Ips : visitors[ip].count = 0) /\ limit = Effective(setting)

=============================================================================
