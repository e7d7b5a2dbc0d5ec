----------------------------- MODULE RateLimit -----------------------------
(***************************************************************************)
(* rate-limit.service.ts, asked by rate-limit.guard.ts before every        *)
(* handler: one bucket, that of one client and one kind of path.  The      *)
(* buckets live in the process and are lost when it restarts; consume has  *)
(* no await, so each request is one step.                                  *)
(***************************************************************************)
EXTENDS Naturals, FiniteSets

CONSTANTS
    Limit,          \* requests per window
    WindowTicks,    \* length of a window
    LastTick,       \* bound: the run's last instant
    MaxPerTick,     \* bound: requests made at one instant
    MaxRestarts     \* bound: restarts of the process

(* The guard's limits and windows are literals, none of them zero.         *)
ASSUME LimitAssumption ==
    /\ Limit \in Nat \ {0} /\ WindowTicks \in Nat \ {0}
    /\ LastTick \in Nat /\ MaxPerTick \in Nat /\ MaxRestarts \in Nat

VARIABLES
    now,            \* Date.now()
    bucket,         \* the client's entry of the map
    asked,          \* history: [instant -> requests made]
    allowed,        \* history: the requests let through, each an instant and
                    \* the request's number among those of that instant
    restarts        \* history: how often the process has restarted

limitVars == <<now, bucket, asked, allowed, restarts>>

NoBucket == [count |-> 0, resetAt |-> 0]
Instants == 0..LastTick

LimitTypeOK ==
    /\ now \in Instants
    /\ bucket \in [count : Nat, resetAt : 0..(LastTick + WindowTicks)]
    /\ asked \in [Instants -> 0..MaxPerTick]
    /\ allowed \subseteq Instants \X (1..MaxPerTick)
    /\ restarts \in 0..MaxRestarts

LimitInit ==
    /\ now = 0
    /\ bucket = NoBucket
    /\ asked = [t \in Instants |-> 0]
    /\ allowed = {}
    /\ restarts = 0

----------------------------------------------------------------------------
(* A slip: the request that opens a window is not counted.  No action     *)
(* uses it.                                                                *)
CurrentWindowUncounted ==
    IF bucket.resetAt <= now
    THEN [count |-> 0, resetAt |-> now + WindowTicks]
    ELSE [bucket EXCEPT !.count = @ + 1]
----------------------------------------------------------------------------

(* The window the request falls in, with the request counted.              *)
CurrentWindow ==
    IF bucket.resetAt <= now
    THEN [count |-> 1, resetAt |-> now + WindowTicks]
    ELSE [bucket EXCEPT !.count = @ + 1]

consume ==
    /\ asked[now] < MaxPerTick
    /\ bucket' = CurrentWindow
    /\ asked' = [asked EXCEPT ![now] = @ + 1]
    /\ allowed' = IF bucket'.count <= Limit
                   THEN allowed \cup {<<now, asked'[now]>>} ELSE allowed
    /\ UNCHANGED <<now, restarts>>

(* Another client's request finds the map too large: expired entries go.   *)
DropExpired ==
    /\ bucket # NoBucket /\ bucket.resetAt <= now
    /\ bucket' = NoBucket
    /\ UNCHANGED <<now, asked, allowed, restarts>>

Restart ==
    /\ restarts < MaxRestarts
    /\ restarts' = restarts + 1
    /\ bucket' = NoBucket
    /\ UNCHANGED <<now, asked, allowed>>

ClockTicks ==
    /\ now < LastTick
    /\ now' = now + 1
    /\ UNCHANGED <<bucket, asked, allowed, restarts>>

LimitNext == consume \/ DropExpired \/ Restart \/ ClockTicks

----------------------------------------------------------------------------
LetThrough(t) == {q \in allowed : t <= q[1] /\ q[1] < t + WindowTicks}

(* The boundary of a window can fall into any burst: over a stretch as     *)
(* long as one window the guard may let more than the limit through, but   *)
(* less than twice the limit, for the request that opened the earlier      *)
(* window is out of the stretch by then; each restart that empties the map *)
(* adds at most one limit (rate-limit.service.ts, lines 7-17).             *)
BurstsAreBounded ==
    \A t \in Instants : Cardinality(LetThrough(t)) < (2 + restarts) * Limit
============================================================================
