---- MODULE RateLimiter ----
(***************************************************************************)
(* The token bucket that every process of the service shares through one   *)
(* row of rate_limiter_tokens (internal/ratelimit/postgres.go).  A caller   *)
(* locks the row, reads its own clock, refills the bucket for the time      *)
(* since the row was last written, takes a token if there is a whole one    *)
(* and commits; otherwise it rolls back, sleeps and tries again.            *)
(*                                                                          *)
(* The unit of time is the time that refills one token (1/rps), so the      *)
(* refill rate is one per unit.  Each caller reads the clock of its own     *)
(* process, which may run ahead of the true time by up to Skew.             *)
(*                                                                          *)
(* rlMark is an observer: the beginning of an arbitrary window, with the    *)
(* number of requests let through until then.                               *)
(***************************************************************************)
EXTENDS Integers

CONSTANTS
  Callers,      \* goroutines, of any process, that call Wait
  Burst,        \* capacity of the bucket
  Skew,         \* how far a process clock may run ahead
  MaxRateTime   \* bound on the clock

ASSUME RateAssumption ==
  /\ Burst \in Nat \ {0}
  /\ Skew \in Nat
  /\ MaxRateTime \in Nat

VARIABLES rlRow, rlLock, rlCalls, rlClock, rlPassed, rlMark

limiterVars == <<rlRow, rlLock, rlCalls, rlClock, rlPassed, rlMark>>

\* A bucket as it is stored: its tokens and the time it was last refilled.
Bucket == [tokens : 0..Burst, refill : Nat]

RateTypeOK ==
  /\ rlRow \in [there : BOOLEAN, bucket : Bucket]
  /\ rlLock \in SUBSET Callers
  /\ rlCalls \in [Callers -> [pc : {"idle", "try", "locked", "taken", "asleep"},
                              bucket : Bucket]]
  /\ rlClock \in 0..MaxRateTime
  /\ rlPassed \in Nat
  /\ rlMark \in [time : 0..MaxRateTime, passed : Nat]

LimiterInit ==
  /\ rlRow = [there |-> FALSE, bucket |-> [tokens |-> Burst, refill |-> 0]]
  /\ rlLock = {}
  /\ rlCalls = [p \in Callers |->
                  [pc |-> "idle", bucket |-> [tokens |-> Burst, refill |-> 0]]]
  /\ rlClock = 0
  /\ rlPassed = 0
  /\ rlMark = [time |-> 0, passed |-> 0]

\* A caller moves to pc, holding the bucket b.
Moved(p, pc, b) == [rlCalls EXCEPT ![p] = [pc |-> pc, bucket |-> b]]

Wait(p) ==
  /\ rlCalls[p].pc = "idle"
  /\ rlCalls' = Moved(p, "try", rlCalls[p].bucket)
  /\ UNCHANGED <<rlRow, rlLock, rlClock, rlPassed, rlMark>>

\* The row the transaction reads: the committed one, or the full bucket its
\* own INSERT ... ON CONFLICT DO NOTHING created by the database's clock.
RowRead(now) == IF rlRow.there THEN rlRow.bucket
                ELSE [tokens |-> Burst, refill |-> now]

\* Mutant: a plain SELECT, which lets transactions overlap.
SelectWithoutLock(p) ==
  /\ rlCalls[p].pc = "try"
  /\ \E ahead \in 0..Skew :
       rlCalls' = Moved(p, "locked", RowRead(rlClock + ahead))
  /\ UNCHANGED <<rlRow, rlLock, rlClock, rlPassed, rlMark>>

\* SELECT ... FOR UPDATE: one transaction at a time gets past this point.
SelectForUpdate(p) ==
  /\ rlCalls[p].pc = "try"
  /\ rlLock = {}
  /\ rlLock' = {p}
  /\ \E ahead \in 0..Skew :
       rlCalls' = Moved(p, "locked", RowRead(rlClock + ahead))
  /\ UNCHANGED <<rlRow, rlClock, rlPassed, rlMark>>

\* The tokens in bucket b at the local time now, never more than Burst.
Refilled(b, now) == LET t == b.tokens + (now - b.refill)
                    IN IF t > Burst THEN Burst ELSE t

\* time.Now() after the lock is held, then the UPDATE, not yet committed.
Consume(p) ==
  /\ rlCalls[p].pc = "locked"
  /\ \E ahead \in 0..Skew :
       LET now == rlClock + ahead
           tokens == Refilled(rlCalls[p].bucket, now)
       IN /\ tokens >= 1
          /\ rlCalls' = Moved(p, "taken", [tokens |-> tokens - 1, refill |-> now])
  /\ UNCHANGED <<rlRow, rlLock, rlClock, rlPassed, rlMark>>

\* Less than one token: roll back and sleep for one refill.
Refuse(p) ==
  /\ rlCalls[p].pc = "locked"
  /\ \E ahead \in 0..Skew : Refilled(rlCalls[p].bucket, rlClock + ahead) < 1
  /\ rlCalls' = Moved(p, "asleep", rlCalls[p].bucket)
  /\ rlLock' = rlLock \ {p}
  /\ UNCHANGED <<rlRow, rlClock, rlPassed, rlMark>>

\* The commit lets the request through.
Commit(p) ==
  /\ rlCalls[p].pc = "taken"
  /\ rlRow' = [there |-> TRUE, bucket |-> rlCalls[p].bucket]
  /\ rlPassed' = rlPassed + 1
  /\ rlCalls' = Moved(p, "idle", rlCalls[p].bucket)
  /\ rlLock' = rlLock \ {p}
  /\ UNCHANGED <<rlClock, rlMark>>

\* A database error, or the caller's context ends: the transaction is rolled
\* back and Wait returns the error, so no request is sent.
GiveUp(p) ==
  /\ rlCalls[p].pc # "idle"
  /\ rlCalls' = Moved(p, "idle", rlCalls[p].bucket)
  /\ rlLock' = rlLock \ {p}
  /\ UNCHANGED <<rlRow, rlClock, rlPassed, rlMark>>

WakeUp(p) ==
  /\ rlCalls[p].pc = "asleep"
  /\ rlCalls' = Moved(p, "try", rlCalls[p].bucket)
  /\ UNCHANGED <<rlRow, rlLock, rlClock, rlPassed, rlMark>>

TimePasses ==
  /\ rlClock < MaxRateTime
  /\ rlClock' = rlClock + 1
  /\ UNCHANGED <<rlRow, rlLock, rlCalls, rlPassed, rlMark>>

\* The observer opens a new window now.
OpenWindow ==
  /\ rlMark' = [time |-> rlClock, passed |-> rlPassed]
  /\ UNCHANGED <<rlRow, rlLock, rlCalls, rlClock, rlPassed>>

LimiterNext ==
  \/ \E p \in Callers : \/ Wait(p) \/ SelectForUpdate(p) \/ Consume(p) \/ Refuse(p)
                        \/ Commit(p) \/ GiveUp(p) \/ WakeUp(p)
  \/ TimePasses
  \/ OpenWindow

LimiterSpec == LimiterInit /\ [][LimiterNext]_limiterVars

\* In any window, the requests let through by all processes together are at
\* most the burst plus one per refill time of the window, give or take the
\* clock skew and the one transaction that was open when the window began
\* (postgres.go: "safe for use across multiple processes").
RateHolds ==
  rlPassed - rlMark.passed <= Burst + 1 + (rlClock + Skew - rlMark.time)
====
