---------------------------- MODULE Stores_proofs ----------------------------
(*****************************************************************************)
(* Proofs about what talks to the stores and to the catalogue: the calls to  *)
(* IGDB, the covers, the links of the games of a store, the refresh of the   *)
(* store links, how a library is fetched from a store, and the credentials   *)
(* it is fetched with.                                                       *)
(*****************************************************************************)
EXTENDS RateLimiter, IgdbClient, GameMetadata, ExternalGames, StoreLinks, StoreFetch, StoreConnections,
        Counting_proofs

---------------------------------------------------------------------------
(* The rate of the calls. *)

\* The rate bound of RateLimiter for every number of callers, burst, skew and clock
\* bound.  The invariant weighs a bucket against the window: what was let through since
\* the window opened plus what the bucket still holds cannot exceed what the window has
\* earned, Burst + 1 + its length.

\* A bucket b, when n requests have passed in the window, respects the bound.
\* A bucket last written before the window has seen at most one of them: the
\* one whose transaction was open when the window began.
Covered(b, n) ==
  /\ b.refill <= rlClock + Skew
  /\ \/ b.refill < rlMark.time /\ n <= 1 /\ n + b.tokens <= Burst
     \/ b.refill >= rlMark.time
        /\ n + b.tokens <= Burst + 1 + (b.refill - rlMark.time)

\* A transaction that has read the row holds the lock alone.
LockHeld ==
  \A p \in Callers : (rlCalls[p].pc \in {"locked", "taken"}) <=> p \in rlLock

LockWhole == \A p, q \in rlLock : p = q

InWindow == rlPassed - rlMark.passed

RowCovered ==
  IF rlRow.there THEN Covered(rlRow.bucket, InWindow) ELSE InWindow = 0

ReadCovered ==
  \A p \in Callers : rlCalls[p].pc = "locked" => Covered(rlCalls[p].bucket, InWindow)

TakenCovered ==
  \A p \in Callers :
    rlCalls[p].pc = "taken" =>
      /\ Covered(rlCalls[p].bucket, InWindow + 1)
      /\ rlCalls[p].bucket.tokens < Burst

RateInv ==
  /\ RateTypeOK
  /\ LockHeld
  /\ LockWhole
  /\ rlMark.time <= rlClock
  /\ InWindow >= 0
  /\ RowCovered
  /\ ReadCovered
  /\ TakenCovered

\* The bucket is counted against the window exactly as RateHolds asks.
LEMMA RateInvImplies == RateInv => RateHolds
<1> SUFFICES ASSUME RateInv PROVE RateHolds
  OBVIOUS
<1> USE RateAssumption DEF RateInv, RateTypeOK, Bucket, InWindow
<1>1. CASE rlRow.there
  <2>1. Covered(rlRow.bucket, InWindow)
    BY <1>1 DEF RowCovered
  <2> QED
    BY <2>1 DEF Covered, RateHolds
<1>2. CASE ~rlRow.there
  BY <1>2 DEF RowCovered, RateHolds
<1> QED
  BY <1>1, <1>2

\* Initially nothing has passed.
LEMMA RateInvInit == LimiterInit => RateInv
BY RateAssumption DEF LimiterInit, RateInv, RateTypeOK, Bucket, LockHeld, LockWhole,
   InWindow, RowCovered, ReadCovered, TakenCovered, Covered

\* One step per action.  Only the three that touch a bucket, the counter or
\* the window disturb the bounds.
LEMMA RateInvStep == RateInv /\ [LimiterNext]_limiterVars => RateInv'
<1> SUFFICES ASSUME RateInv, [LimiterNext]_limiterVars PROVE RateInv'
  OBVIOUS
<1> USE RateAssumption DEF RateInv, RateTypeOK, Bucket, InWindow, Moved
<1>1. ASSUME NEW p \in Callers, Wait(p) PROVE RateInv'
  BY <1>1, SMTT(60) DEF Wait, LockHeld, LockWhole, RowCovered, ReadCovered, TakenCovered, Covered
<1>2. ASSUME NEW p \in Callers, SelectForUpdate(p) PROVE RateInv'
  <2>1. PICK ahead \in 0..Skew : rlCalls' = Moved(p, "locked", RowRead(rlClock + ahead))
    BY <1>2 DEF SelectForUpdate
  <2> DEFINE b == RowRead(rlClock + ahead)
  <2>2. b \in Bucket
    BY <2>1 DEF RowRead
  <2>3. Covered(b, InWindow)
    BY <2>1 DEF RowRead, RowCovered, Covered
  <2>4. /\ rlLock = {} /\ rlLock' = {p}
        /\ rlCalls' = [rlCalls EXCEPT ![p] = [pc |-> "locked", bucket |-> b]]
        /\ UNCHANGED <<rlRow, rlClock, rlPassed, rlMark>>
    BY <1>2, <2>1 DEF SelectForUpdate
  <2> HIDE DEF b
  <2>5. RateTypeOK' /\ LockHeld' /\ LockWhole'
    BY <2>2, <2>4, SMTT(60) DEF LockHeld, LockWhole
  <2>6. RowCovered' /\ (InWindow >= 0)' /\ (rlMark.time <= rlClock)'
    BY <2>4 DEF RowCovered, Covered
  <2>7. ReadCovered'
    BY <2>3, <2>4 DEF ReadCovered, Covered
  <2>8. TakenCovered'
    BY <2>4 DEF TakenCovered, Covered
  <2> QED
    BY <2>5, <2>6, <2>7, <2>8
<1>3. ASSUME NEW p \in Callers, Consume(p) PROVE RateInv'
  <2>1. PICK ahead \in 0..Skew :
          LET now == rlClock + ahead
              tokens == Refilled(rlCalls[p].bucket, now)
          IN /\ tokens >= 1
             /\ rlCalls' = Moved(p, "taken", [tokens |-> tokens - 1, refill |-> now])
    BY <1>3 DEF Consume
  <2> DEFINE now == rlClock + ahead
             tokens == Refilled(rlCalls[p].bucket, now)
             b == [tokens |-> tokens - 1, refill |-> now]
  <2>2. now \in Nat /\ tokens \in 1..Burst
        /\ tokens <= rlCalls[p].bucket.tokens + (now - rlCalls[p].bucket.refill)
    BY <2>1 DEF Refilled
  <2>3. b \in Bucket /\ b.tokens < Burst
    BY <2>2
  <2>4. Covered(rlCalls[p].bucket, InWindow)
    BY <1>3 DEF Consume, ReadCovered
  <2>5. Covered(b, InWindow + 1)
    BY <2>2, <2>4 DEF Covered
  <2>6. /\ rlCalls[p].pc = "locked"
        /\ rlCalls' = [rlCalls EXCEPT ![p] = [pc |-> "taken", bucket |-> b]]
        /\ UNCHANGED <<rlRow, rlLock, rlClock, rlPassed, rlMark>>
    BY <1>3, <2>1 DEF Consume
  <2> HIDE DEF b
  <2>7. RateTypeOK' /\ LockHeld' /\ LockWhole'
    BY <2>3, <2>6, SMTT(60) DEF LockHeld, LockWhole
  <2>8. RowCovered' /\ (InWindow >= 0)' /\ (rlMark.time <= rlClock)'
    BY <2>6 DEF RowCovered, Covered
  <2>9. ReadCovered'
    BY <2>6 DEF ReadCovered, Covered
  <2>10. TakenCovered'
    BY <2>3, <2>5, <2>6 DEF TakenCovered, Covered
  <2> QED
    BY <2>7, <2>8, <2>9, <2>10
<1>4. ASSUME NEW p \in Callers, Refuse(p) PROVE RateInv'
  BY <1>4, SMTT(60) DEF Refuse, LockHeld, LockWhole, RowCovered, ReadCovered, TakenCovered, Covered
<1>5. ASSUME NEW p \in Callers, Commit(p) PROVE RateInv'
  <2>1. \A q \in rlLock' : FALSE
    BY <1>5 DEF Commit, LockHeld, LockWhole
  <2>2. Covered(rlCalls[p].bucket, InWindow + 1)
    BY <1>5 DEF Commit, TakenCovered
  <2>3. RateTypeOK' /\ LockWhole' /\ (InWindow >= 0)' /\ (rlMark.time <= rlClock)'
    BY <1>5, <2>1 DEF Commit, LockWhole
  <2>4. LockHeld'
    BY <1>5, <2>1, SMTT(60) DEF Commit, LockHeld
  <2>5. RowCovered'
    BY <1>5, <2>2 DEF Commit, RowCovered, Covered
  <2>6. ReadCovered' /\ TakenCovered'
    <3>1. \A q \in Callers : rlCalls'[q].pc \notin {"locked", "taken"}
      BY <2>1, <2>4, <2>3 DEF LockHeld
    <3> QED
      BY <3>1 DEF ReadCovered, TakenCovered
  <2> QED
    BY <2>3, <2>4, <2>5, <2>6
<1>6. ASSUME NEW p \in Callers, GiveUp(p) PROVE RateInv'
  BY <1>6, SMTT(60) DEF GiveUp, LockHeld, LockWhole, RowCovered, ReadCovered, TakenCovered, Covered
<1>7. ASSUME NEW p \in Callers, WakeUp(p) PROVE RateInv'
  BY <1>7, SMTT(60) DEF WakeUp, LockHeld, LockWhole, RowCovered, ReadCovered, TakenCovered, Covered
<1>8. CASE TimePasses
  BY <1>8, SMTT(60) DEF TimePasses, LockHeld, LockWhole, RowCovered, ReadCovered, TakenCovered, Covered
<1>9. CASE OpenWindow
  BY <1>9, SMTT(60) DEF OpenWindow, LockHeld, LockWhole, RowCovered, ReadCovered, TakenCovered, Covered
<1>10. CASE UNCHANGED limiterVars
  BY <1>10, SMTT(60) DEF limiterVars, LockHeld, LockWhole, RowCovered, ReadCovered, TakenCovered, Covered
<1> QED
  BY <1>1, <1>2, <1>3, <1>4, <1>5, <1>6, <1>7, <1>8, <1>9, <1>10 DEF LimiterNext

\* Every state of the limiter has the shape RateTypeOK says.
THEOREM RateTypeCorrect == LimiterSpec => []RateTypeOK
<1>1. RateInv => RateTypeOK
  BY DEF RateInv
<1> QED
  BY <1>1, RateInvInit, RateInvStep, PTL DEF LimiterSpec

\* All processes together never exceed the shared rate, in any window, for
\* every number of callers, every burst and every clock skew.
THEOREM RateHolding == LimiterSpec => []RateHolds
BY RateInvInit, RateInvStep, RateInvImplies, PTL DEF LimiterSpec

---------------------------------------------------------------------------
(* The token of the calls. *)

CallRecord == [pc : {"idle", "limit", "token", "lock", "fetch", "send", "forget", "sleep"},
               token : Nat, refreshed : BOOLEAN, retries : Nat, refused : Nat]

\* Twitch numbers its answers, and nobody has a token that it did not send.
TokensIssued ==
  /\ igIssued \in Nat /\ igToken \in 0..igIssued
  /\ igCalls \in [IgdbCalls -> CallRecord]
  /\ \A c \in IgdbCalls : igCalls[c].token <= igIssued /\ igCalls[c].refused <= igIssued

\* What a call has had refused is not in the cache again once it was forgotten: what is
\* cached since came later.
RefusedGone ==
  \A c \in IgdbCalls :
    igCalls[c].refreshed /\ igCalls[c].pc \notin {"idle", "forget"} =>
      igToken = 0 \/ igToken > igCalls[c].refused

FreshInv == TokensIssued /\ RefusedGone /\ RetryIsFresh

LEMMA NewCall ==
  ASSUME NEW l \in {"idle", "limit"}
  PROVE  /\ Call(l) \in CallRecord
         /\ Call(l).pc = l /\ Call(l).token = 0 /\ Call(l).refused = 0 /\ ~Call(l).refreshed
BY DEF Call, CallRecord

LEMMA FreshInvInit == IgdbInit => FreshInv
BY NewCall DEF IgdbInit, FreshInv, TokensIssued, RefusedGone, RetryIsFresh, NoCall

LEMMA CallSends ==
  ASSUME NEW r \in CallRecord, NEW t \in Nat
  PROVE  LET s == [r EXCEPT !.pc = "send", !.token = t]
         IN  /\ s \in CallRecord /\ s.pc = "send" /\ s.token = t
             /\ s.refreshed = r.refreshed /\ s.refused = r.refused
<1> DEFINE u == [r EXCEPT !.pc = "send"]
           s == [r EXCEPT !.pc = "send", !.token = t]
<1>1. u \in CallRecord /\ u.pc = "send" /\ u.refreshed = r.refreshed /\ u.refused = r.refused
  BY DEF CallRecord
<1>2. s = [u EXCEPT !.token = t]
  OBVIOUS
<1> HIDE DEF u
<1>3. LET v == [u EXCEPT !.token = t]
      IN  /\ v \in CallRecord /\ v.pc = u.pc /\ v.token = t
          /\ v.refreshed = u.refreshed /\ v.refused = u.refused
  BY <1>1 DEF CallRecord
<1> HIDE DEF s
<1>4. /\ s \in CallRecord /\ s.pc = "send" /\ s.token = t
      /\ s.refreshed = r.refreshed /\ s.refused = r.refused
  BY <1>1, <1>2, <1>3
<1> QED BY <1>4 DEF s

\* A call ends or begins.
LEMMA FreshInvNew ==
  ASSUME FreshInv, UNCHANGED <<igToken, igIssued>>, NEW c \in IgdbCalls,
         NEW l \in {"idle", "limit"}, igCalls' = [igCalls EXCEPT ![c] = Call(l)]
  PROVE  FreshInv'
<1> DEFINE r == Call(l)
<1>1. r \in CallRecord /\ r.pc = l /\ r.token = 0 /\ r.refused = 0 /\ ~r.refreshed
  BY NewCall
<1> HIDE DEF r
<1>2. \A d \in IgdbCalls : igCalls'[d] = IF d = c THEN r ELSE igCalls[d]
  BY DEF FreshInv, TokensIssued, r
<1>3. TokensIssued'
  <2>1. igCalls' = [igCalls EXCEPT ![c] = r]
    BY DEF r
  <2> QED BY <1>1, <1>2, <2>1 DEF FreshInv, TokensIssued
<1>4. RefusedGone' /\ RetryIsFresh'
  BY <1>1, <1>2 DEF FreshInv, RefusedGone, RetryIsFresh
<1> QED BY <1>3, <1>4 DEF FreshInv

\* A call takes the token of the cache.
LEMMA FreshInvToken ==
  ASSUME FreshInv, UNCHANGED <<igToken, igIssued>>, NEW c \in IgdbCalls, igToken # 0,
         igCalls[c].pc \in {"token", "lock"},
         igCalls' = [igCalls EXCEPT ![c].pc = "send", ![c].token = igToken]
  PROVE  FreshInv'
<1> DEFINE r == [igCalls[c] EXCEPT !.pc = "send", !.token = igToken]
<1>1. igCalls[c] \in CallRecord /\ igToken \in Nat /\ igToken <= igIssued
  BY DEF FreshInv, TokensIssued
<1>3. r \in CallRecord /\ r.pc = "send" /\ r.token = igToken
      /\ r.refreshed = igCalls[c].refreshed /\ r.refused = igCalls[c].refused
  BY <1>1, CallSends
<1>4. igCalls' = [igCalls EXCEPT ![c] = r]
  OBVIOUS
<1> HIDE DEF r
<1>5. \A d \in IgdbCalls : igCalls'[d] = IF d = c THEN r ELSE igCalls[d]
  BY <1>4 DEF FreshInv, TokensIssued
<1>6. TokensIssued'
  BY <1>1, <1>3, <1>4, <1>5 DEF FreshInv, TokensIssued
<1>7. RefusedGone' /\ RetryIsFresh'
  BY <1>1, <1>3, <1>5 DEF FreshInv, TokensIssued, RefusedGone, RetryIsFresh
<1> QED BY <1>6, <1>7 DEF FreshInv

\* A call that was refused a token sends none but a newer one.
LEMMA FreshInvStep == FreshInv /\ [IgdbNext]_igdbVars => FreshInv'
<1> SUFFICES ASSUME FreshInv, [IgdbNext]_igdbVars PROVE FreshInv'
  OBVIOUS
<1> USE DEF FreshInv, TokensIssued, RefusedGone, RetryIsFresh, CallRecord, tokenVars
<1>1. ASSUME NEW c \in IgdbCalls, Post(c) PROVE FreshInv'
  BY <1>1, FreshInvNew DEF Post
<1>2. ASSUME NEW c \in IgdbCalls, Admitted(c) PROVE FreshInv'
  BY <1>2 DEF Admitted
<1>3. ASSUME NEW c \in IgdbCalls, CachedToken(c) PROVE FreshInv'
  BY <1>3, FreshInvToken DEF CachedToken, isTokenValid
<1>4. ASSUME NEW c \in IgdbCalls, TokenMissing(c) PROVE FreshInv'
  BY <1>4 DEF TokenMissing
<1>5. ASSUME NEW c \in IgdbCalls, LockAndRecheck(c) PROVE FreshInv'
  <2>1. CASE isTokenValid
    BY <1>5, <2>1, FreshInvToken DEF LockAndRecheck, isTokenValid
  <2>2. CASE ~isTokenValid
    BY <1>5, <2>2 DEF LockAndRecheck
  <2> QED BY <2>1, <2>2
<1>6. ASSUME NEW c \in IgdbCalls, fetchToken(c) PROVE FreshInv'
  BY <1>6 DEF fetchToken
<1>7. ASSUME NEW c \in IgdbCalls, Fails(c) \/ Answered(c) PROVE FreshInv'
  BY <1>7, FreshInvNew DEF Fails, Answered, NoCall
<1>8. ASSUME NEW c \in IgdbCalls, Unauthorized(c) PROVE FreshInv'
  <2>1. CASE igCalls[c].refreshed
    BY <1>8, <2>1, FreshInvNew DEF Unauthorized, NoCall
  <2>2. CASE ~igCalls[c].refreshed
    BY <1>8, <2>2 DEF Unauthorized
  <2> QED BY <2>1, <2>2
<1>9. ASSUME NEW c \in IgdbCalls, InvalidateToken(c) PROVE FreshInv'
  BY <1>9 DEF InvalidateToken
<1>10. ASSUME NEW c \in IgdbCalls, TooManyRequests(c) PROVE FreshInv'
  <2>1. CASE igCalls[c].retries < MaxRateRetries
    BY <1>10, <2>1 DEF TooManyRequests
  <2>2. CASE ~(igCalls[c].retries < MaxRateRetries)
    BY <1>10, <2>2, FreshInvNew DEF TooManyRequests, NoCall
  <2> QED BY <2>1, <2>2
<1>11. ASSUME NEW c \in IgdbCalls, Slept(c) PROVE FreshInv'
  BY <1>11 DEF Slept
<1>12. CASE Withdraw \/ IgdbTick \/ HandleSearchIGDB \/ UNCHANGED igdbVars
  BY <1>12 DEF Withdraw, IgdbTick, HandleSearchIGDB, igdbVars
<1> QED
  BY <1>1, <1>2, <1>3, <1>4, <1>5, <1>6, <1>7, <1>8, <1>9, <1>10, <1>11, <1>12
     DEF IgdbNext, RequestNext

\* A call that retries after a 401 sends a token that Twitch issued later, however many
\* calls fill and clear the cache meanwhile (GetAccessToken's second look under the lock
\* and InvalidateToken, which forgets whatever is cached by then).
THEOREM RetriesAreFresh == IgdbSpec => []RetryIsFresh
<1>1. FreshInv => RetryIsFresh
  BY DEF FreshInv
<1> QED BY <1>1, FreshInvInit, FreshInvStep, PTL DEF IgdbSpec

---------------------------------------------------------------------------
(* The covers of the games. *)

\* The covers of GameMetadata for every set of games, images and fetchers and any number
\* of failures and crashes.  No file is ever removed, so it is enough that a writer that
\* is past DownloadCoverArt holds the name of a file that was created.

\* Between the download and the row, the image a writer carries has a file.
CarriedOnDisk ==
  \A w \in Writers :
    gmWork[w].pc \in {"copy", "link", "exists-local"} =>
      gmWork[w].image \in Images /\ gmFiles[gmWork[w].image] # "absent"

CoverInv == MetaTypeOK /\ CarriedOnDisk /\ CoverOnDisk

\* A file that was created stays: the step of no writer makes one absent.
FilesStay == \A i \in Images : gmFiles[i] # "absent" => gmFiles'[i] # "absent"

\* The writers have their types and carry what is on disk.
WritersSound ==
  /\ gmWork \in [Writers -> Work]
  /\ \A w \in Writers : gmWork[w] # Idle => gmWork[w].game \in MetaGames
  /\ CarriedOnDisk

\* A step that changes one writer and creates files keeps the writers sound.
LEMMA OneWriter ==
  ASSUME CoverInv, FilesStay, NEW w \in Writers, NEW k \in Work,
         gmWork' = [gmWork EXCEPT ![w] = k],
         k # Idle => k.game \in MetaGames,
         k.pc \in {"copy", "link", "exists-local"} => k.image \in Images /\ gmFiles'[k.image] # "absent"
  PROVE WritersSound'
BY DEF CoverInv, MetaTypeOK, CarriedOnDisk, FilesStay, WritersSound

\* A step that leaves the rows alone and creates files keeps the covers.
LEMMA CoverRowsStay ==
  ASSUME CoverInv, FilesStay, UNCHANGED gmRows
  PROVE CoverOnDisk'
BY DEF CoverInv, MetaTypeOK, CoverOnDisk, FilesStay

\* A writer whose place changes keeps its type, its game and its image; so
\* does one that has read a row or heard from IGDB, the image apart.
LEMMA PlaceChanges ==
  ASSUME NEW k \in Work, NEW pc \in Places
  PROVE  LET l == [k EXCEPT !.pc = pc]
         IN l \in Work /\ l.pc = pc /\ l.game = k.game /\ l.image = k.image
BY DEF Work

LEMMA CoverRowRead ==
  ASSUME NEW k \in Work, NEW seen \in Images \cup {NoCover, Remote}
  PROVE  LET l == [k EXCEPT !.pc = "ask", !.seen = seen]
         IN l \in Work /\ l.pc = "ask" /\ l.game = k.game
BY DEF Work, Places

LEMMA IgdbHeard ==
  ASSUME NEW k \in Work, NEW image \in Images \cup {NoCover}, NEW isNew \in BOOLEAN
  PROVE  /\ [k EXCEPT !.image = image] \in Work
         /\ [k EXCEPT !.image = image].pc = k.pc /\ [k EXCEPT !.image = image].game = k.game
         /\ [k EXCEPT !.isNew = isNew] \in Work
         /\ [k EXCEPT !.isNew = isNew].pc = k.pc /\ [k EXCEPT !.isNew = isNew].game = k.game
<1>1. /\ [k EXCEPT !.image = image] \in Work
      /\ [k EXCEPT !.image = image].pc = k.pc /\ [k EXCEPT !.image = image].game = k.game
  BY DEF Work
<1>2. /\ [k EXCEPT !.isNew = isNew] \in Work
      /\ [k EXCEPT !.isNew = isNew].pc = k.pc /\ [k EXCEPT !.isNew = isNew].game = k.game
  BY DEF Work
<1> QED
  BY <1>1, <1>2

\* A writer that starts, starts again, or is done.
LEMMA WorkStarts ==
  ASSUME NEW g \in MetaGames, NEW kind \in {"fetch", "import", "item"}, NEW n \in Nat
  PROVE  LET l == Attempt(kind, g, n)
         IN l \in Work /\ l.pc \in {"load", "ask"} /\ l.game = g
<1>1. /\ kind \in {"none", "fetch", "import", "item"} /\ g \in MetaGames \cup {0}
      /\ (IF kind = "import" THEN "ask" ELSE "load") \in Places
      /\ NoCover \in Images \cup {NoCover} /\ NoCover \in Images \cup {NoCover, Remote}
  BY DEF Places
<1> QED
  BY <1>1 DEF Work, Attempt

LEMMA StartsAgain ==
  ASSUME NEW k \in Work, k.game \in MetaGames, k.kind \in {"fetch", "item"}
  PROVE  Again(k) \in Work /\ Again(k).pc \in {"load", "ask"} /\ Again(k).game \in MetaGames
<1>1. k.attempt + 1 \in Nat
  BY DEF Work
<1> QED
  BY <1>1, WorkStarts DEF Again

LEMMA IsDone == Idle \in Work /\ Idle.pc = "idle"
BY DEF Work, Places, Idle, NoCover

\* A row that is rewritten, or gets another cover, has its type.
LEMMA RowTyped ==
  ASSUME NEW r \in Rows, NEW c \in Images \cup {NoCover, Remote}, NEW n \in Nat
  PROVE  /\ [r EXCEPT !.cover = c] \in Rows
         /\ [r EXCEPT !.updated = n] \in Rows
         /\ [there |-> TRUE, cover |-> c, updated |-> n] \in Rows
<1>1. [r EXCEPT !.cover = c] \in Rows
  BY DEF Rows
<1>2. [r EXCEPT !.updated = n] \in Rows
  BY DEF Rows
<1>3. [there |-> TRUE, cover |-> c, updated |-> n] \in Rows
  BY DEF Rows
<1> QED
  BY <1>1, <1>2, <1>3

\* So have all of them when one is.
LEMMA RowsTyped ==
  ASSUME MetaTypeOK, NEW g \in MetaGames, NEW r \in Rows, gmRows' = [gmRows EXCEPT ![g] = r]
  PROVE  gmRows' \in [MetaGames -> Rows]
BY DEF MetaTypeOK

\* A writer has its type, and at work it has a game.
LEMMA AtWork ==
  ASSUME MetaTypeOK, NEW w \in Writers
  PROVE  /\ gmWork[w] \in Work
         /\ gmWork[w].image \in Images \cup {NoCover}
         /\ gmWork[w].pc # "idle" \/ gmWork[w].kind # "none" => gmWork[w].game \in MetaGames
BY DEF MetaTypeOK, Work, Idle

\* A writer at work that moves on, to a place past the download only with a file.
LEMMA MovesOn ==
  ASSUME CoverInv, FilesStay, NEW w \in Writers, NEW pc \in Places,
         gmWork[w].pc # "idle",
         gmWork' = [gmWork EXCEPT ![w].pc = pc],
         pc \in {"copy", "link", "exists-local"} => gmWork[w].image \in Images /\ gmFiles'[gmWork[w].image] # "absent"
  PROVE  WritersSound'
<1> DEFINE k == [gmWork[w] EXCEPT !.pc = pc]
<1>1. k \in Work /\ k.pc = pc /\ k.game = gmWork[w].game /\ k.image = gmWork[w].image
  BY AtWork, PlaceChanges DEF CoverInv
<1>2. gmWork' = [gmWork EXCEPT ![w] = k] /\ gmWork[w].game \in MetaGames
  BY AtWork DEF CoverInv
<1> HIDE DEF k
<1> QED
  BY <1>1, <1>2, OneWriter, ZenonT(60)

LEMMA ReadsRow ==
  ASSUME CoverInv, FilesStay, NEW w \in Writers, NEW seen \in Images \cup {NoCover, Remote},
         gmWork[w].pc # "idle",
         gmWork' = [gmWork EXCEPT ![w].pc = "ask", ![w].seen = seen]
  PROVE  WritersSound'
<1> DEFINE k == [gmWork[w] EXCEPT !.pc = "ask", !.seen = seen]
<1>1. k \in Work /\ k.pc = "ask" /\ k.game = gmWork[w].game
  BY AtWork, CoverRowRead, Zenon DEF CoverInv
<1>2. gmWork' = [gmWork EXCEPT ![w] = k] /\ gmWork[w].game \in MetaGames
  BY AtWork DEF CoverInv, MetaTypeOK
<1> HIDE DEF k
<1> QED
  BY <1>1, <1>2, OneWriter

LEMMA HearsFromIgdb ==
  ASSUME CoverInv, FilesStay, NEW w \in Writers, NEW pc \in {"cover", "store"},
         NEW image \in Images \cup {NoCover}, NEW isNew \in BOOLEAN, gmWork[w].pc # "idle",
         gmWork' = [gmWork EXCEPT ![w].pc = pc, ![w].image = image, ![w].isNew = isNew]
  PROVE  WritersSound'
<1> DEFINE k1 == [gmWork[w] EXCEPT !.pc = pc]
           k2 == [k1 EXCEPT !.image = image]
           k3 == [k2 EXCEPT !.isNew = isNew]
<1>1. pc \in Places
  BY DEF Places
<1>2. gmWork' = [gmWork EXCEPT ![w] = k3] /\ gmWork[w] \in Work /\ gmWork[w].game \in MetaGames
  BY AtWork DEF CoverInv, MetaTypeOK
<1>3. k1 \in Work /\ k1.pc = pc /\ k1.game = gmWork[w].game
  BY <1>1, <1>2, PlaceChanges
<1> HIDE DEF k1
<1>4. k2 \in Work /\ k2.pc = pc /\ k2.game = gmWork[w].game
  BY <1>3, IgdbHeard
<1> HIDE DEF k2
<1>5. k3 \in Work /\ k3.pc = pc /\ k3.game = gmWork[w].game
  BY <1>4, IgdbHeard
<1> HIDE DEF k3
<1> QED
  BY <1>2, <1>5, OneWriter

\* Initially no row has a cover and nobody works.
LEMMA CoverInvInit == MetaInit => CoverInv
BY MetaAssumption DEF MetaInit, CoverInv, MetaTypeOK, Work, Places, Rows, Idle, CarriedOnDisk, CoverOnDisk,
   NoCover, Remote, Writers, ItemWorkers, FetchWorkers

\* One step per action of the model: what the writer becomes, that files
\* stay, and for the steps that write rows, the covers.
LEMMA CoverInvStep == CoverInv /\ [MetaNext]_metaVars => CoverInv'
<1> SUFFICES ASSUME CoverInv, [MetaNext]_metaVars PROVE CoverInv'
  OBVIOUS
<1> USE MetaAssumption DEF CoverInv, MetaTypeOK, jobVars
<1>1. ASSUME NEW w \in FetchWorkers, StartFetcher(w) PROVE CoverInv'
  <2>1. PICK g \in MetaGames, kind \in {"fetch", "import"} :
          gmWork' = [gmWork EXCEPT ![w] = Attempt(kind, g, 1)]
    BY <1>1 DEF StartFetcher
  <2>2. w \in Writers
    BY DEF Writers
  <2>3. FilesStay
    BY <1>1 DEF StartFetcher, FilesStay
  <2> DEFINE k == Attempt(kind, g, 1)
  <2>4. k \in Work /\ k.pc \in {"load", "ask"} /\ k.game = g
    BY WorkStarts
  <2>5. gmWork' = [gmWork EXCEPT ![w] = k]
    BY <2>1
  <2> HIDE DEF k
  <2>6. WritersSound'
    BY <2>2, <2>3, <2>4, <2>5, OneWriter
  <2> QED
    BY <1>1, <2>3, <2>6, CoverRowsStay DEF StartFetcher, WritersSound
<1>2. ASSUME NEW w \in Writers, Load(w) PROVE CoverInv'
  <2>1. FilesStay
    BY <1>2 DEF Load, FilesStay
  <2>2. gmRows[gmWork[w].game].cover \in Images \cup {NoCover, Remote}
    BY <1>2, AtWork DEF Load, FetcherAt, Rows
  <2>3. gmWork[w].pc # "idle" /\ gmWork' = [gmWork EXCEPT ![w].pc = "ask", ![w].seen = gmRows[gmWork[w].game].cover]
    BY <1>2 DEF Load, FetcherAt
  <2>4. WritersSound'
    BY <2>1, <2>2, <2>3, ReadsRow
  <2> QED
    BY <1>2, <2>1, <2>4, CoverRowsStay DEF Load, WritersSound
<1>3. ASSUME NEW w \in Writers, Ask(w) PROVE CoverInv'
  <2>1. FilesStay
    BY <1>3 DEF Ask, FilesStay
  <2> DEFINE pc == IF gmWork[w].kind = "import" THEN "cover" ELSE "store"
             image == gmIgdb[gmWork[w].game]
             isNew == ~gmRows[gmWork[w].game].there
  <2>2. pc \in {"cover", "store"} /\ isNew \in BOOLEAN
    OBVIOUS
  <2>3. image \in Images \cup {NoCover}
    BY <1>3, AtWork DEF Ask, FetcherAt
  <2>4. gmWork[w].pc # "idle" /\ gmWork' = [gmWork EXCEPT ![w].pc = pc, ![w].image = image, ![w].isNew = isNew]
    BY <1>3 DEF Ask, FetcherAt
  <2> HIDE DEF pc, image, isNew
  <2>5. WritersSound'
    BY <2>1, <2>2, <2>3, <2>4, HearsFromIgdb
  <2> QED
    BY <1>3, <2>1, <2>5, CoverRowsStay DEF Ask, WritersSound
<1>4. ASSUME NEW w \in Writers, Store(w) PROVE CoverInv'
  <2> DEFINE pc == IF gmWork[w].image \in Images \ {gmWork[w].seen} THEN "cover" ELSE "done"
  <2>1. /\ pc \in Places /\ gmWork[w].pc # "idle"
        /\ gmWork' = [gmWork EXCEPT ![w].pc = pc]
    BY <1>4 DEF Store, FetcherAt, FetcherGoes, Places
  <2>2. FilesStay
    BY <1>4 DEF Store, FilesStay
  <2>3. pc \notin {"copy", "link", "exists-local"}
    OBVIOUS
  <2> HIDE DEF pc
  <2>4. WritersSound'
    BY <2>1, <2>2, <2>3, MovesOn
  <2>5. CoverOnDisk'
    BY <1>4 DEF Store, CoverOnDisk, CarriedOnDisk, FetcherAt, Rows
  <2>6. gmRows' \in [MetaGames -> Rows]
    BY <1>4, ZenonT(60) DEF Store, Rows
  <2> QED
    BY <1>4, <2>4, <2>5, <2>6 DEF Store, WritersSound
<1>5. ASSUME NEW w \in Writers, DownloadCoverArt(w) PROVE CoverInv'
  <2> DEFINE pc == IF gmFiles[gmWork[w].image] # "absent" THEN "link" ELSE "copy"
  <2>1. /\ pc \in Places /\ gmWork[w].pc # "idle"
        /\ gmWork' = [gmWork EXCEPT ![w].pc = pc]
    BY <1>5 DEF DownloadCoverArt, FetcherAt, FetcherGoes, Places
  <2>2. FilesStay
    BY <1>5 DEF DownloadCoverArt, FilesStay
  <2>3. gmWork[w].image \in Images /\ gmFiles'[gmWork[w].image] # "absent"
    BY <1>5 DEF DownloadCoverArt, FetcherAt
  <2> HIDE DEF pc
  <2>4. WritersSound'
    BY <2>1, <2>2, <2>3, MovesOn
  <2> QED
    BY <1>5, <2>2, <2>4, CoverRowsStay DEF DownloadCoverArt, WritersSound
<1>6. ASSUME NEW w \in Writers, Copied(w) PROVE CoverInv'
  <2> DEFINE pc == "link"
  <2>1. /\ pc \in Places /\ gmWork[w].pc # "idle"
        /\ gmWork' = [gmWork EXCEPT ![w].pc = pc]
    BY <1>6 DEF Copied, FetcherAt, FetcherGoes, Places
  <2>2. FilesStay
    BY <1>6 DEF Copied, FilesStay
  <2>3. gmWork[w].image \in Images /\ gmFiles'[gmWork[w].image] # "absent"
    BY <1>6 DEF Copied, FetcherAt, CarriedOnDisk
  <2> HIDE DEF pc
  <2>4. WritersSound'
    BY <2>1, <2>2, <2>3, MovesOn
  <2> QED
    BY <1>6, <2>2, <2>4, CoverRowsStay DEF Copied, WritersSound
<1>7. ASSUME NEW w \in Writers, DownloadFails(w) PROVE CoverInv'
  <2> DEFINE pc == IF gmWork[w].kind = "import" THEN "exists-remote" ELSE "done"
  <2>1. /\ pc \in Places /\ gmWork[w].pc # "idle"
        /\ gmWork' = [gmWork EXCEPT ![w].pc = pc]
    BY <1>7 DEF DownloadFails, FetcherAt, FetcherGoes, Places, Strikes
  <2>2. FilesStay
    BY <1>7 DEF DownloadFails, FilesStay
  <2>3. pc \notin {"copy", "link", "exists-local"}
    OBVIOUS
  <2> HIDE DEF pc
  <2>4. WritersSound'
    BY <2>1, <2>2, <2>3, MovesOn
  <2> QED
    BY <1>7, <2>2, <2>4, CoverRowsStay DEF DownloadFails, WritersSound, Strikes
<1>8. ASSUME NEW w \in Writers, Link(w) PROVE CoverInv'
  <2> DEFINE pc == IF gmWork[w].kind = "import" THEN "exists-local" ELSE "done"
  <2>1. /\ pc \in Places /\ gmWork[w].pc # "idle"
        /\ gmWork' = [gmWork EXCEPT ![w].pc = pc]
    BY <1>8 DEF Link, FetcherAt, FetcherGoes, Places
  <2>2. FilesStay
    BY <1>8 DEF Link, FilesStay
  <2>3. gmWork[w].image \in Images /\ gmFiles'[gmWork[w].image] # "absent"
    BY <1>8 DEF Link, FetcherAt, CarriedOnDisk
  <2> HIDE DEF pc
  <2>4. WritersSound'
    BY <2>1, <2>2, <2>3, MovesOn
  <2>5. CoverOnDisk'
    BY <1>8 DEF Link, CoverOnDisk, CarriedOnDisk, FetcherAt, Rows
  <2>6. gmRows' \in [MetaGames -> Rows]
    <3> DEFINE r == gmRows[gmWork[w].game]
               c == IF r.there THEN gmWork[w].image ELSE r.cover
    <3>1. gmWork[w].game \in MetaGames /\ r \in Rows
      BY <2>1, AtWork
    <3>2. c \in Images \cup {NoCover, Remote}
      BY <2>3, <3>1 DEF Rows
    <3>3. gmRows' = gmRows \/ gmRows' = [gmRows EXCEPT ![gmWork[w].game] = [r EXCEPT !.cover = c]]
      BY <1>8 DEF Link
    <3>4. [r EXCEPT !.cover = c] \in Rows
      <4> HIDE DEF r, c
      <4> QED
        BY <3>1, <3>2 DEF Rows
    <3> HIDE DEF r, c
    <3> QED
      BY <3>1, <3>3, <3>4, RowsTyped
  <2> QED
    BY <1>8, <2>4, <2>5, <2>6 DEF Link, WritersSound
<1>9. ASSUME NEW w \in Writers, NoDownload(w) PROVE CoverInv'
  <2> DEFINE pc == "exists-remote"
  <2>1. /\ pc \in Places /\ gmWork[w].pc # "idle"
        /\ gmWork' = [gmWork EXCEPT ![w].pc = pc]
    BY <1>9 DEF NoDownload, FetcherAt, FetcherGoes, Places
  <2>2. FilesStay
    BY <1>9 DEF NoDownload, FilesStay
  <2>3. pc \notin {"copy", "link", "exists-local"}
    OBVIOUS
  <2> HIDE DEF pc
  <2>4. WritersSound'
    BY <2>1, <2>2, <2>3, MovesOn
  <2> QED
    BY <1>9, <2>2, <2>4, CoverRowsStay DEF NoDownload, WritersSound
<1>10. ASSUME NEW w \in Writers, StoreImport(w) PROVE CoverInv'
  <2> DEFINE k == Idle
  <2>1. gmWork' = [gmWork EXCEPT ![w] = k]
    BY <1>10 DEF StoreImport
  <2>2. /\ k \in Work /\ (k # Idle => k.game \in MetaGames)
        /\ k.pc \notin {"copy", "link", "exists-local"}
    BY <1>10 DEF StoreImport, Work, Places, NoCover, Remote, Idle
  <2>3. FilesStay
    BY <1>10 DEF StoreImport, FilesStay
  <2> HIDE DEF k
  <2>4. WritersSound'
    BY <2>1, <2>2, <2>3, OneWriter
  <2>5. CoverOnDisk'
    BY <1>10 DEF StoreImport, ImportCover, CoverOnDisk, CarriedOnDisk, FetcherAt, NoCover, Remote, Rows
  <2>6. gmRows' \in [MetaGames -> Rows]
    <3> DEFINE r == [there |-> TRUE, cover |-> ImportCover(w), updated |-> gmClock]
    <3>1. gmWork[w].game \in MetaGames
      BY <1>10, AtWork DEF StoreImport
    <3>2. ImportCover(w) \in Images \cup {NoCover, Remote}
      BY AtWork DEF ImportCover
    <3>3. r \in Rows
      BY <3>2 DEF Rows
    <3>4. gmRows' = gmRows \/ gmRows' = [gmRows EXCEPT ![gmWork[w].game] = r]
      BY <1>10, <3>1 DEF StoreImport
    <3> HIDE DEF r
    <3> QED
      BY <3>1, <3>3, <3>4, RowsTyped
  <2> QED
    BY <1>10, <2>4, <2>5, <2>6 DEF StoreImport, WritersSound
<1>11. ASSUME NEW w \in Writers, Done(w) PROVE CoverInv'
  <2> DEFINE k == Idle
  <2>1. gmWork' = [gmWork EXCEPT ![w] = k]
    BY <1>11 DEF Done, FetcherAt
  <2>2. /\ k \in Work /\ (k # Idle => k.game \in MetaGames)
        /\ k.pc \notin {"copy", "link", "exists-local"}
    BY <1>11 DEF Done, Work, Places, NoCover, Remote, FetcherAt, Idle
  <2>3. FilesStay
    BY <1>11 DEF Done, FilesStay, FetcherAt
  <2> HIDE DEF k
  <2>4. WritersSound'
    BY <2>1, <2>2, <2>3, OneWriter
  <2> QED
    BY <1>11, <2>3, <2>4, CoverRowsStay DEF Done, WritersSound, FetcherAt, JobChecked
<1>12. ASSUME NEW w \in Writers, Errs(w) PROVE CoverInv'
  <2> DEFINE k == IF gmWork[w].kind = "fetch" /\ gmWork[w].attempt < 3 THEN Again(gmWork[w]) ELSE Idle
  <2>1. gmWork' = [gmWork EXCEPT ![w] = k] /\ gmWork[w].pc # "idle"
    BY <1>12 DEF Errs, FetcherAt
  <2>2. /\ k \in Work /\ (k # Idle => k.game \in MetaGames)
        /\ k.pc \notin {"copy", "link", "exists-local"}
    BY <2>1, AtWork, StartsAgain, IsDone
  <2>3. FilesStay
    BY <1>12 DEF Errs, FilesStay
  <2> HIDE DEF k
  <2>4. WritersSound'
    BY <2>1, <2>2, <2>3, OneWriter
  <2> QED
    BY <1>12, <2>3, <2>4, CoverRowsStay DEF Errs, WritersSound, Strikes, JobChecked
<1>13. ASSUME NEW g \in MetaGames, IgdbEdit(g) PROVE CoverInv'
  BY <1>13 DEF IgdbEdit, CarriedOnDisk, CoverOnDisk
<1>14. ASSUME NEW g \in MetaGames, RemoveGame(g) PROVE CoverInv'
  BY <1>14 DEF RemoveGame, NoGame, CarriedOnDisk, CoverOnDisk, NoCover, Rows
<1>15. CASE Dispatch
  <2>1. PICK due \in SUBSET MetaGames :
          /\ gmItems' = [g \in MetaGames |-> IF g \in due THEN "pending" ELSE "none"]
          /\ gmWork' = [w \in Writers |->
                          IF w \in ItemWorkers /\ w[2] \in due THEN Attempt("item", w[2], 1) ELSE gmWork[w]]
    BY <1>15 DEF Dispatch
  <2>2. ASSUME NEW w \in Writers
        PROVE  \/ gmWork'[w] = gmWork[w]
               \/ gmWork'[w] \in Work /\ gmWork'[w].pc \in {"load", "ask"} /\ gmWork'[w].game \in MetaGames
    BY <2>1, WorkStarts
  <2>3. gmWork' \in [Writers -> Work]
    <3>1. \A w \in Writers : gmWork'[w] \in Work
      BY <2>2, AtWork
    <3> QED
      BY <2>1, <3>1
  <2>4. WritersSound'
    BY <1>15, <2>2, <2>3 DEF Dispatch, WritersSound, CarriedOnDisk
  <2>5. FilesStay
    BY <1>15 DEF Dispatch, FilesStay
  <2>6. gmJob' \in [status : {"none", "processing", "completed"}, made : Nat] /\ gmRefreshes' \in Nat
    BY <1>15 DEF Dispatch
  <2> QED
    BY <1>15, <2>1, <2>4, <2>5, <2>6, CoverRowsStay DEF Dispatch, WritersSound
<1>16. CASE Crash
  <2>1. ASSUME NEW w \in Writers
        PROVE  /\ gmWork'[w] \in Work /\ gmWork'[w].pc \in {"idle", "load", "ask"}
               /\ gmWork'[w] # Idle => gmWork'[w].game \in MetaGames
    <3>1. \/ gmWork'[w] = Idle
          \/ gmWork[w].kind \in {"item", "fetch"} /\ gmWork'[w] = Again(gmWork[w])
      BY <1>16 DEF Crash
    <3> QED
      BY <3>1, AtWork, StartsAgain, IsDone
  <2>2. gmWork' \in [Writers -> Work]
    <3>1. \A w \in Writers : gmWork'[w] \in Work
      BY <2>1
    <3> QED
      BY <1>16, <3>1 DEF Crash
  <2>3. WritersSound'
    BY <1>16, <2>1, <2>2 DEF Crash, WritersSound, CarriedOnDisk
  <2>4. FilesStay
    BY <1>16 DEF Crash, FilesStay
  <2> QED
    BY <1>16, <2>3, <2>4, CoverRowsStay DEF Crash, Strikes, WritersSound
<1>17. CASE MetaTick
  BY <1>17 DEF MetaTick, CarriedOnDisk, CoverOnDisk
<1>18. CASE UNCHANGED metaVars
  BY <1>18 DEF metaVars, CarriedOnDisk, CoverOnDisk
<1> QED
  BY <1>1, <1>2, <1>3, <1>4, <1>5, <1>6, <1>7, <1>8, <1>9, <1>10, <1>11, <1>12, <1>13, <1>14, <1>15,
     <1>16, <1>17, <1>18 DEF MetaNext

\* Type correctness, for any games, images and fetchers.
THEOREM MetaTyping == MetaSpec => []MetaTypeOK
<1>1. CoverInv => MetaTypeOK
  BY DEF CoverInv
<1> QED
  BY <1>1, CoverInvInit, CoverInvStep, PTL DEF MetaSpec

\* The cover of every row has a file, whichever refreshes, fetches and imports
\* wrote it and however their downloads ended (internal/services/igdb).
THEOREM CoversExist == MetaSpec => []CoverOnDisk
<1>1. CoverInv => CoverOnDisk
  BY DEF CoverInv
<1> QED
  BY <1>1, CoverInvInit, CoverInvStep, PTL DEF MetaSpec

---------------------------------------------------------------------------
(* The links of the games of a store. *)

\* The parts of the state that the links of a game depend on have the shape the
\* actions give them; nothing about the items is needed.
HomeTypes ==
  /\ exGame \in [ExtGames -> [resolved : IgdbIds \cup {Unresolved}, skipped : BOOLEAN]]
  /\ \A t \in exQueue : t[2] \in ExtGames
  /\ DOMAIN exWorker = ExtWorkers
  /\ exRematch \in [pc : {"none", "counted", "unlinked"}, game : ExtGames \cup {0},
                    id : IgdbIds \cup {0}, drops : IgdbIds \cup {0}]

\* Who works on a game works on a real one, with an answer.
HomeWhole ==
  /\ \A w \in ExtWorkers :
       /\ exWorker[w].pc # "free" => exWorker[w].game \in ExtGames
       /\ exWorker[w].pc = "acquire" => exWorker[w].id \in IgdbIds
  /\ exRematch.pc # "none" => exRematch.game \in ExtGames /\ exRematch.id \in IgdbIds
  /\ \A l \in exLinks : l.ext # 0 => l.entry \in IgdbIds

\* A game whose answer only the user and its own matches change, and that no worker
\* held with an older answer.
Sole(g) == g \in ExtGames /\ ExtParent[g] = 0 /\ g \notin exRaced

HomeLinks    == \A g \in ExtGames : Sole(g) => \A l \in exLinks : l.ext = g => l.entry = exGame[g].resolved
HomeWorkers  == \A w \in ExtWorkers : exWorker[w].pc = "acquire" /\ Sole(exWorker[w].game) =>
                    exWorker[w].id = exGame[exWorker[w].game].resolved
HomeUnlinked == exRematch.pc = "unlinked" /\ Sole(exRematch.game) =>
                    \A l \in exLinks : l.ext # exRematch.game

HomeInv == HomeTypes /\ HomeWhole /\ HomeLinks /\ HomeWorkers /\ HomeUnlinked

LEMMA HomeInvImplies == HomeInv => OneHome
BY DEF HomeInv, HomeLinks, Sole, OneHome, LinksOf

LEMMA HomeInvInit == ExtInit => HomeInv
BY ExternalGamesAssumption DEF ExtInit, ExtFree, NoRematch, Unresolved, HomeInv, HomeTypes, HomeWhole,
   HomeLinks, HomeWorkers, HomeUnlinked

\* Most steps add no link, give no resolved game another answer, hand a worker no answer
\* but the one of its game, and leave the rematch alone.
LEMMA HomeKept ==
  ASSUME HomeInv, HomeTypes', exRaced \subseteq exRaced', UNCHANGED exRematch,
         \A g \in ExtGames : Sole(g)' /\ exGame[g].resolved # Unresolved =>
                exGame'[g].resolved = exGame[g].resolved,
         \A l \in exLinks' : l \in exLinks \/ l.ext = 0,
         \A w \in ExtWorkers :
            \/ exWorker'[w] = exWorker[w]
            \/ exWorker'[w].pc = "free"
            \/ exWorker'[w].pc = "search" /\ exWorker'[w].game \in ExtGames
            \/ /\ exWorker'[w].game \in ExtGames /\ exWorker'[w].id \in IgdbIds
               /\ exWorker'[w].id = exGame'[exWorker'[w].game].resolved
  PROVE  HomeInv'
<1> USE ExternalGamesAssumption DEF HomeInv, Unresolved
<1>1. \A g \in ExtGames : Sole(g)' => Sole(g)
  BY DEF Sole
<1>2. HomeWhole'
  BY DEF HomeWhole
<1>3. HomeLinks'
  BY <1>1 DEF HomeLinks, HomeWhole, Sole
<1>4. HomeWorkers'
  <2> SUFFICES ASSUME NEW w \in ExtWorkers, exWorker'[w].pc = "acquire", Sole(exWorker[w].game)'
               PROVE  exWorker'[w].id = exGame'[exWorker'[w].game].resolved
    BY DEF HomeWorkers
  <2>1. CASE exWorker'[w] = exWorker[w]
    <3>1. exWorker[w].game \in ExtGames /\ exWorker[w].id \in IgdbIds /\ Sole(exWorker[w].game)
      BY <2>1, <1>1 DEF HomeWhole
    <3>2. exWorker[w].id = exGame[exWorker[w].game].resolved
      BY <2>1, <3>1 DEF HomeWorkers
    <3> QED
      BY <2>1, <3>1, <3>2
  <2> QED
    BY <2>1
<1>5. HomeUnlinked'
  BY <1>1 DEF HomeUnlinked, HomeWhole, Sole
<1> QED
  BY <1>2, <1>3, <1>4, <1>5

\* What the user asks for outside a rematch changes no answer and no worker.
LEMMA HomeInvUser ==
  ASSUME HomeInv,
         \/ \E g \in ExtGames : InsertJobItem(g) \/ HandleSkipGame(g) \/ HandleUnskipGame(g)
         \/ RetryFailedGames \/ EditLinks \/ UNCHANGED extVars
  PROVE  HomeInv'
<1>1. UNCHANGED <<exWorker, exRematch, exRaced>>
  BY DEF InsertJobItem, HandleSkipGame, HandleUnskipGame, RetryFailedGames, EditLinks, extVars, extWork
<1>2. /\ exGame' \in [ExtGames -> [resolved : IgdbIds \cup {Unresolved}, skipped : BOOLEAN]]
      /\ \A h \in ExtGames : exGame'[h].resolved = exGame[h].resolved
  <2>1. exGame \in [ExtGames -> [resolved : IgdbIds \cup {Unresolved}, skipped : BOOLEAN]]
    BY DEF HomeInv, HomeTypes
  <2>2. ASSUME NEW G, NEW b \in BOOLEAN,
               exGame' = [h \in ExtGames |-> IF h \in G THEN [exGame[h] EXCEPT !.skipped = b] ELSE exGame[h]]
        PROVE  /\ exGame' \in [ExtGames -> [resolved : IgdbIds \cup {Unresolved}, skipped : BOOLEAN]]
               /\ \A h \in ExtGames : exGame'[h].resolved = exGame[h].resolved
    BY <2>1, <2>2
  <2>3. CASE \E g \in ExtGames : HandleSkipGame(g) \/ HandleUnskipGame(g)
    <3>1. \E G : \E b \in BOOLEAN :
            exGame' = [h \in ExtGames |-> IF h \in G THEN [exGame[h] EXCEPT !.skipped = b] ELSE exGame[h]]
      BY <2>3, Zenon DEF HandleSkipGame, HandleUnskipGame
    <3> QED
      BY <2>2, <3>1
  <2>4. CASE UNCHANGED exGame
    BY <2>1, <2>4
  <2> QED
    BY <2>3, <2>4 DEF InsertJobItem, RetryFailedGames, EditLinks, extVars
<1>3. \A l \in exLinks' : l \in exLinks \/ l.ext = 0
  <2>1. CASE EditLinks
    BY <2>1 DEF EditLinks
  <2>2. CASE UNCHANGED exLinks
    BY <2>2
  <2> QED
    BY <2>1, <2>2 DEF InsertJobItem, HandleSkipGame, HandleUnskipGame, RetryFailedGames, extVars
<1>4. \A t \in exQueue' : t[2] \in ExtGames
  <2>1. \A t \in exQueue : t[2] \in ExtGames
    BY DEF HomeInv, HomeTypes
  <2>2. CASE RetryFailedGames
    BY <2>1, <2>2 DEF RetryFailedGames, ItemTasks
  <2>3. ASSUME NEW g \in ExtGames, InsertJobItem(g) \/ HandleUnskipGame(g)
        PROVE  \A t \in exQueue' : t[2] \in ExtGames
    BY <2>1, <2>3 DEF InsertJobItem, HandleUnskipGame
  <2>4. CASE UNCHANGED exQueue
    BY <2>1, <2>4
  <2> QED
    BY <2>2, <2>3, <2>4 DEF HandleSkipGame, EditLinks, extWork, extVars
<1>5. HomeTypes'
  BY <1>1, <1>2, <1>4 DEF HomeInv, HomeTypes
<1> QED
  BY <1>1, <1>2, <1>3, <1>5, HomeKept

\* What the sync does with the tasks and the items of a game.
LEMMA HomeInvSync ==
  ASSUME HomeInv, NEW w \in ExtWorkers, StartMatch(w) \/ EndMatch(w) \/ LoadWrite(w)
  PROVE  HomeInv'
<1> USE ExternalGamesAssumption
<1>1. CASE StartMatch(w)
  <2> DEFINE Left(t) == exGame[t[2]].resolved = Unresolved /\ ExtParent[t[2]] # 0
             Starts(t) == [ExtFree EXCEPT !.pc = "search", !.game = t[2], !.item = t[3]]
  <2>1. PICK t \in exQueue :
          /\ \/ UNCHANGED <<exGame, exWorker>>
             \/ /\ Left(t)
                /\ exGame' = [exGame EXCEPT ![t[2]].resolved = exGame[ExtParent[t[2]]].resolved]
                /\ UNCHANGED exWorker
             \/ UNCHANGED exGame /\ exWorker' = [exWorker EXCEPT ![w] = Starts(t)]
          /\ \/ exQueue' = (exQueue \ {t}) \cup {<<"write", t[2], t[3]>>}
             \/ exQueue' = exQueue \ {t}
    BY <1>1, Zenon DEF StartMatch
  <2>2. t[2] \in ExtGames
    BY <2>1 DEF HomeInv, HomeTypes
  <2>3. HomeTypes'
    <3>1. ExtParent[t[2]] # 0 => ExtParent[t[2]] \in ExtGames
      BY <2>2
    <3>2. exGame' \in [ExtGames -> [resolved : IgdbIds \cup {Unresolved}, skipped : BOOLEAN]]
      BY <2>1, <2>2, <3>1 DEF HomeInv, HomeTypes
    <3>3. \A u \in exQueue' : u[2] \in ExtGames
      BY <2>1, <2>2 DEF HomeInv, HomeTypes
    <3>4. DOMAIN exWorker' = ExtWorkers
      BY <2>1 DEF HomeInv, HomeTypes
    <3>5. UNCHANGED exRematch
      BY <1>1 DEF StartMatch
    <3> QED
      BY <3>2, <3>3, <3>4, <3>5 DEF HomeInv, HomeTypes
  <2>4. exWorker'[w] = exWorker[w] \/ (exWorker'[w].pc = "search" /\ exWorker'[w].game = t[2])
    <3>1. Starts(t).pc = "search" /\ Starts(t).game = t[2]
      BY DEF ExtFree
    <3> QED
      BY <2>1, <3>1 DEF HomeInv, HomeTypes
  <2>5. \A v \in ExtWorkers \ {w} : exWorker'[v] = exWorker[v]
    BY <2>1 DEF HomeInv, HomeTypes
  <2>6. \A g \in ExtGames : exGame[g].resolved # Unresolved => exGame'[g].resolved = exGame[g].resolved
    BY <2>1, <2>2 DEF HomeInv, HomeTypes
  <2>7. UNCHANGED <<exLinks, exRematch, exRaced>>
    BY <1>1 DEF StartMatch
  <2> QED
    BY <2>2, <2>3, <2>4, <2>5, <2>6, <2>7, HomeKept
<1>2. CASE EndMatch(w)
  <2> DEFINE g == exWorker[w].game
  <2>1. g \in ExtGames /\ exRaced \subseteq exRaced'
        /\ UNCHANGED <<exLinks, exRematch>>
        /\ exWorker' = [exWorker EXCEPT ![w] = ExtFree]
        /\ (exQueue' = exQueue \/ exQueue' = exQueue \cup {<<"write", g, exWorker[w].item>>})
    BY <1>2 DEF EndMatch, HomeInv, HomeWhole
  <2>2. \/ exGame' = exGame
        \/ \E id \in IgdbIds : /\ exGame' = [exGame EXCEPT ![g].resolved = id]
                              /\ (exGame[g].resolved \in {Unresolved, id} \/ g \in exRaced')
    BY <1>2 DEF EndMatch
  <2>3. /\ exGame' \in [ExtGames -> [resolved : IgdbIds \cup {Unresolved}, skipped : BOOLEAN]]
        /\ \A h \in ExtGames : Sole(h)' /\ exGame[h].resolved # Unresolved =>
                exGame'[h].resolved = exGame[h].resolved
    <3>1. CASE exGame' = exGame
      BY <3>1 DEF HomeInv, HomeTypes
    <3>2. ASSUME NEW id \in IgdbIds, exGame' = [exGame EXCEPT ![g].resolved = id],
                 exGame[g].resolved \in {Unresolved, id} \/ g \in exRaced'
          PROVE  /\ exGame' \in [ExtGames -> [resolved : IgdbIds \cup {Unresolved}, skipped : BOOLEAN]]
                 /\ \A h \in ExtGames : Sole(h)' /\ exGame[h].resolved # Unresolved =>
                      exGame'[h].resolved = exGame[h].resolved
      <4>1. \A h \in ExtGames : exGame'[h].resolved = IF h = g THEN id ELSE exGame[h].resolved
        BY <2>1, <3>2 DEF HomeInv, HomeTypes
      <4>2. exGame' \in [ExtGames -> [resolved : IgdbIds \cup {Unresolved}, skipped : BOOLEAN]]
        BY <2>1, <3>2 DEF HomeInv, HomeTypes
      <4> QED
        BY <3>2, <4>1, <4>2 DEF Sole
    <3> QED
      BY <2>2, <3>1, <3>2
  <2>4. HomeTypes'
    BY <2>1, <2>3 DEF HomeInv, HomeTypes
  <2>5. \A v \in ExtWorkers : exWorker'[v] = exWorker[v] \/ exWorker'[v].pc = "free"
    BY <2>1 DEF HomeInv, HomeTypes, ExtFree
  <2> QED
    BY <2>1, <2>3, <2>4, <2>5, HomeKept
<1>3. CASE LoadWrite(w)
  <2>1. PICK t \in exQueue :
          /\ exQueue' = exQueue \ {t}
          /\ \/ exWorker' = exWorker
             \/ /\ exGame[t[2]].resolved # Unresolved
                /\ exWorker' = [exWorker EXCEPT ![w] = [pc |-> "acquire", game |-> t[2], item |-> t[3],
                                                        id |-> exGame[t[2]].resolved]]
          /\ UNCHANGED <<exGame, exLinks, exLibrary, exRematch, exDecisions, exRaced>>
    BY <1>3 DEF LoadWrite
  <2>2. t[2] \in ExtGames /\ exGame[t[2]].resolved \in IgdbIds \cup {Unresolved}
    BY <2>1 DEF HomeInv, HomeTypes
  <2>3. HomeTypes'
    BY <2>1 DEF HomeInv, HomeTypes
  <2>4. \/ exWorker'[w] = exWorker[w]
        \/ /\ exWorker'[w].game = t[2] /\ exWorker'[w].id = exGame'[t[2]].resolved
           /\ exWorker'[w].id \in IgdbIds
    BY <2>1, <2>2 DEF HomeInv, HomeTypes
  <2>5. \A v \in ExtWorkers \ {w} : exWorker'[v] = exWorker[v]
    BY <2>1 DEF HomeInv, HomeTypes
  <2> QED
    BY <2>1, <2>2, <2>3, <2>4, <2>5, HomeKept
<1> QED
  BY <1>1, <1>2, <1>3

\* A worker takes rows over and adds the ones of its game, at the answer it read.
LEMMA HomeInvAcquire ==
  ASSUME HomeInv, NEW w \in ExtWorkers, AcquireLinks(w)
  PROVE  HomeInv'
<1> USE ExternalGamesAssumption DEF HomeInv
<1> DEFINE g == exWorker[w].game
<1>1. /\ exWorker[w].pc = "acquire" /\ g \in ExtGames /\ exWorker[w].id \in IgdbIds
      /\ exWorker' = [exWorker EXCEPT ![w] = ExtFree]
      /\ exRaced' = exRaced \cup {h \in {g} : exRematch.pc = "unlinked" /\ exRematch.game = h}
      /\ UNCHANGED <<exGame, exRematch>>
  BY DEF AcquireLinks, HomeWhole
<1>2. \A l \in exLinks' : l \in exLinks \/ (l.ext = g /\ l.entry = exWorker[w].id)
  BY DEF AcquireLinks
<1>3. \A t \in exQueue' : t[2] \in ExtGames
  BY DEF AcquireLinks, ItemTasks, ChildrenOf, HomeTypes
<1>4. HomeTypes'
  BY <1>1, <1>3 DEF HomeTypes
<1>5. \A v \in ExtWorkers : exWorker'[v] = exWorker[v] \/ exWorker'[v].pc = "free"
  BY <1>1 DEF HomeTypes, ExtFree
<1>6. HomeWhole'
  BY <1>1, <1>2, <1>5 DEF HomeWhole
<1>7. HomeLinks'
  BY <1>1, <1>2 DEF HomeLinks, HomeWorkers, Sole
<1>8. HomeWorkers'
  BY <1>1, <1>5 DEF HomeWorkers, Sole
<1>9. HomeUnlinked'
  BY <1>1, <1>2 DEF HomeUnlinked, Sole
<1> QED
  BY <1>4, <1>6, <1>7, <1>8, <1>9

\* A rematch takes all links of the game away before it writes the new answer.
LEMMA HomeInvRematch == ASSUME HomeInv, HandleRematch PROVE HomeInv'
<1> USE ExternalGamesAssumption DEF HomeInv, Unresolved
<1>1. ASSUME NEW g \in ExtGames, NEW id \in IgdbIds, NEW o \in {"", "keep", "remove"},
             CountOthers(g, id, o)
      PROVE  HomeInv'
  <2>1. UNCHANGED <<exGame, exLinks, exQueue, exWorker, exRaced>>
    BY <1>1 DEF CountOthers, extWork
  <2>2. \/ LinksOf(g) = {} /\ exRematch' = [NoRematch EXCEPT !.pc = "unlinked", !.game = g, !.id = id]
        \/ \E l \in LinksOf(g) : \E drops \in {l.entry, 0} :
              exRematch' = [pc |-> "counted", game |-> g, id |-> id, drops |-> drops]
    BY <1>1, Zenon DEF CountOthers
  <2>3. \A l \in LinksOf(g) : l.entry \in IgdbIds
    BY DEF LinksOf, HomeWhole
  <2>4. /\ exRematch' \in [pc : {"none", "counted", "unlinked"}, game : ExtGames \cup {0},
                          id : IgdbIds \cup {0}, drops : IgdbIds \cup {0}]
        /\ exRematch'.game = g /\ exRematch'.id = id
        /\ exRematch'.pc = "counted" \/ (exRematch'.pc = "unlinked" /\ LinksOf(g) = {})
    <3>1. CASE exRematch' = [NoRematch EXCEPT !.pc = "unlinked", !.game = g, !.id = id]
               /\ LinksOf(g) = {}
      <4>1. exRematch' = [pc |-> "unlinked", game |-> g, id |-> id, drops |-> 0]
        BY <3>1 DEF NoRematch
      <4>2. exRematch' \in [pc : {"none", "counted", "unlinked"}, game : ExtGames \cup {0},
                           id : IgdbIds \cup {0}, drops : IgdbIds \cup {0}]
        BY <4>1
      <4> QED
        BY <3>1, <4>1, <4>2
    <3>2. ASSUME NEW d \in IgdbIds \cup {0},
                 exRematch' = [pc |-> "counted", game |-> g, id |-> id, drops |-> d]
          PROVE  /\ exRematch' \in [pc : {"none", "counted", "unlinked"}, game : ExtGames \cup {0},
                                   id : IgdbIds \cup {0}, drops : IgdbIds \cup {0}]
                 /\ exRematch'.game = g /\ exRematch'.id = id /\ exRematch'.pc = "counted"
      BY <3>2
    <3> QED
      BY <2>2, <2>3, <3>1, <3>2
  <2>5. HomeTypes' /\ HomeWhole'
    BY <2>1, <2>4 DEF HomeTypes, HomeWhole
  <2>6. HomeLinks' /\ HomeWorkers'
    BY <2>1 DEF HomeLinks, HomeWorkers, Sole
  <2>7. HomeUnlinked'
    BY <2>1, <2>4 DEF HomeUnlinked, LinksOf
  <2> QED
    BY <2>5, <2>6, <2>7
<1>2. CASE Unlink
  <2>1. /\ exLinks' = {l \in exLinks : l.ext # exRematch.game /\ l.entry # exRematch.drops}
        /\ exRematch' = [exRematch EXCEPT !.pc = "unlinked", !.drops = 0]
        /\ exRematch.pc = "counted"
        /\ UNCHANGED <<exGame, exQueue, exWorker, exRaced>>
    BY <1>2 DEF Unlink, extWork
  <2>2. HomeTypes' /\ HomeWhole'
    BY <2>1 DEF HomeTypes, HomeWhole
  <2>3. HomeLinks' /\ HomeWorkers'
    BY <2>1 DEF HomeLinks, HomeWorkers, Sole
  <2>4. HomeUnlinked'
    BY <2>1 DEF HomeUnlinked, HomeTypes
  <2> QED
    BY <2>2, <2>3, <2>4
<1>3. CASE Resolve
  <2> PICK h \in ExtGames, id \in IgdbIds : exRematch.game = h /\ exRematch.id = id
    BY <1>3 DEF Resolve, HomeWhole
  <2> DEFINE G == {h} \cup {c \in ChildrenOf(h) : ~exGame[c].skipped}
  <2>1. /\ exRematch.pc = "unlinked"
        /\ exGame' = [g \in ExtGames |->
                    IF g = h THEN [resolved |-> id, skipped |-> FALSE]
                    ELSE IF g \in G THEN [exGame[g] EXCEPT !.resolved = id] ELSE exGame[g]]
        /\ exRaced' = exRaced \cup {g \in {h} : Holding(g) # {}}
        /\ exRematch' = NoRematch
        /\ UNCHANGED <<exLinks, exWorker>>
    BY <1>3 DEF Resolve, HomeWhole
  <2>2. \A t \in exQueue' : t[2] \in ExtGames
    BY <1>3, <2>1 DEF Resolve, ChildrenOf, HomeTypes
  <2>3. exGame' \in [ExtGames -> [resolved : IgdbIds \cup {Unresolved}, skipped : BOOLEAN]]
    BY <2>1 DEF HomeTypes
  <2>4. HomeTypes' /\ HomeWhole'
    BY <2>1, <2>2, <2>3 DEF HomeTypes, HomeWhole, NoRematch
  <2>5. \A g \in ExtGames : Sole(g)' => Sole(g) /\ (g # h => exGame'[g] = exGame[g])
    BY <2>1 DEF Sole, ChildrenOf
  <2>6. Sole(h)' =>
          /\ \A l \in exLinks : l.ext # h
          /\ \A w \in ExtWorkers : exWorker[w].pc = "acquire" => exWorker[w].game # h
    <3> SUFFICES ASSUME Sole(h)'
                 PROVE  /\ \A l \in exLinks : l.ext # h
                        /\ \A w \in ExtWorkers : exWorker[w].pc = "acquire" => exWorker[w].game # h
      OBVIOUS
    <3>1. Sole(h) /\ h \notin exRaced'
      BY <2>5 DEF Sole
    <3>2. Holding(h) = {}
      BY <2>1, <3>1
    <3> QED
      BY <2>1, <3>1, <3>2 DEF Holding, HomeUnlinked
  <2>7. HomeLinks' /\ HomeUnlinked'
    <3>1. ASSUME NEW g \in ExtGames, Sole(g)', NEW l \in exLinks, l.ext = g
          PROVE  l.entry = exGame'[g].resolved
      <4>1. g # h
        BY <2>6, <3>1
      <4>2. Sole(g) /\ exGame'[g] = exGame[g]
        BY <2>5, <3>1, <4>1
      <4> QED
        BY <3>1, <4>2 DEF HomeLinks
    <3>2. exRematch'.pc # "unlinked"
      BY <2>1 DEF NoRematch
    <3> QED
      BY <2>1, <3>1, <3>2 DEF HomeLinks, HomeUnlinked
  <2>8. HomeWorkers'
    <3>1. ASSUME NEW w \in ExtWorkers, NEW g, exWorker[w].pc = "acquire", exWorker[w].game = g, Sole(g)'
          PROVE  exWorker[w].id = exGame'[g].resolved
      <4>1. g \in ExtGames /\ g # h
        BY <2>6, <3>1 DEF HomeWhole
      <4> QED
        BY <2>5, <3>1, <4>1 DEF HomeWorkers
    <3> QED
      BY <2>1, <3>1 DEF HomeWorkers
  <2> QED
    BY <2>4, <2>7, <2>8
<1> QED
  BY <1>1, <1>2, <1>3 DEF HandleRematch

LEMMA HomeInvStep == HomeInv /\ [ExtNext]_extVars => HomeInv'
BY HomeInvSync, HomeInvAcquire, HomeInvUser, HomeInvRematch DEF ExtNext

\* For any games, groups, platforms and workers, and any number of requests: the links of
\* a game that is not a child are all at the entry it is resolved to, unless a worker
\* overlapped a rematch of it.
THEOREM LinksHaveOneHome == ExtSpec => []OneHome
BY HomeInvInit, HomeInvStep, HomeInvImplies, PTL DEF ExtSpec

---------------------------------------------------------------------------
(* The refresh of the store links. *)

\* The shape of the state of the refreshes.
ItemRecord == [status : {"none", "pending", "completed", "failed"}, born : Nat, reaped : BOOLEAN]
TaskRecord == [state : {"none", "queued", "running", "check", "dead"}, attempt : Nat, left : SUBSET LinkRows,
               once : {"unset", "ok", "failed"}, force : BOOLEAN]
DispatchRecord == [pc : {"none", "reap", "mark", "heal", "guard", "select", "enqueue", "done"},
                   stuck : SUBSET Items]

LinkTypes ==
  /\ slItems \in [Items -> ItemRecord]
  /\ slTasks \in [Items -> TaskRecord]
  /\ slDispatch \in [LinkJobs -> DispatchRecord]
  /\ slClock \in Nat

\* No task will run the item any more: its task is dead, or it never got one and its
\* dispatch has ended.
Doomed(i) ==
  \/ slTasks[i].state = "dead"
  \/ slTasks[i].state = "none" /\ slItems[i].status # "none" /\ DispatchAt(JobOf(i), "done")

ReapedDoomed == \A i \in Items : slItems[i].reaped => Doomed(i)
StuckDoomed  == \A j \in LinkJobs : \A i \in slDispatch[j].stuck : Doomed(i)

\* Items exist from the commit of their dispatch on, and tasks from the insert.
Ordered ==
  \A i \in Items :
    /\ slItems[i].status # "none" => slDispatch[JobOf(i)].pc \in {"enqueue", "done"}
    /\ slTasks[i].state # "none" => slItems[i].status # "none"

\* An item whose dispatch is about to enqueue it is too young to be reaped.
Young ==
  \A i \in Items :
    DispatchAt(JobOf(i), "enqueue") /\ slItems[i].status # "none" /\ slTasks[i].state = "none" =>
      slClock <= slItems[i].born + ReapMinAge

LinkInv == LinkTypes /\ ReapedDoomed /\ StuckDoomed /\ Ordered /\ Young

LEMMA LinkInvImplies == LinkInv => OnlyOrphansReaped
BY DEF LinkInv, LinkTypes, ReapedDoomed, Doomed, Live, OnlyOrphansReaped

LEMMA LinkInvInit == LinksInit => LinkInv
BY LinkAssumption DEF LinksInit, LinkInv, LinkTypes, ItemRecord, TaskRecord, DispatchRecord, ReapedDoomed,
   StuckDoomed, Ordered, Young, Items, JobOf, DispatchAt

LEMMA ItemJob == ASSUME NEW i \in Items PROVE JobOf(i) \in LinkJobs
BY DEF Items, JobOf

\* A resolver answers whether it found a link, and what became of what it fetches once.
LEMMA AnswerTyped ==
  ASSUME NEW i \in Items, NEW once \in {"unset", "ok", "failed"},
         NEW answer \in ResolveLink(LinkStore[i[2]], once)
  PROVE  answer[2] \in {"unset", "ok", "failed"}
<1>1. LinkStore[i[2]] \in {"steam", "gog", "epic", "psn"}
  BY LinkAssumption DEF Items
<1>2. \A a \in OnceThen(once) : a[2] \in {"unset", "ok", "failed"}
  <2>1. ASSUME NEW a, a \in {<<TRUE, "ok">>, <<FALSE, "ok">>, <<FALSE, "failed">>}
        PROVE  a[2] \in {"unset", "ok", "failed"}
    <3>1. CASE a = <<TRUE, "ok">>
      BY <3>1
    <3>2. CASE a = <<FALSE, "ok">>
      BY <3>2
    <3>3. CASE a = <<FALSE, "failed">>
      BY <3>3
    <3> QED
      BY <2>1, <3>1, <3>2, <3>3
  <2>2. once = "unset" \/ once = "ok" \/ once = "failed"
    OBVIOUS
  <2>3. OnceThen(once) \subseteq {<<TRUE, "ok">>, <<FALSE, "ok">>, <<FALSE, "failed">>}
    BY <2>2, Zenon DEF OnceThen
  <2> QED
    BY <2>1, <2>3
<1>3. CASE LinkStore[i[2]] = "steam"
  BY <1>3 DEF ResolveLink, steamResolver
<1>4. CASE LinkStore[i[2]] = "gog"
  <2>1. answer \in gogResolver(once)
    BY <1>4 DEF ResolveLink
  <2>2. answer = <<TRUE, once>> \/ answer = <<FALSE, once>>
    BY <2>1 DEF gogResolver
  <2> QED
    <3>1. CASE answer = <<TRUE, once>>
      BY <3>1
    <3>2. CASE answer = <<FALSE, once>>
      BY <3>2
    <3> QED
      BY <2>2, <3>1, <3>2
<1>5. CASE LinkStore[i[2]] = "epic"
  <2>1. answer \in epicResolver(once)
    BY <1>5 DEF ResolveLink
  <2>2. answer \in OnceThen(once) \/ answer = <<FALSE, once>>
    BY <2>1 DEF epicResolver
  <2>3. CASE answer = <<FALSE, once>>
    BY <2>3
  <2> QED
    BY <1>2, <2>2, <2>3
<1>6. CASE LinkStore[i[2]] = "psn"
  BY <1>2, <1>6 DEF ResolveLink, psnResolver
<1> QED
  BY <1>1, <1>3, <1>4, <1>5, <1>6

\* A dispatch that has not committed yet moves on, and no item and no task changes but
\* for items that are doomed.
LEMMA DispatchMoves ==
  ASSUME LinkInv, LinkTypes', UNCHANGED <<slTasks, slClock>>, NEW j \in LinkJobs,
         slDispatch[j].pc \notin {"enqueue", "done"},
         \A k \in LinkJobs \ {j} : slDispatch'[k] = slDispatch[k],
         \A i \in slDispatch'[j].stuck : Doomed(i),
         \A i \in Items : /\ slItems'[i].status # "none" <=> slItems[i].status # "none"
                          /\ slItems'[i].born = slItems[i].born
                          /\ slItems'[i].reaped => Doomed(i)
  PROVE  LinkInv'
<1> USE DEF LinkInv, DispatchAt
<1>1. ASSUME NEW i \in Items, slItems[i].status # "none" PROVE slDispatch'[JobOf(i)] = slDispatch[JobOf(i)]
  BY <1>1, ItemJob DEF Ordered
<1>2. ASSUME NEW i \in Items, Doomed(i) PROVE Doomed(i)'
  BY <1>1, <1>2 DEF Doomed
<1>3. \A k \in LinkJobs : \A i \in slDispatch'[k].stuck : i \in Items /\ Doomed(i)
  BY DEF StuckDoomed, LinkTypes, DispatchRecord
<1>4. ReapedDoomed' /\ StuckDoomed'
  BY <1>2, <1>3 DEF ReapedDoomed, StuckDoomed
<1>5. Ordered'
  BY <1>1 DEF Ordered
<1>6. Young'
  BY <1>1, ItemJob DEF Young, Ordered
<1> QED
  BY <1>4, <1>5, <1>6

\* What the reaper calls orphaned is doomed: what has no task yet but will get one is too
\* young.
LEMMA OrphansDoomed == ASSUME LinkInv, NEW i \in Orphans PROVE Doomed(i)
<1>1. i \in Items /\ slItems[i].status = "pending" /\ slItems[i].born < slClock - ReapMinAge
      /\ slTasks[i].state \in {"none", "dead"}
  BY DEF Orphans, Open, Live, LinkInv, LinkTypes, TaskRecord
<1>2. slItems[i].born \in Nat /\ slClock \in Nat
  BY <1>1 DEF LinkInv, LinkTypes, ItemRecord
<1>3. ~(DispatchAt(JobOf(i), "enqueue") /\ slTasks[i].state = "none")
  BY <1>1, <1>2, LinkAssumption DEF LinkInv, Young
<1> QED
  BY <1>1, <1>3 DEF Doomed, LinkInv, Ordered, DispatchAt

LEMMA LinkInvDispatch ==
  ASSUME LinkInv, NEW j \in LinkJobs,
         \/ HandleStartStoreLinkRefreshJob(j) \/ SyncCompleted(j)
         \/ ReapQuery(j) \/ ReapMark(j) \/ ReapCheck(j) \/ Guard(j) \/ NothingToDo(j)
  PROVE  LinkInv'
<1>1. CASE \/ HandleStartStoreLinkRefreshJob(j) \/ SyncCompleted(j) \/ ReapCheck(j) \/ Guard(j)
           \/ NothingToDo(j)
  <2>1. PICK pc \in {"reap", "guard", "select", "done"} :
          /\ slDispatch' = [slDispatch EXCEPT ![j].pc = pc]
          /\ slDispatch[j].pc \notin {"enqueue", "done"}
          /\ UNCHANGED <<slItems, slTasks, slClock>>
    BY <1>1 DEF HandleStartStoreLinkRefreshJob, SyncCompleted, ReapCheck, Guard, NothingToDo, DispatchGoes,
       DispatchAt
  <2>2. LinkTypes'
    BY <2>1 DEF LinkInv, LinkTypes, DispatchRecord
  <2>3. /\ \A k \in LinkJobs \ {j} : slDispatch'[k] = slDispatch[k]
        /\ slDispatch'[j].stuck = slDispatch[j].stuck
    BY <2>1 DEF LinkInv, LinkTypes, DispatchRecord
  <2> QED
    BY <2>1, <2>2, <2>3, DispatchMoves DEF LinkInv, StuckDoomed, ReapedDoomed
<1>2. CASE ReapQuery(j)
  <2>1. /\ slDispatch' = [slDispatch EXCEPT ![j] = [pc |-> "mark", stuck |-> Orphans]]
        /\ slDispatch[j].pc = "reap"
        /\ UNCHANGED <<slItems, slTasks, slClock>>
    BY <1>2 DEF ReapQuery, DispatchAt
  <2>2. LinkTypes'
    BY <2>1 DEF LinkInv, LinkTypes, DispatchRecord, Orphans
  <2>3. /\ \A k \in LinkJobs \ {j} : slDispatch'[k] = slDispatch[k]
        /\ slDispatch'[j].stuck = Orphans
    BY <2>1 DEF LinkInv, LinkTypes, DispatchRecord
  <2> QED
    BY <2>1, <2>2, <2>3, DispatchMoves, OrphansDoomed DEF LinkInv, ReapedDoomed
<1>3. CASE ReapMark(j)
  <2>1. /\ slItems' = [i \in Items |->
                        IF i \in slDispatch[j].stuck
                        THEN [slItems[i] EXCEPT !.status = "failed", !.reaped = TRUE]
                        ELSE slItems[i]]
        /\ slDispatch' = [slDispatch EXCEPT ![j].pc = "heal"]
        /\ slDispatch[j].pc = "mark"
        /\ UNCHANGED <<slTasks, slClock>>
    BY <1>3 DEF ReapMark, DispatchAt, DispatchGoes
  <2>2. LinkTypes'
    BY <2>1, ZenonT(60) DEF LinkInv, LinkTypes, ItemRecord, DispatchRecord
  <2>3. /\ \A k \in LinkJobs \ {j} : slDispatch'[k] = slDispatch[k]
        /\ slDispatch'[j].stuck = slDispatch[j].stuck
    BY <2>1 DEF LinkInv, LinkTypes, DispatchRecord
  <2>4. \A i \in slDispatch[j].stuck : Doomed(i) /\ slItems[i].status # "none"
    BY DEF LinkInv, StuckDoomed, Doomed, Ordered, LinkTypes, DispatchRecord
  <2>5. \A i \in Items : /\ slItems'[i].status # "none" <=> slItems[i].status # "none"
                         /\ slItems'[i].born = slItems[i].born
                         /\ slItems'[i].reaped => Doomed(i)
    BY <2>1, <2>4 DEF LinkInv, LinkTypes, ItemRecord, ReapedDoomed
  <2> QED
    BY <2>1, <2>2, <2>3, <2>4, <2>5, DispatchMoves
<1> QED
  BY <1>1, <1>2, <1>3

\* The commit, the inserts, and the end of a dispatch.
LEMMA LinkInvCommit ==
  ASSUME LinkInv, NEW j \in LinkJobs,
         Write(j) \/ EnqueueOrFail(j) \/ Enqueued(j) \/ DispatchCrash(j)
  PROVE  LinkInv'
<1> USE LinkAssumption, ItemJob DEF LinkInv, DispatchAt, DispatchGoes
<1>1. CASE Write(j)
  <2>1. CASE slDispatch' = [slDispatch EXCEPT ![j].pc = "done"] /\ UNCHANGED <<slItems, slTasks, slClock>>
    <3>1. LinkTypes'
      BY <2>1 DEF LinkTypes, DispatchRecord
    <3>2. /\ \A k \in LinkJobs \ {j} : slDispatch'[k] = slDispatch[k]
          /\ slDispatch'[j].stuck = slDispatch[j].stuck
      BY <2>1 DEF LinkTypes, DispatchRecord
    <3>3. slDispatch[j].pc = "select"
      BY <1>1 DEF Write
    <3> QED
      BY <2>1, <3>1, <3>2, <3>3, DispatchMoves DEF StuckDoomed, ReapedDoomed
  <2>2. CASE /\ slDispatch' = [slDispatch EXCEPT ![j].pc = "enqueue"]
             /\ slItems' = [i \in Items |->
                              IF JobOf(i) = j /\ i[2] \in SelectGroups(j)
                              THEN [status |-> "pending", born |-> slClock, reaped |-> FALSE]
                              ELSE slItems[i]]
             /\ UNCHANGED <<slTasks, slClock>>
    <3>1. slDispatch[j].pc = "select"
      BY <1>1 DEF Write
    <3>2. LinkTypes'
      BY <2>2 DEF LinkTypes, DispatchRecord, ItemRecord
    <3>3. \A i \in Items : JobOf(i) = j => slItems[i].status = "none" /\ slTasks[i].state = "none"
      BY <3>1 DEF Ordered
    <3>4. /\ \A k \in LinkJobs : k # j => slDispatch'[k] = slDispatch[k]
          /\ slDispatch'[j].stuck = slDispatch[j].stuck /\ slDispatch'[j].pc = "enqueue"
      BY <2>2 DEF LinkTypes, DispatchRecord
    <3>5. \A i \in Items : JobOf(i) # j => slItems'[i] = slItems[i]
      BY <2>2
    <3>6. \A i \in Items : Doomed(i) => JobOf(i) # j
      BY <3>3 DEF Doomed
    <3>7. \A i \in Items : Doomed(i) => Doomed(i)'
      BY <2>2, <3>4, <3>5, <3>6 DEF Doomed
    <3>8. ReapedDoomed' /\ StuckDoomed'
      BY <2>2, <3>4, <3>7 DEF ReapedDoomed, StuckDoomed, LinkTypes, DispatchRecord
    <3>9. Ordered'
      BY <2>2, <3>3, <3>4, <3>5 DEF Ordered
    <3>10. Young'
      <4>1. ASSUME NEW i \in Items, JobOf(i) = j, slItems'[i].status # "none"
            PROVE  slItems'[i].born = slClock
        BY <2>2, <3>3, <4>1
      <4>2. slClock \in Nat
        BY DEF LinkTypes
      <4> QED
        BY <2>2, <3>4, <3>5, <4>1, <4>2 DEF Young
    <3> QED
      BY <3>2, <3>8, <3>9, <3>10
  <2> QED
    BY <1>1, <2>1, <2>2 DEF Write
<1>2. CASE EnqueueOrFail(j)
  <2>1. PICK i \in Items :
          /\ slItems[i].status # "none" /\ slTasks[i].state = "none" /\ slDispatch[JobOf(i)].pc = "enqueue"
          /\ \/ /\ slTasks' = [slTasks EXCEPT ![i] = [state |-> "queued", attempt |-> 1, left |-> {},
                                                       once |-> "unset", force |-> Global(j)]]
                /\ UNCHANGED slItems
             \/ /\ slItems' = [slItems EXCEPT ![i].status = "failed"]
                /\ slTasks' = [slTasks EXCEPT ![i].state = "dead"]
          /\ UNCHANGED <<slDispatch, slClock>>
    BY <1>2 DEF EnqueueOrFail, Waiting
  <2>2. LinkTypes'
    <3>1. [state |-> "queued", attempt |-> 1, left |-> {}, once |-> "unset", force |-> Global(j)] \in TaskRecord
      BY DEF TaskRecord, Global
    <3>2. [slTasks[i] EXCEPT !.state = "dead"] \in TaskRecord /\ [slItems[i] EXCEPT !.status = "failed"] \in ItemRecord
      BY ZenonT(60) DEF LinkTypes, TaskRecord, ItemRecord
    <3>3. slTasks' \in [Items -> TaskRecord] /\ slItems' \in [Items -> ItemRecord]
      BY <2>1, <3>1, <3>2 DEF LinkTypes
    <3> QED
      BY <2>1, <3>3 DEF LinkTypes
  <2>3. /\ \A k \in Items : k # i => slItems'[k] = slItems[k] /\ slTasks'[k] = slTasks[k]
        /\ slItems'[i].status # "none" /\ slItems'[i].reaped = slItems[i].reaped
        /\ slTasks'[i].state # "none"
    BY <2>1 DEF LinkTypes, ItemRecord, TaskRecord
  <2>4. \A k \in Items : Doomed(k) => k # i
    BY <2>1 DEF Doomed
  <2>5. \A k \in Items : Doomed(k) => Doomed(k)'
    BY <2>1, <2>3, <2>4 DEF Doomed
  <2>6. ReapedDoomed' /\ StuckDoomed'
    BY <2>1, <2>3, <2>5 DEF ReapedDoomed, StuckDoomed, LinkTypes, DispatchRecord
  <2>7. Ordered' /\ Young'
    BY <2>1, <2>3 DEF Ordered, Young
  <2> QED
    BY <2>2, <2>6, <2>7
<1>3. CASE Enqueued(j) \/ DispatchCrash(j)
  <2>1. /\ slDispatch' = [slDispatch EXCEPT ![j].pc = "done"]
        /\ UNCHANGED <<slItems, slTasks, slClock>>
    BY <1>3 DEF Enqueued, DispatchCrash
  <2>2. LinkTypes'
    BY <2>1 DEF LinkTypes, DispatchRecord
  <2>3. /\ \A k \in LinkJobs : slDispatch'[k].stuck = slDispatch[k].stuck
        /\ \A k \in LinkJobs : slDispatch'[k].pc = IF k = j THEN "done" ELSE slDispatch[k].pc
    BY <2>1 DEF LinkTypes, DispatchRecord
  <2>4. \A i \in Items : Doomed(i) => Doomed(i)'
    BY <2>1, <2>3 DEF Doomed
  <2>5. ReapedDoomed' /\ StuckDoomed'
    BY <2>1, <2>3, <2>4 DEF ReapedDoomed, StuckDoomed, LinkTypes, DispatchRecord
  <2>6. Ordered' /\ Young'
    BY <2>1, <2>3 DEF Ordered, Young
  <2> QED
    BY <2>2, <2>5, <2>6
<1> QED
  BY <1>1, <1>2, <1>3

\* A worker moves the task of an item that has one on; a dead one stays dead.
LEMMA TaskMoves ==
  ASSUME LinkInv, NEW i \in Items, Live(i), NEW t \in TaskRecord, t.state # "none",
         slTasks' = [slTasks EXCEPT ![i] = t],
         NEW st \in {"pending", "completed", "failed"},
         slItems' = [slItems EXCEPT ![i].status = st] \/ UNCHANGED slItems,
         UNCHANGED <<slDispatch, slClock>>
  PROVE  LinkInv'
<1> USE DEF LinkInv, DispatchAt
<1>1. LinkTypes'
  BY DEF LinkTypes, ItemRecord
<1>2. slItems[i].status # "none"
  BY DEF Ordered, Live
<1>3. /\ \A k \in Items \ {i} : slTasks'[k] = slTasks[k] /\ slItems'[k] = slItems[k]
      /\ slTasks'[i].state # "none" /\ slItems'[i].status # "none"
      /\ slItems'[i].reaped = slItems[i].reaped
  BY <1>2 DEF LinkTypes, ItemRecord
<1>4. \A k \in Items : Doomed(k) => k # i
  BY DEF Doomed, Live
<1>5. \A k \in Items : Doomed(k) => Doomed(k)'
  BY <1>3, <1>4 DEF Doomed
<1>6. ReapedDoomed' /\ StuckDoomed'
  BY <1>3, <1>5 DEF ReapedDoomed, StuckDoomed, LinkTypes, DispatchRecord
<1>7. Ordered'
  BY <1>2, <1>3 DEF Ordered
<1>8. Young'
  BY <1>3 DEF Young
<1> QED
  BY <1>1, <1>6, <1>7, <1>8

LEMMA FaultTyped ==
  ASSUME NEW r \in TaskRecord
  PROVE  Retried(r) \in TaskRecord /\ Retried(r).state # "none"
<1>1. r = [state |-> r.state, attempt |-> r.attempt, left |-> r.left, once |-> r.once, force |-> r.force]
      /\ r.attempt + 1 \in Nat
  BY DEF TaskRecord
<1>2. [r EXCEPT !.state = "queued", !.attempt = @ + 1, !.left = {}, !.once = "unset"] \in TaskRecord
  BY <1>1 DEF TaskRecord
<1>3. [r EXCEPT !.state = "queued", !.attempt = @ + 1, !.left = {}, !.once = "unset"].state = "queued"
  BY <1>1
<1>4. [r EXCEPT !.state = "dead"] \in TaskRecord /\ [r EXCEPT !.state = "dead"].state = "dead"
  BY DEF TaskRecord
<1> QED
  BY <1>2, <1>3, <1>4 DEF Retried

LEMMA LinkInvItem ==
  ASSUME LinkInv, NEW i \in Items,
         StartItem(i) \/ ResolveRow(i) \/ FinishItem(i) \/ CheckItem(i) \/ TaskFault(i)
  PROVE  LinkInv'
<1>1. slTasks \in [Items -> TaskRecord] /\ slTasks[i] \in TaskRecord
  BY DEF LinkInv, LinkTypes
<1>2. CASE StartItem(i)
  <2> DEFINE left == {r \in Targets(slTasks[i].force) : GroupOf[r] = i[2]}
  <2>1. left \in SUBSET LinkRows
    BY DEF Targets
  <2>2. Live(i) /\ UNCHANGED <<slDispatch, slClock>>
    BY <1>2 DEF StartItem, Live
  <2>3. \/ /\ slTasks' = [slTasks EXCEPT ![i].state = "running", ![i].left = left]
           /\ UNCHANGED slItems
        \/ /\ slItems' = [slItems EXCEPT ![i].status = "failed"]
           /\ slTasks' = [slTasks EXCEPT ![i].state = "check"]
    BY <1>2 DEF StartItem
  <2> HIDE DEF left
  <2>4. \/ /\ slTasks' = [slTasks EXCEPT ![i] = [slTasks[i] EXCEPT !.state = "running", !.left = left]]
           /\ UNCHANGED slItems
        \/ /\ slItems' = [slItems EXCEPT ![i].status = "failed"]
           /\ slTasks' = [slTasks EXCEPT ![i] = [slTasks[i] EXCEPT !.state = "check"]]
    BY <1>1, <2>3
  <2>5. /\ [slTasks[i] EXCEPT !.state = "running", !.left = left] \in TaskRecord
        /\ [slTasks[i] EXCEPT !.state = "running", !.left = left].state # "none"
        /\ [slTasks[i] EXCEPT !.state = "check"] \in TaskRecord
        /\ [slTasks[i] EXCEPT !.state = "check"].state # "none"
    BY <1>1, <2>1 DEF TaskRecord
  <2> QED
    BY <2>2, <2>4, <2>5, TaskMoves
<1>3. CASE ResolveRow(i)
  <2>1. PICK r \in slTasks[i].left, answer \in ResolveLink(LinkStore[i[2]], slTasks[i].once) :
          slTasks' = [slTasks EXCEPT ![i].left = @ \ {r}, ![i].once = answer[2]]
    BY <1>3 DEF ResolveRow
  <2>2. answer[2] \in {"unset", "ok", "failed"}
    BY <1>1, AnswerTyped DEF TaskRecord
  <2>3. slTasks[i].state = "running" /\ Live(i) /\ UNCHANGED <<slItems, slDispatch, slClock>>
    BY <1>3 DEF ResolveRow, Live
  <2> DEFINE t == [slTasks[i] EXCEPT !.left = @ \ {r}, !.once = answer[2]]
  <2>4. slTasks' = [slTasks EXCEPT ![i] = t]
    BY <1>1, <2>1
  <2>5. t \in TaskRecord /\ t.state # "none"
    BY <1>1, <2>2, <2>3 DEF TaskRecord
  <2> HIDE DEF t
  <2> QED
    BY <2>3, <2>4, <2>5, TaskMoves
<1>4. CASE FinishItem(i)
  <2> DEFINE t == [slTasks[i] EXCEPT !.state = "check"]
  <2>1. /\ slTasks' = [slTasks EXCEPT ![i] = t] /\ t \in TaskRecord /\ t.state # "none"
        /\ Live(i) /\ UNCHANGED <<slDispatch, slClock>>
    BY <1>1, <1>4 DEF FinishItem, Live, TaskRecord
  <2>2. PICK st \in {"completed", "failed"} : slItems' = [slItems EXCEPT ![i].status = st]
    BY <1>4 DEF FinishItem
  <2> HIDE DEF t
  <2> QED
    BY <2>1, <2>2, TaskMoves
<1>5. CASE CheckItem(i)
  <2> DEFINE t == [slTasks[i] EXCEPT !.state = "dead"]
  <2>1. /\ slTasks' = [slTasks EXCEPT ![i] = t] /\ t \in TaskRecord /\ t.state # "none"
        /\ Live(i) /\ UNCHANGED <<slItems, slDispatch, slClock>>
    BY <1>1, <1>5 DEF CheckItem, Live, TaskRecord
  <2> HIDE DEF t
  <2> QED
    BY <2>1, TaskMoves
<1>6. CASE TaskFault(i)
  <2>1. Live(i) /\ UNCHANGED <<slItems, slDispatch, slClock>>
    BY <1>6 DEF TaskFault
  <2>2. PICK r \in TaskRecord : r = slTasks[i]
    BY <1>1
  <2>3. slTasks' = [slTasks EXCEPT ![i] = Retried(r)]
    BY <1>6, <2>2 DEF TaskFault, Retried
  <2> QED
    BY <2>1, <2>3, TaskMoves, FaultTyped
<1> QED
  BY <1>2, <1>3, <1>4, <1>5, <1>6

LEMMA LinkInvStep == LinkInv /\ [LinksNext]_linkVars => LinkInv'
<1>1. CASE LinkInv /\ LinkTick
  <2>1. LinkTypes' /\ ReapedDoomed' /\ StuckDoomed' /\ Ordered'
    BY <1>1 DEF LinkTick, LinkInv, LinkTypes, ReapedDoomed, StuckDoomed, Ordered, Doomed, DispatchAt
  <2>2. Young'
    <3> SUFFICES ASSUME NEW i \in Items, slDispatch[JobOf(i)].pc = "enqueue", slItems[i].status # "none",
                        slTasks[i].state = "none"
                 PROVE  slClock + 1 <= slItems[i].born + ReapMinAge
      BY <1>1 DEF Young, LinkTick, DispatchAt
    <3>1. i \in Waiting(JobOf(i)) /\ JobOf(i) \in LinkJobs
      BY ItemJob DEF Waiting
    <3>2. slClock < slItems[i].born + ReapMinAge /\ slItems[i].born \in Nat /\ slClock \in Nat
      BY <1>1, <3>1 DEF LinkTick, DispatchAt, LinkInv, LinkTypes, ItemRecord
    <3> QED
      BY <3>2, LinkAssumption
  <2> QED
    BY <2>1, <2>2 DEF LinkInv
<1>2. CASE LinkInv /\ UNCHANGED linkVars
  BY <1>2 DEF linkVars, LinkInv, LinkTypes, ReapedDoomed, StuckDoomed, Ordered, Young, Doomed, DispatchAt
<1> QED
  BY <1>1, <1>2, LinkInvDispatch, LinkInvCommit, LinkInvItem DEF LinksNext

\* For any jobs, groups and rows, any reap age and any crashes: the reaper of a dispatch
\* never fails an item that has a live task or will get one.
THEOREM ReaperSpares == LinksSpec => []OnlyOrphansReaped
BY LinkInvInit, LinkInvStep, LinkInvImplies, PTL DEF LinksSpec

---------------------------------------------------------------------------
(* The pages of a library. *)

LEMMA LeastIn ==
  ASSUME NEW S, S \subseteq Nat, S # {}
  PROVE  Least(S) \in S /\ \A y \in S : Least(S) <= y
BY LeastNumber DEF Least

\* How many titles of a listing come before g, and which come before a position.
Rank(S, g)   == Cardinality({h \in S : h < g})
Before(S, m) == {h \in S : Rank(S, h) < m}

LEMMA RankType ==
  ASSUME NEW S, S \subseteq Nat, IsFiniteSet(S)
  PROVE  \A g : Rank(S, g) \in Nat
<1> SUFFICES ASSUME NEW g PROVE Rank(S, g) \in Nat
  OBVIOUS
<1>1. IsFiniteSet({h \in S : h < g})
  BY FS_Subset
<1> QED
  BY <1>1, FS_CardinalityType DEF Rank

LEMMA RankBelow ==
  ASSUME NEW S, S \subseteq Nat, IsFiniteSet(S), NEW g \in S
  PROVE  Rank(S, g) < Cardinality(S)
<1> DEFINE L == {h \in S : h < g}
<1>1. L \in SUBSET S /\ g \notin L
  OBVIOUS
<1>2. IsFiniteSet(L) /\ Cardinality(L) <= Cardinality(S) /\ (Cardinality(S) = Cardinality(L) => S = L)
  BY <1>1, FS_Subset
<1>3. Cardinality(L) \in Nat /\ Cardinality(S) \in Nat
  BY <1>2, FS_CardinalityType
<1> QED
  BY <1>1, <1>2, <1>3 DEF Rank

\* A title further down has more before it.
LEMMA RankGrows ==
  ASSUME NEW S, S \subseteq Nat, IsFiniteSet(S), NEW g \in S, NEW h \in S, g < h
  PROVE  Rank(S, g) < Rank(S, h)
<1> DEFINE L == {x \in S : x < g}
           M == {x \in S : x < h}
<1>1. L \in SUBSET M /\ g \in M /\ g \notin L
  <2>1. g \in Nat /\ h \in Nat /\ g \in M /\ g \notin L
    OBVIOUS
  <2>2. ASSUME NEW x \in L PROVE x \in M
    <3>1. x \in S /\ x \in Nat /\ x < g
      OBVIOUS
    <3>2. x < h
      BY <2>1, <3>1
    <3> QED
      BY <3>1, <3>2
  <2> HIDE DEF L, M
  <2> QED
    BY <2>1, <2>2
<1>2. IsFiniteSet(M)
  BY FS_Subset
<1>3. IsFiniteSet(L) /\ Cardinality(L) <= Cardinality(M) /\ (Cardinality(M) = Cardinality(L) => M = L)
  BY <1>1, <1>2, FS_Subset
<1>4. Cardinality(L) \in Nat /\ Cardinality(M) \in Nat
  BY <1>2, <1>3, FS_CardinalityType
<1>5. Cardinality(L) < Cardinality(M)
  BY <1>1, <1>3, <1>4
<1> QED
  BY <1>5 DEF Rank

\* No more than m titles come before position m.
LEMMA BeforeAtMost ==
  ASSUME NEW S, S \subseteq Nat, IsFiniteSet(S), NEW m \in Nat
  PROVE  Cardinality(Before(S, m)) <= m
<1> DEFINE B == Before(S, m)
<1>1. B \in SUBSET S /\ IsFiniteSet(B)
  BY FS_Subset DEF Before
<1>2. CASE B = {}
  BY <1>2, FS_EmptySet
<1>3. CASE B # {}
  <2> DEFINE D == {Cardinality(S) - Rank(S, h) : h \in B}
  <2>0. /\ \A h \in B : h \in S /\ h \in Nat
        /\ \A h \in B : Rank(S, h) \in Nat /\ Rank(S, h) < Cardinality(S)
        /\ Cardinality(S) \in Nat
    BY <1>1, RankBelow, RankType, FS_CardinalityType
  <2> HIDE DEF B
  <2>1. D \subseteq Nat /\ D # {}
    BY <1>3, <2>0
  <2>2. PICK a \in B : \A h \in B : Cardinality(S) - Rank(S, a) <= Cardinality(S) - Rank(S, h)
    <3>1. PICK d \in D : \A e \in D : d <= e
      BY <2>1, LeastNumber
    <3> QED
      BY <3>1
  <2>3. \A h \in B : Rank(S, h) <= Rank(S, a)
    BY <2>0, <2>2
  <2>4. ASSUME NEW h \in B PROVE h <= a
    <3>1. h \in Nat /\ a \in Nat
      BY <2>0
    <3>2. CASE a < h
      <4>1. Rank(S, a) < Rank(S, h)
        BY <2>0, <3>2, RankGrows
      <4> QED
        BY <2>0, <2>3, <4>1
    <3> QED
      BY <3>1, <3>2
  <2> DEFINE L == {h \in S : h < a}
  <2>5. B \in SUBSET (L \cup {a})
    <3>1. ASSUME NEW h \in B PROVE h = a \/ (h \in S /\ h < a)
      BY <2>0, <2>4
    <3> QED
      BY <3>1
  <2>6. IsFiniteSet(L) /\ a \notin L
    <3>1. L \in SUBSET S
      OBVIOUS
    <3>2. a \notin L
      BY <2>0
    <3> QED
      BY <3>1, <3>2, FS_Subset
  <2>7. IsFiniteSet(L \cup {a}) /\ Cardinality(L \cup {a}) = Cardinality(L) + 1
    BY <2>6, FS_AddElement
  <2>8. Cardinality(B) <= Cardinality(L \cup {a})
    BY <2>5, <2>7, FS_Subset
  <2>9. Rank(S, a) = Cardinality(L) /\ Rank(S, a) < m /\ Rank(S, a) \in Nat
    BY RankType DEF B, Before, Rank
  <2>10. Cardinality(B) \in Nat
    BY <1>1, FS_CardinalityType
  <2> QED
    BY <2>7, <2>8, <2>9, <2>10 DEF B
<1> QED
  BY <1>2, <1>3

\* When some title is at position k or later, at least k come before position k.
LEMMA BeforeAtLeast ==
  ASSUME NEW S, S \subseteq Nat, IsFiniteSet(S), NEW k \in Nat, NEW g \in S, Rank(S, g) >= k
  PROVE  k <= Cardinality(Before(S, k))
<1> DEFINE T == {h \in S : Rank(S, h) >= k}
<1>1. T \subseteq Nat /\ T # {}
  OBVIOUS
<1>2. PICK a \in T : \A h \in T : a <= h
  BY <1>1, LeastNumber
<1> DEFINE L == {h \in S : h < a}
<1>3. ASSUME NEW h \in L PROVE h \in S /\ Rank(S, h) \in Nat /\ Rank(S, h) < k
  <2>1. h \in S /\ h < a /\ h \in Nat /\ a \in Nat
    BY <1>1
  <2>2. ~ (a <= h)
    BY <2>1
  <2>3. h \notin T
    BY <1>2, <2>2
  <2>4. Rank(S, h) \in Nat
    BY RankType
  <2>5. ~ (Rank(S, h) >= k)
    BY <2>1, <2>3
  <2> QED
    BY <2>1, <2>4, <2>5
<1>4. L \in SUBSET Before(S, k)
  <2> HIDE DEF L
  <2> QED
    BY <1>3 DEF Before
<1>5. IsFiniteSet(Before(S, k))
  BY FS_Subset DEF Before
<1>6. IsFiniteSet(L) /\ Cardinality(L) <= Cardinality(Before(S, k))
  BY <1>4, <1>5, FS_Subset
<1>7. Cardinality(L) = Rank(S, a) /\ Rank(S, a) >= k /\ Rank(S, a) \in Nat
  BY RankType DEF Rank
<1>8. Cardinality(Before(S, k)) \in Nat
  BY <1>5, FS_CardinalityType
<1> QED
  BY <1>6, <1>7, <1>8

\* A page of a listing is what lies between two positions.
LEMMA PageBetween ==
  ASSUME NEW S, NEW page \in Nat
  PROVE  OnStorePage(S, page) =
           {g \in S : (page - 1) * PageSize <= Rank(S, g) /\ Rank(S, g) < page * PageSize}
BY DEF OnStorePage, Rank

\* A page that is not full is the last one (fetchPurchasedGames stops at it).
LEMMA ShortPageIsLast ==
  ASSUME NEW S, S \subseteq Nat, IsFiniteSet(S), NEW page \in Nat, page >= 1,
         Cardinality(OnStorePage(S, page)) < PageSize
  PROVE  \A g \in S : Rank(S, g) < page * PageSize
<1> SUFFICES ASSUME NEW g \in S, ~ (Rank(S, g) < page * PageSize) PROVE FALSE
  OBVIOUS
<1> DEFINE m == (page - 1) * PageSize
           k == page * PageSize
           B == Before(S, k)
           A == Before(S, m)
<1>1. m \in Nat /\ k \in Nat /\ k = m + PageSize /\ PageSize \in Nat
  <2>1. page - 1 \in Nat /\ page = (page - 1) + 1 /\ PageSize \in Nat
    BY StoreFetchAssumption
  <2> QED
    BY <2>1
<1> HIDE DEF m, k
<1>2. Rank(S, g) >= k
  <2>1. Rank(S, g) \in Nat /\ ~ (Rank(S, g) < k)
    BY RankType DEF k
  <2> QED
    BY <1>1, <2>1
<1>3. k <= Cardinality(B)
  BY <1>1, <1>2, BeforeAtLeast
<1>0. \A h : Rank(S, h) \in Nat
  BY RankType
<1>4. Cardinality(A) <= m
  BY <1>1, BeforeAtMost
<1>5. IsFiniteSet(A) /\ IsFiniteSet(B)
  BY FS_Subset DEF Before
<1>6. Cardinality(B \ A) = Cardinality(B) - Cardinality(B \cap A)
  BY <1>5, FS_Difference
<1>7. B \cap A = A
  BY <1>0, <1>1 DEF Before
<1>8. OnStorePage(S, page) = B \ A
  <2>1. OnStorePage(S, page) = {h \in S : m <= Rank(S, h) /\ Rank(S, h) < k}
    BY PageBetween DEF m, k
  <2> QED
    BY <1>0, <1>1, <2>1 DEF Before
<1>9. Cardinality(A) \in Nat /\ Cardinality(B) \in Nat
  BY <1>5, FS_CardinalityType
<1>10. Cardinality(OnStorePage(S, page)) = Cardinality(B) - Cardinality(A)
  BY <1>6, <1>7, <1>8
<1> HIDE DEF A, B
<1>11. PageSize <= Cardinality(OnStorePage(S, page))
  BY <1>1, <1>3, <1>4, <1>9, <1>10
<1>12. Cardinality(OnStorePage(S, page)) \in Int
  BY <1>9, <1>10
<1> QED
  BY <1>1, <1>11, <1>12

\* After as many pages as a listing has nothing is left (GOG's page count).
LEMMA PagesAreEnough ==
  ASSUME NEW S, S \subseteq Nat, IsFiniteSet(S), NEW page \in Nat, page >= PageCount(S), NEW g \in S
  PROVE  Rank(S, g) < page * PageSize
<1> DEFINE n == Cardinality(S)
           c == PageCount(S)
<1>1. n \in Nat /\ PageSize \in Nat \ {0}
  BY FS_CardinalityType, StoreFetchAssumption
<1>2. c \in Nat /\ n <= c * PageSize
  BY <1>1 DEF PageCount
<1> HIDE DEF c
<1>3. c * PageSize <= page * PageSize
  BY <1>1, <1>2 DEF c
<1>4. Rank(S, g) < n /\ Rank(S, g) \in Nat
  BY RankBelow, RankType
<1>5. c * PageSize \in Nat /\ page * PageSize \in Nat
  BY <1>1, <1>2
<1> QED
  BY <1>1, <1>2, <1>3, <1>4, <1>5

---------------------------------------------------------------------------
(* The invariant. *)

RowRecord == [there : BOOLEAN, avail : BOOLEAN, parent : StoreGames \cup {NoParent},
              hours : [StorePlatforms -> Nat], plats : SUBSET StorePlatforms]

FetchPlaces == {"pages", "batches", "orders", "sweep"}

\* A list in memory is of titles, or of orders.
Listed == StoreGames \cup {OrderOf[g] : g \in StoreGames}

FetchRecord ==
  [pc : FetchPlaces \cup {"idle", "upsert", "removed", "swept"}, page : Nat, list : SUBSET Listed,
   batch : SUBSET StoreGames, then : FetchPlaces \cup {"idle"}, seen : SUBSET StoreGames,
   plats : [StoreGames -> SUBSET StorePlatforms]]

FetchTypes ==
  /\ sfStore \in Adapters
  /\ sfOwned \in SUBSET StoreGames
  /\ sfPlats \in [StoreGames -> SUBSET StorePlatforms]
  /\ sfHours \in [StoreGames -> Nat]
  /\ sfRows \in [StoreGames -> RowRecord]
  /\ sfFetch \in FetchRecord

\* Where the dispatch goes on once its batch is upserted.
Place == IF sfFetch.pc = "upsert" THEN sfFetch.then ELSE sfFetch.pc

\* A title the store has yet to deliver: it is on a later page, or in what the adapter
\* collected, or in an order that was not fetched yet.
Ahead(g) ==
  \/ Place = "pages" /\ (g \in sfFetch.list \/ Rank(sfOwned, g) >= (sfFetch.page - 1) * PageSize)
  \/ Place = "batches" /\ g \in sfFetch.list
  \/ Place = "orders" /\ OrderOf[g] \in sfFetch.list

Underway == Place \in FetchPlaces \cup {"removed"}

\* The row of what was delivered says what the store says.
Delivered(g) ==
  /\ g \in sfOwned /\ Qualifies(g)
  /\ sfRows[g].avail
  /\ sfFetch.plats[g] = EntryPlatforms(g)
  /\ EntryPlatforms(g) \subseteq sfRows[g].plats
  /\ sfRows[g].hours[Least(EntryPlatforms(g))] >= EntryHours(g)

\* As long as the store does not change: nothing of the library is lost between two
\* pages, batches or orders, and nothing else comes in.
NothingLost ==
  ~sfDrift /\ Underway =>
    \A g \in sfOwned : Qualifies(g) => g \in sfFetch.seen \/ g \in sfFetch.batch \/ Ahead(g)

NothingElse ==
  ~sfDrift /\ Underway =>
    /\ sfFetch.batch \subseteq sfOwned
    /\ sfStore # "humble" => sfFetch.list \subseteq sfOwned
    /\ Place = "pages" => sfFetch.page >= 1
    /\ sfFetch.pc \in {"pages", "batches", "sweep", "removed"} => sfFetch.batch = {}

AllDelivered ==
  ~sfDrift /\ Underway =>
    \A g \in sfFetch.seen : /\ Delivered(g)
                            /\ sfFetch.pc = "removed" => sfRows[g].plats \subseteq EntryPlatforms(g)

\* Only Humble's adapter holds a list of orders, and goes through it; GOG's holds none.
Route ==
  /\ sfFetch.pc = "upsert" => sfFetch.then \in FetchPlaces
  /\ Place \in {"pages", "batches"} => sfStore # "humble"
  /\ sfStore # "humble" => sfFetch.list \subseteq StoreGames
  /\ sfStore = "gog" => sfFetch.list = {}

FetchInv ==
  FetchTypes /\ Route /\ NothingLost /\ NothingElse /\ AllDelivered /\ SweepExact /\ GroupsFlat

LEMMA PageIn == ASSUME NEW S, NEW page PROVE OnStorePage(S, page) \subseteq S
BY DEF OnStorePage

\* An entry has a first platform, and hours.
LEMMA EntryTyped ==
  ASSUME FetchTypes, NEW g \in StoreGames
  PROVE  /\ EntryPlatforms(g) \in SUBSET StorePlatforms
         /\ Least(EntryPlatforms(g)) \in EntryPlatforms(g)
         /\ EntryHours(g) \in Nat
<1>1. sfPlats[g] \in SUBSET StorePlatforms /\ sfHours[g] \in Nat
  BY DEF FetchTypes
<1>2. EntryPlatforms(g) \in SUBSET StorePlatforms /\ EntryPlatforms(g) # {}
  BY <1>1, StoreFetchAssumption DEF EntryPlatforms
<1>3. EntryPlatforms(g) \subseteq Nat
  BY <1>2, StoreFetchAssumption
<1>4. EntryHours(g) \in Nat
  BY <1>1 DEF EntryHours
<1> QED
  BY <1>2, <1>3, <1>4, LeastIn

\* What UpsertEntry does with the next title of a batch.
Upserts(g) ==
  /\ g \in sfFetch.batch /\ Qualifies(g)
  /\ \E parent \in {NoParent} \cup StoreGames :
       /\ IF sfRows[g].there THEN parent = sfRows[g].parent
          ELSE parent = NoParent \/ parent \in ParentsFor(g)
       /\ sfRows' = [sfRows EXCEPT ![g] =
            [there |-> TRUE, avail |-> TRUE, parent |-> parent,
             plats |-> sfRows[g].plats \cup EntryPlatforms(g),
             hours |-> [sfRows[g].hours EXCEPT ![Least(EntryPlatforms(g))] = Greater(@, EntryHours(g))]]]
  /\ sfFetch' = [sfFetch EXCEPT !.batch = @ \ {g}, !.seen = @ \cup {g}, !.plats[g] = EntryPlatforms(g)]

LEMMA UpsertCases ==
  ASSUME FetchTypes, UpsertEntry
  PROVE  \/ /\ sfFetch.batch = {} /\ sfFetch' = [sfFetch EXCEPT !.pc = sfFetch.then]
            /\ UNCHANGED sfRows
         \/ \E g \in sfFetch.batch : ~Qualifies(g) /\ sfFetch' = [sfFetch EXCEPT !.batch = @ \ {g}]
                                      /\ UNCHANGED sfRows
         \/ \E g \in StoreGames : Upserts(g)
<1>1. CASE sfFetch.batch = {}
  BY <1>1 DEF UpsertEntry
<1>2. CASE sfFetch.batch # {}
  <2> DEFINE g == Least(sfFetch.batch)
  <2>1. sfFetch.batch \in SUBSET StoreGames
    BY DEF FetchTypes, FetchRecord
  <2>2. g \in sfFetch.batch /\ g \in StoreGames
    BY <1>2, <2>1, LeastIn, StoreFetchAssumption
  <2>3. CASE ~Qualifies(g)
    BY <1>2, <2>2, <2>3 DEF UpsertEntry
  <2>4. CASE Qualifies(g)
    <3>1. /\ \E parent \in (IF sfRows[g].there THEN {sfRows[g].parent}
                            ELSE IF ParentsFor(g) = {} THEN {NoParent} ELSE ParentsFor(g)) :
               sfRows' = [sfRows EXCEPT ![g] =
                 [there |-> TRUE, avail |-> TRUE, parent |-> parent,
                  plats |-> sfRows[g].plats \cup EntryPlatforms(g),
                  hours |-> [sfRows[g].hours EXCEPT ![Least(EntryPlatforms(g))] = Greater(@, EntryHours(g))]]]
          /\ sfFetch' = [sfFetch EXCEPT !.batch = @ \ {g}, !.seen = @ \cup {g}, !.plats[g] = EntryPlatforms(g)]
      BY <1>2, <2>4 DEF UpsertEntry
    <3>2. sfRows[g].parent \in {NoParent} \cup StoreGames /\ ParentsFor(g) \subseteq StoreGames
      BY <2>2 DEF FetchTypes, RowRecord, ParentsFor
    <3> HIDE DEF g
    <3>3. Upserts(g)
      BY <2>2, <2>4, <3>1, <3>2, Zenon DEF Upserts
    <3> QED
      BY <2>2, <3>3
  <2> QED
    BY <2>3, <2>4
<1> QED
  BY <1>1, <1>2

\* The fields of the dispatch after an upsert.
LEMMA UpsertFields ==
  ASSUME FetchTypes, NEW g \in StoreGames, Upserts(g)
  PROVE  /\ sfFetch' \in FetchRecord
         /\ sfFetch'.pc = sfFetch.pc /\ sfFetch'.then = sfFetch.then
         /\ sfFetch'.page = sfFetch.page /\ sfFetch'.list = sfFetch.list
         /\ sfFetch'.batch = sfFetch.batch \ {g} /\ sfFetch'.seen = sfFetch.seen \cup {g}
         /\ sfFetch'.plats[g] = EntryPlatforms(g)
         /\ \A h \in StoreGames \ {g} : sfFetch'.plats[h] = sfFetch.plats[h]
<1>1. EntryPlatforms(g) \in SUBSET StorePlatforms
  BY EntryTyped
<1>2. sfFetch' = [sfFetch EXCEPT !.batch = @ \ {g}, !.seen = @ \cup {g}, !.plats[g] = EntryPlatforms(g)]
  BY DEF Upserts
<1>3. sfFetch \in FetchRecord
  BY DEF FetchTypes
<1> HIDE DEF EntryPlatforms
<1> QED
  BY <1>1, <1>2, <1>3 DEF FetchRecord

\* The rows after an upsert.
LEMMA UpsertRows ==
  ASSUME FetchTypes, NEW g \in StoreGames, Upserts(g)
  PROVE  /\ sfRows' \in [StoreGames -> RowRecord]
         /\ \A h \in StoreGames \ {g} : sfRows'[h] = sfRows[h]
         /\ sfRows'[g].there /\ sfRows'[g].avail
         /\ sfRows'[g].plats = sfRows[g].plats \cup EntryPlatforms(g)
         /\ sfRows'[g].hours[Least(EntryPlatforms(g))] >= EntryHours(g)
         /\ IF sfRows[g].there THEN sfRows'[g].parent = sfRows[g].parent
            ELSE sfRows'[g].parent = NoParent \/ sfRows'[g].parent \in ParentsFor(g)
<1> DEFINE first == Least(EntryPlatforms(g))
           E == EntryPlatforms(g)
           n == EntryHours(g)
           hours == [sfRows[g].hours EXCEPT ![first] = Greater(@, n)]
<1>1. E \in SUBSET StorePlatforms /\ first \in StorePlatforms /\ n \in Nat
  BY EntryTyped
<1>2. PICK parent \in {NoParent} \cup StoreGames :
       /\ IF sfRows[g].there THEN parent = sfRows[g].parent
          ELSE parent = NoParent \/ parent \in ParentsFor(g)
       /\ sfRows' = [sfRows EXCEPT ![g] = [there |-> TRUE, avail |-> TRUE, parent |-> parent,
                                          plats |-> sfRows[g].plats \cup E, hours |-> hours]]
  BY DEF Upserts
<1> HIDE DEF first, E, n
<1>3. sfRows \in [StoreGames -> RowRecord] /\ sfRows[g] \in RowRecord
  BY DEF FetchTypes
<1>4. hours \in [StorePlatforms -> Nat] /\ hours[first] >= n
  BY <1>1, <1>3 DEF RowRecord, Greater
<1> HIDE DEF hours
<1>5. [there |-> TRUE, avail |-> TRUE, parent |-> parent, plats |-> sfRows[g].plats \cup E,
       hours |-> hours] \in RowRecord
  BY <1>1, <1>2, <1>3, <1>4 DEF RowRecord
<1>6. sfRows' \in [StoreGames -> RowRecord]
  BY <1>2, <1>3, <1>5
<1>7. sfRows'[g] = [there |-> TRUE, avail |-> TRUE, parent |-> parent, plats |-> sfRows[g].plats \cup E,
                    hours |-> hours]
      /\ \A h \in StoreGames \ {g} : sfRows'[h] = sfRows[h]
  BY <1>2, <1>3
<1> QED
  BY <1>2, <1>4, <1>6, <1>7 DEF E, n, first

\* What FetchOrder leaves of the dispatch.
LEMMA OrderCases ==
  ASSUME FetchTypes, FetchOrder
  PROVE  \/ /\ sfFetch.list = {} /\ UNCHANGED sfDrift
            /\ sfFetch' = [sfFetch EXCEPT !.pc = "upsert", !.then = "sweep"]
         \/ /\ sfFetch.list # {} /\ UNCHANGED sfDrift
            /\ \E o \in sfFetch.list, held \in SUBSET StoreGames, to \in {"upsert", "orders"} :
                 /\ held = sfFetch.batch \cup {g \in sfOwned : OrderOf[g] = o}
                 /\ sfFetch' = [sfFetch EXCEPT !.list = @ \ {o}, !.batch = held, !.then = "orders", !.pc = to]
         \/ /\ sfDrift'
            /\ \E o \in Listed : sfFetch' = [sfFetch EXCEPT !.list = @ \ {o}]
<1> DEFINE o     == Least(sfFetch.list)
           games == {g \in sfOwned : OrderOf[g] = o}
           held  == sfFetch.batch \cup games
           full  == Cardinality(held) >= PageSize
<1>1. sfFetch.pc = "orders" /\ sfFetch \in FetchRecord
  BY DEF FetchTypes, FetchOrder
<1>2. CASE sfFetch.list = {}
  BY <1>2 DEF FetchOrder
<1>3. CASE sfFetch.list # {}
  <2>1. o \in sfFetch.list /\ o \in Listed
    <3>1. Listed \subseteq Nat
      <4>1. StoreGames \subseteq Nat /\ \A g \in StoreGames : OrderOf[g] \in Nat
        BY StoreFetchAssumption
      <4> QED
        BY <4>1 DEF Listed
    <3>2. sfFetch.list \subseteq Listed
      BY <1>1 DEF FetchRecord
    <3> HIDE DEF o
    <3>3. o \in sfFetch.list
      BY <1>3, <3>1, <3>2, LeastIn DEF o
    <3> QED
      BY <3>2, <3>3
  <2>2. held \in SUBSET StoreGames
    BY <1>1 DEF FetchRecord, FetchTypes
  <2>3. \/ /\ UNCHANGED sfDrift
           /\ sfFetch' = [sfFetch EXCEPT !.list = @ \ {o}, !.batch = held, !.then = "orders",
                                      !.pc = IF full THEN "upsert" ELSE @]
        \/ sfFetch' = [sfFetch EXCEPT !.list = @ \ {o}] /\ sfDrift'
    BY <1>3 DEF FetchOrder
  <2>4. held = sfFetch.batch \cup {g \in sfOwned : OrderOf[g] = o}
    OBVIOUS
  <2> HIDE DEF o, held, full
  <2>5. CASE UNCHANGED sfDrift
             /\ sfFetch' = [sfFetch EXCEPT !.list = @ \ {o}, !.batch = held, !.then = "orders",
                                        !.pc = IF full THEN "upsert" ELSE @]
    <3>1. PICK to \in {"upsert", "orders"} : to = IF full THEN "upsert" ELSE sfFetch.pc
      BY <1>1
    <3>2. sfFetch' = [sfFetch EXCEPT !.list = @ \ {o}, !.batch = held, !.then = "orders", !.pc = to]
      BY <2>5, <3>1
    <3>3. \E o1 \in sfFetch.list, held1 \in SUBSET StoreGames, to1 \in {"upsert", "orders"} :
           /\ held1 = sfFetch.batch \cup {g \in sfOwned : OrderOf[g] = o1}
           /\ sfFetch' = [sfFetch EXCEPT !.list = @ \ {o1}, !.batch = held1, !.then = "orders", !.pc = to1]
      BY <2>1, <2>2, <2>4, <3>2, Zenon
    <3> QED
      BY <1>3, <2>5, <3>3, Zenon
  <2> QED
    BY <2>1, <2>3, <2>5
<1> QED
  BY <1>2, <1>3

---------------------------------------------------------------------------
(* Types and groups. *)

LEMMA FetchInvInit == FetchInit => FetchInv
<1> SUFFICES ASSUME FetchInit PROVE FetchInv
  OBVIOUS
<1> USE DEF FetchInit, FetchIdle
<1>1. NoEntry \in RowRecord
  BY DEF NoEntry, RowRecord
<1>2. FetchIdle \in FetchRecord
  BY DEF FetchRecord, FetchPlaces
<1>3. sfPlats \in [StoreGames -> SUBSET StorePlatforms]
  BY StoreFetchAssumption
<1>4. FetchTypes
  BY <1>1, <1>2, <1>3 DEF FetchTypes
<1>5. sfFetch.pc = "idle" /\ Place = "idle" /\ ~Underway
  BY DEF Place, Underway, FetchPlaces
<1>6. \A g \in StoreGames : sfRows[g].parent = NoParent
  BY DEF NoEntry
<1> QED
  BY <1>4, <1>5, <1>6
     DEF FetchInv, Route, NothingLost, NothingElse, AllDelivered, SweepExact, GroupsFlat

LEMMA FetchTypesStep == ASSUME FetchTypes, Route, FetchNext PROVE FetchTypes'
<1> USE DEF storeSide
<1>0. sfFetch \in FetchRecord
  BY DEF FetchTypes
<1>1. sfRows \in [StoreGames -> RowRecord] /\ sfOwned \in SUBSET StoreGames
  BY DEF FetchTypes
<1>b. FetchIdle \in FetchRecord
  BY DEF FetchRecord, FetchPlaces, FetchIdle
<1>2. NoEntry \in RowRecord
  BY DEF NoEntry, RowRecord
<1>3. /\ {OrderOf[g] : g \in sfOwned} \subseteq Listed /\ sfOwned \subseteq Listed
      /\ \A page : OnStorePage(sfOwned, page) \subseteq StoreGames
      /\ StoreGames \subseteq Listed
  BY <1>1, PageIn DEF Listed
<1>a. ASSUME sfFetch' \in FetchRecord, UNCHANGED storeSide, UNCHANGED sfRows PROVE FetchTypes'
  BY <1>a DEF FetchTypes
<1>4. CASE StartFetch
  <2> DEFINE to    == CASE sfStore \in {"steam", "epic"} -> "batches"
                        [] sfStore = "humble"            -> "orders"
                        [] OTHER                         -> "pages"
             first == IF sfStore \in {"gog", "playstation-store"} THEN 1 ELSE 0
             L     == CASE sfStore \in {"steam", "epic"} -> sfOwned
                        [] sfStore = "humble"            -> {OrderOf[g] : g \in sfOwned}
                        [] OTHER                         -> {}
  <2>1. sfFetch' = [FetchIdle EXCEPT !.pc = to, !.page = first, !.list = L]
    BY <1>4 DEF StartFetch
  <2>2. to \in FetchPlaces /\ first \in Nat
    BY DEF FetchPlaces
  <2>3. L \in SUBSET Listed
    BY <1>3
  <2> HIDE DEF to, first, L
  <2>4. sfFetch' \in FetchRecord
    BY <1>b, <2>1, <2>2, <2>3 DEF FetchRecord
  <2> QED
    BY <1>a, <1>4, <2>4 DEF StartFetch
<1>5. CASE FetchPage
  <2> DEFINE B  == OnStorePage(sfOwned, sfFetch.page)
             to == IF sfFetch.page >= PageCount(sfOwned) THEN "sweep" ELSE "pages"
  <2>1. sfFetch' = [sfFetch EXCEPT !.pc = "upsert", !.batch = B, !.page = @ + 1, !.then = to]
    BY <1>5 DEF FetchPage
  <2>2. B \in SUBSET StoreGames /\ to \in FetchPlaces
    BY <1>3 DEF FetchPlaces
  <2>0. sfFetch.page + 1 \in Nat
    BY <1>0 DEF FetchRecord
  <2> HIDE DEF B, to
  <2>3. sfFetch' \in FetchRecord
    BY <1>0, <2>0, <2>1, <2>2 DEF FetchRecord
  <2> QED
    BY <1>a, <1>5, <2>3 DEF FetchPage
<1>6. CASE FetchPurchasedGames
  <2> DEFINE B    == OnStorePage(sfOwned, sfFetch.page)
             last == Cardinality(B) < PageSize
  <2>1. sfFetch' = [sfFetch EXCEPT !.list = @ \cup B, !.page = @ + 1, !.pc = IF last THEN "batches" ELSE @]
    BY <1>6 DEF FetchPurchasedGames
  <2>2. B \in SUBSET Listed
    BY <1>3
  <2>0. sfFetch.page + 1 \in Nat /\ sfFetch.list \cup B \in SUBSET Listed /\ sfFetch.pc = "pages"
    BY <1>0, <1>6, <2>2 DEF FetchRecord, FetchPurchasedGames
  <2> HIDE DEF B, last
  <2>3. sfFetch' \in FetchRecord
    <3>1. CASE last
      BY <1>0, <2>0, <2>1, <3>1 DEF FetchRecord, FetchPlaces
    <3>2. CASE ~last
      BY <1>0, <2>0, <2>1, <3>2 DEF FetchRecord, FetchPlaces
    <3> QED
      BY <3>1, <3>2
  <2> QED
    BY <1>a, <1>6, <2>3 DEF FetchPurchasedGames
<1>7. CASE NextBatch
  <2> DEFINE B == OnStorePage(sfFetch.list, 1)
  <2>1. CASE sfFetch.list = {}
    <3>1. sfFetch' = [sfFetch EXCEPT !.pc = "sweep"]
      BY <1>7, <2>1 DEF NextBatch
    <3>2. sfFetch' \in FetchRecord
      BY <1>0, <3>1 DEF FetchRecord, FetchPlaces
    <3> QED
      BY <1>a, <1>7, <3>2 DEF NextBatch
  <2>2. CASE sfFetch.list # {}
    <3>1. sfFetch' = [sfFetch EXCEPT !.pc = "upsert", !.batch = B, !.list = @ \ B, !.then = "batches"]
      BY <1>7, <2>2 DEF NextBatch
    <3>2. B \in SUBSET StoreGames
      BY <1>7, PageIn DEF NextBatch, Route, Place
    <3> HIDE DEF B
    <3>3. sfFetch' \in FetchRecord
      BY <1>0, <3>1, <3>2 DEF FetchRecord, FetchPlaces
    <3> QED
      BY <1>a, <1>7, <3>3 DEF NextBatch
  <2> QED
    BY <2>1, <2>2
<1>8. CASE FetchOrder
  <2>1. sfFetch' \in FetchRecord
    <3>1. CASE sfFetch' = [sfFetch EXCEPT !.pc = "upsert", !.then = "sweep"]
      BY <1>0, <3>1 DEF FetchRecord, FetchPlaces
    <3>2. ASSUME NEW o \in sfFetch.list, NEW held \in SUBSET StoreGames, NEW to \in {"upsert", "orders"},
                 sfFetch' = [sfFetch EXCEPT !.list = @ \ {o}, !.batch = held, !.then = "orders", !.pc = to]
          PROVE  sfFetch' \in FetchRecord
      BY <1>0, <3>2 DEF FetchRecord, FetchPlaces
    <3>3. ASSUME NEW o \in Listed, sfFetch' = [sfFetch EXCEPT !.list = @ \ {o}]
          PROVE  sfFetch' \in FetchRecord
      BY <1>0, <3>3 DEF FetchRecord
    <3> QED
      BY <1>8, <3>1, <3>2, <3>3, OrderCases
  <2> QED
    BY <1>a, <1>8, <2>1 DEF FetchOrder
<1>9. CASE FailFetch
  BY <1>b, <1>9 DEF FailFetch, FetchTypes
<1>10. CASE UpsertEntry
  <2>1. sfFetch' \in FetchRecord
    <3>1. CASE sfFetch.batch = {} /\ sfFetch' = [sfFetch EXCEPT !.pc = sfFetch.then]
      BY <1>0, <1>10, <3>1 DEF UpsertEntry, FetchRecord, Route, FetchPlaces
    <3>2. ASSUME NEW g \in sfFetch.batch, sfFetch' = [sfFetch EXCEPT !.batch = @ \ {g}]
          PROVE sfFetch' \in FetchRecord
      BY <1>0, <3>2 DEF FetchRecord
    <3> QED
      BY <1>10, <3>1, <3>2, UpsertCases, UpsertFields
  <2>2. sfRows' \in [StoreGames -> RowRecord]
    BY <1>1, <1>10, UpsertCases, UpsertRows
  <2> QED
    BY <1>10, <2>1, <2>2 DEF FetchTypes, UpsertEntry
<1>11. CASE SweepPlatforms
  <2>1. ASSUME NEW g \in StoreGames PROVE sfRows'[g] \in RowRecord
    BY <1>1, <1>11, ZenonT(60) DEF SweepPlatforms, RowRecord
  <2> QED
    BY <1>11, <2>1 DEF SweepPlatforms, FetchTypes, FetchRecord
<1>12. CASE MarkRemoved
  <2>1. ASSUME NEW g \in StoreGames PROVE sfRows'[g] \in RowRecord
    BY <1>1, <1>12, ZenonT(60) DEF MarkRemoved, RowRecord
  <2>2. sfFetch' \in FetchRecord
    BY <1>b, <1>12 DEF MarkRemoved, FetchRecord
  <2> QED
    BY <1>12, <2>1, <2>2 DEF MarkRemoved, FetchTypes
<1>13. CASE EndFetch
  BY <1>b, <1>13 DEF EndFetch, FetchTypes
<1>14. CASE StoreChanges
  <2>1. UNCHANGED <<sfStore, sfRows, sfFetch>>
    BY <1>14 DEF StoreChanges
  <2> DEFINE Typed == /\ sfOwned' \in SUBSET StoreGames /\ sfPlats' \in [StoreGames -> SUBSET StorePlatforms]
                      /\ sfHours' \in [StoreGames -> Nat]
  <2>2. Typed
    <3> USE DEF FetchTypes
    <3>1. ASSUME NEW g \in StoreGames,
                 sfOwned' = (IF g \in sfOwned THEN sfOwned \ {g} ELSE sfOwned \cup {g}),
                 UNCHANGED <<sfPlats, sfHours>>
          PROVE  Typed
      BY <3>1
    <3>2. ASSUME NEW g \in sfOwned, NEW ps \in PlatformLists, sfPlats' = [sfPlats EXCEPT ![g] = ps],
                 UNCHANGED <<sfOwned, sfHours>>
          PROVE  Typed
      BY <3>2, StoreFetchAssumption
    <3>3. ASSUME NEW g \in sfOwned, sfHours' = [sfHours EXCEPT ![g] = @ + 1], UNCHANGED <<sfOwned, sfPlats>>
          PROVE  Typed
      BY <3>3
    <3> HIDE DEF Typed
    <3> QED
      BY <1>14, <3>1, <3>2, <3>3 DEF StoreChanges
  <2> QED
    BY <2>1, <2>2 DEF FetchTypes
<1>15. CASE DeleteExternalGames
  BY <1>2, <1>15 DEF DeleteExternalGames, FetchTypes
<1> QED
  BY <1>4, <1>5, <1>6, <1>7, <1>8, <1>9, <1>10, <1>11, <1>12, <1>13, <1>14, <1>15 DEF FetchNext

\* Only an upsert gives a row a parent, and it gives it to a new one.
LEMMA GroupsFlatStep == ASSUME FetchTypes, GroupsFlat, FetchNext PROVE GroupsFlat'
<1>0. NoParent \notin StoreGames
  BY StoreFetchAssumption DEF NoParent
<1>1. ASSUME \A g \in StoreGames : sfRows'[g].there = sfRows[g].there /\ sfRows'[g].parent = sfRows[g].parent
      PROVE  GroupsFlat'
  BY <1>1 DEF GroupsFlat, FetchTypes, RowRecord
<1>2. CASE UpsertEntry
  <2>1. CASE UNCHANGED sfRows
    BY <1>1, <2>1
  <2>2. ASSUME NEW g \in StoreGames, Upserts(g) PROVE GroupsFlat'
    <3>1. /\ \A h \in StoreGames \ {g} : sfRows'[h] = sfRows[h]
          /\ sfRows'[g].there
          /\ IF sfRows[g].there THEN sfRows'[g].parent = sfRows[g].parent
             ELSE sfRows'[g].parent = NoParent \/ sfRows'[g].parent \in ParentsFor(g)
      BY <2>2, UpsertRows
    <3>2. CASE sfRows[g].there
      <4>0. sfRows[g] \in RowRecord /\ sfRows'[g] \in RowRecord
        BY <2>2, UpsertRows DEF FetchTypes
      <4>1. \A h \in StoreGames : sfRows'[h].there = sfRows[h].there /\ sfRows'[h].parent = sfRows[h].parent
        BY <3>1, <3>2, <4>0 DEF RowRecord
      <4> QED
        BY <1>1, <4>1
    <3>3. CASE ~sfRows[g].there
      <4> SUFFICES ASSUME NEW k \in StoreGames, sfRows'[k].parent # NoParent
                   PROVE  sfRows'[sfRows'[k].parent].there /\ sfRows'[sfRows'[k].parent].parent = NoParent
        BY DEF GroupsFlat
      <4>1. CASE k = g
        <5>1. sfRows'[g].parent \in ParentsFor(g)
          BY <3>1, <3>3, <4>1
        <5> QED
          BY <3>1, <4>1, <5>1 DEF ParentsFor
      <4>2. CASE k # g
        <5>1. sfRows'[k].parent = sfRows[k].parent /\ sfRows[k].parent \in StoreGames
          BY <3>1, <4>2 DEF FetchTypes, RowRecord
        <5>2. sfRows[sfRows[k].parent].there /\ sfRows[sfRows[k].parent].parent = NoParent
          BY <5>1 DEF GroupsFlat
        <5>3. sfRows[k].parent # g
          BY <3>3, <5>2
        <5> QED
          BY <3>1, <5>1, <5>2, <5>3
      <4> QED
        BY <4>1, <4>2
    <3> QED
      BY <3>2, <3>3
  <2> QED
    BY <1>2, <2>1, <2>2, UpsertCases
<1>3. CASE SweepPlatforms
  <2>1. ASSUME NEW g \in StoreGames
        PROVE  sfRows'[g].there = sfRows[g].there /\ sfRows'[g].parent = sfRows[g].parent
    BY <1>3 DEF SweepPlatforms, FetchTypes, RowRecord
  <2> QED
    BY <1>1, <2>1
<1>4. CASE MarkRemoved
  <2>1. ASSUME NEW g \in StoreGames
        PROVE  sfRows'[g].there = sfRows[g].there /\ sfRows'[g].parent = sfRows[g].parent
    BY <1>4 DEF MarkRemoved, FetchTypes, RowRecord
  <2> QED
    BY <1>1, <2>1
<1>5. CASE DeleteExternalGames
  BY <1>5 DEF DeleteExternalGames, NoEntry, GroupsFlat
<1>6. CASE UNCHANGED sfRows
  BY <1>1, <1>6
<1>7. StartFetch \/ FetchPage \/ FetchPurchasedGames \/ NextBatch \/ FetchOrder \/ FailFetch \/ EndFetch
      \/ StoreChanges => UNCHANGED sfRows
  BY DEF StartFetch, FetchPage, FetchPurchasedGames, NextBatch, FetchOrder, FailFetch, EndFetch, StoreChanges
<1> QED
  BY <1>2, <1>3, <1>4, <1>5, <1>6, <1>7 DEF FetchNext

---------------------------------------------------------------------------
(* The library, from the pages to the sweeps. *)

Course == Route /\ NothingLost /\ NothingElse /\ AllDelivered /\ SweepExact

LEMMA SameStore ==
  ASSUME UNCHANGED storeSide
  PROVE  \A g : /\ Qualifies(g)' = Qualifies(g) /\ EntryPlatforms(g)' = EntryPlatforms(g)
                /\ EntryHours(g)' = EntryHours(g) /\ Rank(sfOwned, g)' = Rank(sfOwned, g)
BY DEF storeSide, Qualifies, HumbleEntry, EntryPlatforms, EntryHours, Rank

LEMMA DeliveredKept ==
  ASSUME UNCHANGED storeSide, NEW g, Delivered(g), sfRows'[g] = sfRows[g],
         sfFetch'.plats[g] = sfFetch.plats[g]
  PROVE  Delivered(g)'
BY SameStore DEF Delivered, storeSide

\* Nothing is promised of a sync during which the store changed.
LEMMA DriftPromisesNothing ==
  ASSUME sfDrift' PROVE NothingLost' /\ NothingElse' /\ AllDelivered' /\ SweepExact'
BY DEF NothingLost, NothingElse, AllDelivered, SweepExact

\* Where nothing is upserted or swept, the rows stay as they were delivered.
LEMMA RowsStay ==
  ASSUME AllDelivered, UNCHANGED storeSide, UNCHANGED <<sfRows, sfDrift>>, Underway,
         sfFetch'.seen = sfFetch.seen, sfFetch'.plats = sfFetch.plats, sfFetch'.pc # "removed"
  PROVE  AllDelivered'
BY DeliveredKept DEF AllDelivered

LEMMA StartFetchKeeps == ASSUME FetchInv, StartFetch PROVE Course'
<1> DEFINE L == CASE sfStore \in {"steam", "epic"} -> sfOwned
                  [] sfStore = "humble"            -> {OrderOf[g] : g \in sfOwned}
                  [] OTHER                         -> {}
<1>1. /\ sfFetch'.pc = (CASE sfStore \in {"steam", "epic"} -> "batches"
                          [] sfStore = "humble"            -> "orders"
                          [] OTHER                         -> "pages")
      /\ sfFetch'.page = (IF sfStore \in {"gog", "playstation-store"} THEN 1 ELSE 0)
      /\ sfFetch'.list = L
      /\ sfFetch'.batch = {} /\ sfFetch'.seen = {}
  BY DEF StartFetch, FetchIdle
<1>2. UNCHANGED storeSide /\ sfStore' = sfStore /\ sfOwned' = sfOwned /\ sfOwned \in SUBSET StoreGames
  BY DEF StartFetch, storeSide, FetchInv, FetchTypes
<1>3. sfStore \in {"steam", "playstation-store", "gog", "epic", "humble"}
  BY StoreFetchAssumption DEF FetchInv, FetchTypes
<1>4. Place' = sfFetch'.pc /\ sfFetch'.pc \in {"batches", "orders", "pages"}
  BY <1>1, <1>3 DEF Place
<1>5. Route'
  BY <1>1, <1>2, <1>3, <1>4 DEF Route
<1>6. ASSUME NEW g \in sfOwned PROVE Ahead(g)'
  <2>1. CASE sfStore \in {"steam", "epic"}
    BY <1>1, <1>4, <2>1 DEF Ahead
  <2>2. CASE sfStore = "humble"
    BY <1>1, <1>4, <2>2 DEF Ahead
  <2>3. CASE sfStore \in {"gog", "playstation-store"}
    <3>1. sfFetch'.page = 1 /\ Place' = "pages"
      BY <1>1, <1>4, <2>3
    <3>2. (sfFetch'.page - 1) * PageSize = 0
      BY <3>1, StoreFetchAssumption
    <3>3. Rank(sfOwned, g)' \in Nat
      <4>1. sfOwned \subseteq Nat /\ IsFiniteSet(sfOwned)
        BY <1>2, StoreFetchAssumption, FS_Subset
      <4> QED
        BY <1>2, <4>1, RankType, SameStore
    <3> QED
      BY <3>1, <3>2, <3>3 DEF Ahead
  <2> QED
    BY <1>3, <2>1, <2>2, <2>3
<1>7. NothingLost'
  BY <1>2, <1>6 DEF NothingLost
<1>8. NothingElse'
  BY <1>1, <1>2, <1>3, <1>4 DEF NothingElse
<1>9. AllDelivered' /\ SweepExact'
  BY <1>1, <1>4 DEF AllDelivered, SweepExact
<1> QED
  BY <1>5, <1>7, <1>8, <1>9 DEF Course

LEMMA OwnedNumbers == ASSUME FetchTypes PROVE sfOwned \subseteq Nat /\ IsFiniteSet(sfOwned)
BY StoreFetchAssumption, FS_Subset DEF FetchTypes

\* A title at the next page or later is on that page, or after it.
LEMMA PageTurned ==
  ASSUME FetchTypes, NEW g \in sfOwned, Rank(sfOwned, g) >= (sfFetch.page - 1) * PageSize
  PROVE  \/ g \in OnStorePage(sfOwned, sfFetch.page)
         \/ Rank(sfOwned, g) >= ((sfFetch.page + 1) - 1) * PageSize
<1>1. sfFetch.page \in Nat
  BY DEF FetchTypes, FetchRecord
<1>2. Rank(sfOwned, g) \in Nat
  BY OwnedNumbers, RankType
<1>3. sfFetch.page * PageSize \in Nat /\ ((sfFetch.page + 1) - 1) * PageSize = sfFetch.page * PageSize
  BY <1>1, StoreFetchAssumption
<1> QED
  BY <1>1, <1>2, <1>3, PageBetween

LEMMA FetchPageKeeps == ASSUME FetchInv, FetchPage PROVE Course'
<1> DEFINE B  == OnStorePage(sfOwned, sfFetch.page)
           to == IF sfFetch.page >= PageCount(sfOwned) THEN "sweep" ELSE "pages"
<1>1. /\ sfFetch.pc = "pages" /\ sfStore = "gog"
      /\ sfFetch' = [sfFetch EXCEPT !.pc = "upsert", !.batch = B, !.page = @ + 1, !.then = to]
      /\ UNCHANGED storeSide /\ sfStore' = sfStore /\ sfOwned' = sfOwned /\ UNCHANGED <<sfRows, sfDrift>>
  BY DEF FetchPage, storeSide
<1>2. FetchTypes /\ sfFetch \in FetchRecord /\ sfFetch.page \in Nat
  BY DEF FetchInv, FetchTypes, FetchRecord
<1>3. B \subseteq sfOwned
  BY PageIn
<1>4. to \in {"sweep", "pages"}
  OBVIOUS
<1>5. ~ (to = "pages") => sfFetch.page >= PageCount(sfOwned)
  OBVIOUS
<1> HIDE DEF B, to
<1>6. /\ sfFetch'.pc = "upsert" /\ sfFetch'.then = to /\ sfFetch'.batch = B
      /\ sfFetch'.page = sfFetch.page + 1 /\ sfFetch'.list = sfFetch.list
      /\ sfFetch'.seen = sfFetch.seen /\ sfFetch'.plats = sfFetch.plats
  BY <1>1, <1>2 DEF FetchRecord
<1>7. Place = "pages" /\ Place' = to /\ Underway
  BY <1>1, <1>6 DEF Place, Underway, FetchPlaces
<1>8. Route'
  BY <1>1, <1>4, <1>6, <1>7 DEF FetchInv, Route, FetchPlaces
<1>9. NothingLost'
  <2> SUFFICES ASSUME ~sfDrift, NEW g \in sfOwned, Qualifies(g)
               PROVE  g \in sfFetch.seen \/ g \in B \/ Ahead(g)'
    BY <1>1, <1>6, SameStore DEF NothingLost
  <2>1. g \in sfFetch.seen \/ Rank(sfOwned, g) >= (sfFetch.page - 1) * PageSize
    BY <1>1, <1>7 DEF FetchInv, NothingLost, NothingElse, Ahead, Route
  <2>2. CASE g \notin sfFetch.seen /\ g \notin B
    <3>1. Rank(sfOwned, g) >= ((sfFetch.page + 1) - 1) * PageSize
      BY <1>2, <2>1, <2>2, PageTurned DEF B
    <3>2. to = "pages"
      <4> SUFFICES ASSUME to # "pages" PROVE FALSE
        OBVIOUS
      <4>1. Rank(sfOwned, g) < sfFetch.page * PageSize
        BY <1>2, <1>5, OwnedNumbers, PagesAreEnough
      <4>2. Rank(sfOwned, g) \in Nat
        BY <1>2, OwnedNumbers, RankType
      <4>3. ((sfFetch.page + 1) - 1) * PageSize = sfFetch.page * PageSize /\ sfFetch.page * PageSize \in Nat
        BY <1>2, StoreFetchAssumption
      <4> QED
        BY <3>1, <4>1, <4>2, <4>3
    <3>3. Rank(sfOwned, g)' = Rank(sfOwned, g)
      BY <1>1, SameStore
    <3> QED
      BY <1>6, <1>7, <3>1, <3>2, <3>3 DEF Ahead
  <2> QED
    BY <2>1, <2>2
<1>10. NothingElse'
  BY <1>1, <1>2, <1>3, <1>6, <1>7 DEF FetchInv, NothingElse
<1>11. AllDelivered' /\ SweepExact'
  BY <1>1, <1>6, <1>7, RowsStay DEF FetchInv, SweepExact
<1> QED
  BY <1>8, <1>9, <1>10, <1>11 DEF Course

LEMMA PurchasedKeeps == ASSUME FetchInv, FetchPurchasedGames PROVE Course'
<1> DEFINE B    == OnStorePage(sfOwned, sfFetch.page)
           last == Cardinality(B) < PageSize
<1>1. /\ sfFetch.pc = "pages" /\ sfStore = "playstation-store"
      /\ sfFetch' = [sfFetch EXCEPT !.list = @ \cup B, !.page = @ + 1, !.pc = IF last THEN "batches" ELSE @]
      /\ UNCHANGED storeSide /\ sfStore' = sfStore /\ sfOwned' = sfOwned /\ UNCHANGED <<sfRows, sfDrift>>
  BY DEF FetchPurchasedGames, storeSide
<1>2. FetchTypes /\ sfFetch \in FetchRecord /\ sfFetch.page \in Nat /\ sfOwned \in SUBSET StoreGames
  BY DEF FetchInv, FetchTypes, FetchRecord
<1>3. B \subseteq sfOwned
  BY PageIn
<1>4. last => Cardinality(OnStorePage(sfOwned, sfFetch.page)) < PageSize
  OBVIOUS
<1> HIDE DEF B, last
<1>6. /\ sfFetch'.pc = (IF last THEN "batches" ELSE "pages") /\ sfFetch'.batch = sfFetch.batch
      /\ sfFetch'.page = sfFetch.page + 1 /\ sfFetch'.list = sfFetch.list \cup B
      /\ sfFetch'.seen = sfFetch.seen /\ sfFetch'.plats = sfFetch.plats
  <2>1. CASE last
    BY <1>1, <1>2, <2>1 DEF FetchRecord
  <2>2. CASE ~last
    BY <1>1, <1>2, <2>2 DEF FetchRecord
  <2> QED
    BY <2>1, <2>2
<1>7. Place = "pages" /\ Place' = sfFetch'.pc /\ Underway
  BY <1>1, <1>6 DEF Place, Underway, FetchPlaces
<1>8. Route'
  BY <1>1, <1>2, <1>3, <1>6, <1>7 DEF FetchInv, Route, FetchPlaces
<1>9. NothingLost'
  <2> SUFFICES ASSUME ~sfDrift, NEW g \in sfOwned, Qualifies(g)
               PROVE  g \in sfFetch.seen \/ g \in sfFetch.batch \/ Ahead(g)'
    BY <1>1, <1>6, SameStore DEF NothingLost
  <2>1. \/ g \in sfFetch.seen \/ g \in sfFetch.batch \/ g \in sfFetch.list
        \/ Rank(sfOwned, g) >= (sfFetch.page - 1) * PageSize
    BY <1>1, <1>7 DEF FetchInv, NothingLost, Ahead
  <2>2. CASE g \in sfFetch.list \/ g \in B
    BY <1>6, <1>7, <2>2 DEF Ahead
  <2>3. CASE Rank(sfOwned, g) >= (sfFetch.page - 1) * PageSize /\ g \notin B
    <3>1. Rank(sfOwned, g) >= ((sfFetch.page + 1) - 1) * PageSize
      BY <1>2, <2>3, PageTurned DEF B
    <3>2. ~last
      <4> SUFFICES ASSUME last PROVE FALSE
        OBVIOUS
      <4>0. sfFetch.page >= 1
        BY <1>1, <1>7 DEF FetchInv, NothingElse
      <4>1. Rank(sfOwned, g) < sfFetch.page * PageSize
        BY <1>2, <1>4, <4>0, OwnedNumbers, ShortPageIsLast
      <4>2. Rank(sfOwned, g) \in Nat
        BY <1>2, OwnedNumbers, RankType
      <4>3. ((sfFetch.page + 1) - 1) * PageSize = sfFetch.page * PageSize /\ sfFetch.page * PageSize \in Nat
        BY <1>2, StoreFetchAssumption
      <4> QED
        BY <3>1, <4>1, <4>2, <4>3
    <3>3. Rank(sfOwned, g)' = Rank(sfOwned, g)
      BY <1>1, SameStore
    <3> QED
      BY <1>6, <1>7, <3>1, <3>2, <3>3 DEF Ahead
  <2> QED
    BY <2>1, <2>2, <2>3
<1>10. NothingElse'
  BY <1>1, <1>2, <1>3, <1>6, <1>7 DEF FetchInv, NothingElse
<1>11. AllDelivered' /\ SweepExact'
  BY <1>1, <1>6, <1>7, RowsStay DEF FetchInv, SweepExact
<1> QED
  BY <1>8, <1>9, <1>10, <1>11 DEF Course

LEMMA NextBatchKeeps == ASSUME FetchInv, NextBatch PROVE Course'
<1> DEFINE B == OnStorePage(sfFetch.list, 1)
<1>1. /\ sfFetch.pc = "batches"
      /\ UNCHANGED storeSide /\ sfStore' = sfStore /\ sfOwned' = sfOwned /\ UNCHANGED <<sfRows, sfDrift>>
  BY DEF NextBatch, storeSide
<1>2. sfFetch \in FetchRecord
  BY DEF FetchInv, FetchTypes
<1>3. B \subseteq sfFetch.list
  BY PageIn
<1>4. Place = "batches" /\ Underway
  BY <1>1 DEF Place, Underway, FetchPlaces
<1>5. CASE sfFetch.list = {}
  <2>1. sfFetch' = [sfFetch EXCEPT !.pc = "sweep"]
    BY <1>5 DEF NextBatch
  <2>2. /\ sfFetch'.pc = "sweep" /\ sfFetch'.batch = sfFetch.batch /\ sfFetch'.list = {}
        /\ sfFetch'.seen = sfFetch.seen /\ sfFetch'.plats = sfFetch.plats
    BY <1>2, <1>5, <2>1 DEF FetchRecord
  <2>3. Place' = "sweep"
    BY <2>2 DEF Place
  <2>4. Route'
    BY <2>2, <2>3 DEF Route
  <2>5. NothingLost'
    BY <1>1, <1>4, <1>5, <2>2, <2>3, SameStore DEF FetchInv, NothingLost, Ahead
  <2>6. NothingElse'
    BY <1>1, <1>4, <2>2, <2>3 DEF FetchInv, NothingElse
  <2>7. AllDelivered' /\ SweepExact'
    BY <1>1, <1>4, <2>2, RowsStay DEF FetchInv, SweepExact
  <2> QED
    BY <2>4, <2>5, <2>6, <2>7 DEF Course
<1>6. CASE sfFetch.list # {}
  <2>1. sfFetch' = [sfFetch EXCEPT !.pc = "upsert", !.batch = B, !.list = @ \ B, !.then = "batches"]
    BY <1>6 DEF NextBatch
  <2> HIDE DEF B
  <2>2. /\ sfFetch'.pc = "upsert" /\ sfFetch'.then = "batches" /\ sfFetch'.batch = B
        /\ sfFetch'.list = sfFetch.list \ B
        /\ sfFetch'.seen = sfFetch.seen /\ sfFetch'.plats = sfFetch.plats
    BY <1>2, <2>1 DEF FetchRecord
  <2>3. Place' = "batches"
    BY <2>2 DEF Place
  <2>4. Route' /\ sfStore # "humble"
    BY <1>1, <1>4, <2>2, <2>3 DEF FetchInv, Route, FetchPlaces
  <2>5. NothingLost'
    BY <1>1, <1>4, <2>2, <2>3, SameStore DEF FetchInv, NothingLost, NothingElse, Ahead
  <2>6. NothingElse'
    BY <1>1, <1>3, <1>4, <2>2, <2>3, <2>4 DEF FetchInv, NothingElse
  <2>7. AllDelivered' /\ SweepExact'
    BY <1>1, <1>4, <2>2, RowsStay DEF FetchInv, SweepExact
  <2> QED
    BY <2>4, <2>5, <2>6, <2>7 DEF Course
<1> QED
  BY <1>5, <1>6

LEMMA FetchOrderKeeps == ASSUME FetchInv, FetchOrder PROVE Course'
<1>1. /\ sfFetch.pc = "orders"
      /\ UNCHANGED storeSide /\ sfStore' = sfStore /\ sfOwned' = sfOwned /\ UNCHANGED sfRows
  BY DEF FetchOrder, storeSide
<1>2. FetchTypes /\ sfFetch \in FetchRecord
  BY DEF FetchInv, FetchTypes
<1>4. Place = "orders" /\ Underway
  BY <1>1 DEF Place, Underway, FetchPlaces
<1>5. CASE /\ sfFetch.list = {} /\ UNCHANGED sfDrift
           /\ sfFetch' = [sfFetch EXCEPT !.pc = "upsert", !.then = "sweep"]
  <2>2. /\ sfFetch'.pc = "upsert" /\ sfFetch'.then = "sweep" /\ sfFetch'.batch = sfFetch.batch
        /\ sfFetch'.list = {} /\ sfFetch'.seen = sfFetch.seen /\ sfFetch'.plats = sfFetch.plats
    BY <1>2, <1>5 DEF FetchRecord
  <2>3. Place' = "sweep"
    BY <2>2 DEF Place
  <2>4. Route'
    BY <2>2, <2>3 DEF Route, FetchPlaces
  <2>5. NothingLost'
    BY <1>1, <1>4, <1>5, <2>2, <2>3, SameStore DEF FetchInv, NothingLost, Ahead
  <2>6. NothingElse'
    BY <1>1, <1>4, <1>5, <2>2, <2>3 DEF FetchInv, NothingElse
  <2>7. AllDelivered' /\ SweepExact'
    BY <1>1, <1>4, <1>5, <2>2, RowsStay DEF FetchInv, SweepExact
  <2> QED
    BY <2>4, <2>5, <2>6, <2>7 DEF Course
<1>6. ASSUME NEW o \in sfFetch.list, NEW held \in SUBSET StoreGames, NEW to \in {"upsert", "orders"},
             held = sfFetch.batch \cup {g \in sfOwned : OrderOf[g] = o}, UNCHANGED sfDrift,
             sfFetch' = [sfFetch EXCEPT !.list = @ \ {o}, !.batch = held, !.then = "orders", !.pc = to]
      PROVE  Course'
  <2>2. /\ sfFetch'.pc = to /\ sfFetch'.then = "orders" /\ sfFetch'.batch = held
        /\ sfFetch'.list = sfFetch.list \ {o}
        /\ sfFetch'.seen = sfFetch.seen /\ sfFetch'.plats = sfFetch.plats
    BY <1>2, <1>6 DEF FetchRecord
  <2>3. Place' = "orders"
    BY <2>2 DEF Place
  <2>4. Route'
    BY <1>1, <2>2, <2>3 DEF FetchInv, Route, FetchPlaces
  <2>5. NothingLost'
    BY <1>1, <1>4, <1>6, <2>2, <2>3, SameStore DEF FetchInv, NothingLost, Ahead
  <2>6. NothingElse'
    BY <1>1, <1>4, <1>6, <2>2, <2>3 DEF FetchInv, NothingElse
  <2>7. AllDelivered' /\ SweepExact'
    BY <1>1, <1>4, <1>6, <2>2, RowsStay DEF FetchInv, SweepExact
  <2> QED
    BY <2>4, <2>5, <2>6, <2>7 DEF Course
<1>7. ASSUME NEW o \in Listed, sfFetch' = [sfFetch EXCEPT !.list = @ \ {o}], sfDrift'
      PROVE  Course'
  <2>2. sfFetch'.pc = "orders" /\ sfFetch'.list \subseteq sfFetch.list
    BY <1>1, <1>2, <1>7 DEF FetchRecord
  <2>3. Route'
    BY <1>1, <2>2 DEF FetchInv, Route, Place
  <2> QED
    BY <1>7, <2>3, DriftPromisesNothing DEF Course
<1> QED
  BY <1>2, <1>5, <1>6, <1>7, OrderCases

LEMMA UpsertKeeps == ASSUME FetchInv, UpsertEntry PROVE Course'
<1>1. /\ sfFetch.pc = "upsert" /\ sfFetch.then \in FetchPlaces
      /\ UNCHANGED storeSide /\ sfStore' = sfStore /\ sfOwned' = sfOwned /\ UNCHANGED sfDrift
  BY DEF UpsertEntry, storeSide, FetchInv, Route
<1>2. FetchTypes /\ sfFetch \in FetchRecord
  BY DEF FetchInv, FetchTypes
<1>4. Place = sfFetch.then /\ Underway
  BY <1>1 DEF Place, Underway, FetchPlaces
<1>5. CASE sfFetch.batch = {} /\ sfFetch' = [sfFetch EXCEPT !.pc = sfFetch.then] /\ UNCHANGED sfRows
  <2>2. /\ sfFetch'.pc = sfFetch.then /\ sfFetch'.batch = {} /\ sfFetch'.page = sfFetch.page
        /\ sfFetch'.list = sfFetch.list /\ sfFetch'.seen = sfFetch.seen /\ sfFetch'.plats = sfFetch.plats
    BY <1>2, <1>5 DEF FetchRecord
  <2>3. Place' = Place /\ sfFetch'.pc \notin {"upsert", "removed", "swept"}
    BY <1>1, <1>4, <2>2 DEF Place, FetchPlaces
  <2>4. Route'
    BY <1>1, <2>2, <2>3 DEF FetchInv, Route
  <2>5. NothingLost'
    BY <1>1, <1>4, <1>5, <2>2, <2>3, SameStore DEF FetchInv, NothingLost, Ahead
  <2>6. NothingElse'
    BY <1>1, <1>4, <2>2, <2>3 DEF FetchInv, NothingElse
  <2>7. AllDelivered' /\ SweepExact'
    BY <1>1, <1>4, <1>5, <2>2, <2>3, RowsStay DEF FetchInv, SweepExact
  <2> QED
    BY <2>4, <2>5, <2>6, <2>7 DEF Course
<1>6. ASSUME NEW g \in sfFetch.batch, ~Qualifies(g), sfFetch' = [sfFetch EXCEPT !.batch = @ \ {g}],
             UNCHANGED sfRows
      PROVE  Course'
  <2>2. /\ sfFetch'.pc = "upsert" /\ sfFetch'.then = sfFetch.then /\ sfFetch'.page = sfFetch.page
        /\ sfFetch'.batch = sfFetch.batch \ {g}
        /\ sfFetch'.list = sfFetch.list /\ sfFetch'.seen = sfFetch.seen /\ sfFetch'.plats = sfFetch.plats
    BY <1>1, <1>2, <1>6 DEF FetchRecord
  <2>3. Place' = Place
    BY <1>4, <2>2 DEF Place
  <2>4. Route'
    BY <1>1, <2>2, <2>3 DEF FetchInv, Route
  <2>5. NothingLost'
    BY <1>1, <1>4, <1>6, <2>2, <2>3, SameStore DEF FetchInv, NothingLost, Ahead
  <2>6. NothingElse'
    BY <1>1, <1>4, <2>2, <2>3 DEF FetchInv, NothingElse
  <2>7. AllDelivered' /\ SweepExact'
    BY <1>1, <1>4, <1>6, <2>2, <2>3, RowsStay DEF FetchInv, SweepExact
  <2> QED
    BY <2>4, <2>5, <2>6, <2>7 DEF Course
<1>7. ASSUME NEW g \in StoreGames, Upserts(g) PROVE Course'
  <2>1. g \in sfFetch.batch /\ Qualifies(g)
    BY <1>7 DEF Upserts
  <2>2. /\ sfFetch'.pc = "upsert" /\ sfFetch'.then = sfFetch.then /\ sfFetch'.page = sfFetch.page
        /\ sfFetch'.batch = sfFetch.batch \ {g} /\ sfFetch'.seen = sfFetch.seen \cup {g}
        /\ sfFetch'.list = sfFetch.list
        /\ sfFetch'.plats[g] = EntryPlatforms(g)
        /\ \A h \in StoreGames \ {g} : sfFetch'.plats[h] = sfFetch.plats[h]
    BY <1>1, <1>2, <1>7, UpsertFields
  <2>3. Place' = Place
    BY <1>4, <2>2 DEF Place
  <2>4. Route'
    BY <1>1, <2>2, <2>3 DEF FetchInv, Route
  <2>5. NothingLost'
    BY <1>1, <1>4, <2>2, <2>3, SameStore DEF FetchInv, NothingLost, Ahead
  <2>6. NothingElse'
    BY <1>1, <1>4, <2>2, <2>3 DEF FetchInv, NothingElse
  <2>7. AllDelivered'
    <3> SUFFICES ASSUME ~sfDrift, NEW h \in sfFetch.seen \cup {g} PROVE Delivered(h)'
      BY <1>1, <2>2 DEF AllDelivered
    <3>1. CASE h = g
      <4>1. sfFetch.batch \subseteq sfOwned
        BY <1>4 DEF FetchInv, NothingElse
      <4>2. /\ sfRows'[g].avail
            /\ sfRows'[g].plats = sfRows[g].plats \cup EntryPlatforms(g)
            /\ sfRows'[g].hours[Least(EntryPlatforms(g))] >= EntryHours(g)
        BY <1>2, <1>7, UpsertRows
      <4>3. EntryPlatforms(g) \subseteq sfRows'[g].plats
        BY <4>2
      <4> QED
        BY <1>1, <2>1, <2>2, <3>1, <4>1, <4>2, <4>3, SameStore DEF Delivered
    <3>2. CASE h # g
      <4>1. h \in StoreGames \ {g} /\ h \in sfFetch.seen
        BY <1>2, <3>2 DEF FetchRecord
      <4>2. sfRows'[h] = sfRows[h] /\ sfFetch'.plats[h] = sfFetch.plats[h]
        BY <1>2, <1>7, <2>2, <4>1, UpsertRows
      <4>3. Delivered(h)
        BY <1>4, <4>1 DEF FetchInv, AllDelivered
      <4> QED
        BY <1>1, <4>2, <4>3, DeliveredKept
    <3> QED
      BY <3>1, <3>2
  <2>8. SweepExact'
    BY <2>2 DEF SweepExact
  <2> QED
    BY <2>4, <2>5, <2>6, <2>7, <2>8 DEF Course
<1> QED
  BY <1>2, <1>5, <1>6, <1>7, UpsertCases

LEMMA SweepPlatformsKeeps == ASSUME FetchInv, SweepPlatforms PROVE Course'
<1>1. /\ sfFetch.pc = "sweep" /\ sfFetch' = [sfFetch EXCEPT !.pc = "removed"]
      /\ UNCHANGED storeSide /\ sfStore' = sfStore /\ sfOwned' = sfOwned /\ UNCHANGED sfDrift
  BY DEF SweepPlatforms, storeSide
<1>2. FetchTypes /\ sfFetch \in FetchRecord /\ sfRows \in [StoreGames -> RowRecord]
  BY DEF FetchInv, FetchTypes
<1>3. /\ sfFetch'.pc = "removed" /\ sfFetch'.batch = sfFetch.batch /\ sfFetch'.list = sfFetch.list
      /\ sfFetch'.seen = sfFetch.seen /\ sfFetch'.plats = sfFetch.plats
  BY <1>1, <1>2 DEF FetchRecord
<1>4. Place = "sweep" /\ Place' = "removed" /\ Underway
  BY <1>1, <1>3 DEF Place, Underway, FetchPlaces
<1>5. Route'
  BY <1>1, <1>3, <1>4 DEF FetchInv, Route
<1>6. NothingLost'
  BY <1>1, <1>3, <1>4, SameStore DEF FetchInv, NothingLost, Ahead
<1>7. NothingElse'
  BY <1>1, <1>3, <1>4 DEF FetchInv, NothingElse
<1>8. AllDelivered'
  <2> SUFFICES ASSUME ~sfDrift, NEW g \in sfFetch.seen
               PROVE  Delivered(g)' /\ sfRows'[g].plats \subseteq EntryPlatforms(g)'
    BY <1>1, <1>3 DEF AllDelivered
  <2>1. Delivered(g) /\ g \in StoreGames
    BY <1>2, <1>4 DEF FetchInv, AllDelivered, FetchRecord
  <2> DEFINE E == EntryPlatforms(g)
             first == Least(E)
             hours == [p \in StorePlatforms |-> IF p \in E THEN sfRows[g].hours[p] ELSE 0]
  <2>2. E \in SUBSET StorePlatforms /\ first \in E
    BY <1>2, <2>1, EntryTyped
  <2>3. sfFetch.plats[g] = E /\ sfRows[g] \in RowRecord
    BY <1>2, <2>1 DEF Delivered
  <2>4. sfRows'[g] = [sfRows[g] EXCEPT !.plats = sfRows[g].plats \cap E, !.hours = hours]
    BY <2>1, <2>3 DEF SweepPlatforms
  <2>5. hours[first] = sfRows[g].hours[first]
    BY <2>2
  <2> HIDE DEF hours
  <2>6. /\ sfRows'[g].avail = sfRows[g].avail /\ sfRows'[g].plats = sfRows[g].plats \cap E
        /\ sfRows'[g].hours = hours
    BY <2>3, <2>4 DEF RowRecord
  <2>7. E \subseteq sfRows'[g].plats /\ sfRows'[g].hours[first] >= EntryHours(g)
    BY <2>1, <2>5, <2>6 DEF Delivered
  <2>8. Delivered(g)'
    BY <1>1, <1>3, <2>1, <2>6, <2>7, SameStore DEF Delivered
  <2> QED
    BY <1>1, <2>6, <2>8, SameStore
<1>9. SweepExact'
  BY <1>3 DEF SweepExact
<1> QED
  BY <1>5, <1>6, <1>7, <1>8, <1>9 DEF Course

LEMMA MarkRemovedKeeps == ASSUME FetchInv, MarkRemoved PROVE Course'
<1>1. /\ sfFetch.pc = "removed" /\ sfFetch' = [FetchIdle EXCEPT !.pc = "swept"]
      /\ UNCHANGED storeSide /\ sfStore' = sfStore /\ sfOwned' = sfOwned /\ UNCHANGED sfDrift
  BY DEF MarkRemoved, storeSide
<1>2. FetchTypes /\ sfFetch \in FetchRecord /\ sfRows \in [StoreGames -> RowRecord]
  BY DEF FetchInv, FetchTypes
<1>3. sfFetch'.pc = "swept" /\ sfFetch'.list = {}
  BY <1>1 DEF FetchIdle
<1>4. Place = "removed" /\ Place' = "swept" /\ Underway /\ ~Underway'
  BY <1>1, <1>3 DEF Place, Underway, FetchPlaces
<1>5. Route' /\ NothingLost' /\ NothingElse' /\ AllDelivered'
  BY <1>3, <1>4 DEF Route, NothingLost, NothingElse, AllDelivered
<1>6. SweepExact'
  <2> SUFFICES ASSUME ~sfDrift PROVE SweepExact'
    BY <1>1 DEF SweepExact
  <2>1. \A g \in StoreGames :
          sfRows'[g] = IF g \in sfFetch.seen THEN sfRows[g] ELSE [sfRows[g] EXCEPT !.avail = FALSE]
    BY DEF MarkRemoved
  <2>2. \A g \in StoreGames : sfRows'[g].avail => g \in sfFetch.seen /\ sfRows'[g] = sfRows[g]
    BY <1>2, <2>1 DEF RowRecord
  <2>3. \A g \in sfFetch.seen :
          Delivered(g) /\ sfRows[g].plats \subseteq EntryPlatforms(g) /\ g \in StoreGames
    BY <1>1, <1>2, <1>4 DEF FetchInv, AllDelivered, FetchRecord
  <2>4. \A g \in sfOwned : Qualifies(g) => g \in sfFetch.seen
    BY <1>1, <1>4 DEF FetchInv, NothingLost, NothingElse, Ahead
  <2>5. \A g \in StoreGames : sfRows'[g].avail <=> g \in sfOwned /\ Qualifies(g)
    BY <2>1, <2>2, <2>3, <2>4 DEF Delivered
  <2>6. {g \in StoreGames : sfRows'[g].avail} = {g \in sfOwned : Qualifies(g)}
    BY <1>2, <2>5 DEF FetchTypes
  <2>7. ASSUME NEW g \in StoreGames, sfRows'[g].avail
        PROVE  /\ sfRows'[g].plats = EntryPlatforms(g)
               /\ sfRows'[g].hours[Least(EntryPlatforms(g))] >= EntryHours(g)
    BY <2>2, <2>3, <2>7 DEF Delivered
  <2> QED
    BY <1>1, <2>6, <2>7, SameStore DEF SweepExact
<1> QED
  BY <1>5, <1>6 DEF Course

LEMMA FetchInvStep == ASSUME FetchInv, [FetchNext]_fetchVars PROVE FetchInv'
<1>1. CASE UNCHANGED fetchVars
  <2>1. UNCHANGED storeSide /\ UNCHANGED <<sfStore, sfOwned, sfPlats, sfHours, sfRows, sfFetch, sfDrift>>
    BY <1>1 DEF fetchVars, storeSide
  <2>2. FetchTypes' /\ GroupsFlat' /\ Route' /\ Place' = Place /\ Underway' = Underway
    BY <2>1 DEF FetchInv, FetchTypes, GroupsFlat, Route, Place, Underway
  <2>3. NothingLost' /\ NothingElse'
    BY <2>1, <2>2, SameStore DEF FetchInv, NothingLost, NothingElse, Ahead
  <2>4. AllDelivered' /\ SweepExact'
    BY <2>1, <2>2, SameStore, DeliveredKept DEF FetchInv, AllDelivered, SweepExact
  <2> QED
    BY <2>2, <2>3, <2>4 DEF FetchInv
<1>2. CASE FetchNext
  <2>1. FetchTypes' /\ GroupsFlat'
    BY <1>2, FetchTypesStep, GroupsFlatStep DEF FetchInv
  <2>2. Course'
    <3>1. CASE FailFetch
      BY <3>1, DriftPromisesNothing DEF FailFetch, FetchIdle, Course, Route, Place
    <3>2. CASE EndFetch
      <4>1. sfFetch'.pc = "idle" /\ sfFetch'.list = {}
        BY <3>2 DEF EndFetch, FetchIdle
      <4>2. Place' = "idle" /\ ~Underway'
        BY <4>1 DEF Place, Underway, FetchPlaces
      <4> QED
        BY <4>1, <4>2 DEF Course, Route, NothingLost, NothingElse, AllDelivered, SweepExact
    <3>3. CASE StoreChanges \/ DeleteExternalGames
      <4>1. sfDrift' /\ sfFetch' = sfFetch /\ sfStore' = sfStore
        BY <3>3 DEF StoreChanges, DeleteExternalGames, storeSide
      <4> QED
        BY <4>1, DriftPromisesNothing DEF FetchInv, Course, Route, Place
    <3> QED
      BY <1>2, <3>1, <3>2, <3>3, StartFetchKeeps, FetchPageKeeps, PurchasedKeeps, NextBatchKeeps,
         FetchOrderKeeps, UpsertKeeps, SweepPlatformsKeeps, MarkRemovedKeeps DEF FetchNext
  <2> QED
    BY <2>1, <2>2 DEF FetchInv, Course
<1> QED
  BY <1>1, <1>2

\* After a sync of a library that did not change the available rows are exactly what the
\* store has, however the store pages and whatever the dispatch before it left, and the
\* rows of one title form one flat group (DispatchSyncWorker.Work, the five adapters).
THEOREM FetchesSound == FetchSpec => []FetchSound
<1>1. FetchInv => FetchSound
  BY DEF FetchInv, FetchSound
<1> QED
  BY <1>1, FetchInvInit, FetchInvStep, PTL DEF FetchSpec

---------------------------------------------------------------------------
(* The credentials of the stores. *)

\* Proofs about StoreConnections: a rotated token is never lost, and an expiry is told
\* once.

Credentials == [grant : Grants, version : Nat \ {0}] \cup {NoCreds}

ConfigRows == [there : BOOLEAN, freq : Frequencies, creds : Credentials,
               error : BOOLEAN, key : BOOLEAN]

RequestStates == [pc : {"idle", "capture", "persist", "cleanup"}, creds : Credentials]

DispatchLabels == {"idle", "refresh", "restore", "fetch", "reject", "keep", "list",
                   "capture", "finish", "notify"}

Dispatches == [pc : DispatchLabels,
               creds : Credentials, prior : BOOLEAN,
               out : {"none", "answer", "login", "failure"}]

\* The store issued the authorization.
Issued(c) == c = NoCreds \/ cnStore[c.grant] # 0

ConnTypes ==
    /\ cnKind \in StoreKinds
    /\ cnRow \in ConfigRows /\ cnReq \in RequestStates /\ cnRun \in Dispatches
    /\ cnDir \in Credentials /\ cnStore \in [Grants -> Nat]
    /\ {cnTold, cnMixed} \subseteq BOOLEAN /\ cnFaults \in Nat

AllIssued ==
    Issued(cnRow.creds) /\ Issued(cnReq.creds) /\ Issued(cnRun.creds) /\ Issued(cnDir)

\* Which store a step of a request or of a sync belongs to.
Routes ==
    /\ cnRun.pc \in {"refresh", "keep"} => cnKind = "gog"
    /\ cnRun.pc \in {"restore", "list", "capture"} => cnKind = "epic"
    /\ cnReq.pc \in {"capture", "cleanup"} => cnKind = "epic"

---------------------------------------------------------------------------
(* One notification. *)

\* The user was told of an error that the row shows; a sync that did not find that
\* error there is the first to tell.
ToldOnce ==
    /\ cnTold => cnRow.error
    /\ cnRun.pc # "idle" /\ ~cnRun.prior => ~cnTold
    /\ cnRun.pc = "notify" => ~cnRun.prior

---------------------------------------------------------------------------
(* The token. *)

\* c is what the store accepts of its authorization, or that was revoked.
Kept(c) ==
    c = NoCreds \/ cnStore[c.grant] = c.version \/ cnStore[c.grant] > MaxRotations

\* The row may be behind the store only while a sync holds the newer token.
RowKept ==
    \/ Kept(cnRow.creds)
    \/ cnRun.pc = "keep" /\ cnRun.creds.grant = cnRow.creds.grant
    \/ cnRun.pc = "capture"

\* A token that a sync or a request is about to write.  A GOG connect brings an
\* authorization that neither the row nor the sync under way can rotate.
Carried ==
    /\ cnRun.pc = "keep" => Kept(cnRun.creds)
    /\ cnReq.pc = "persist" => Kept(cnReq.creds) /\ cnReq.creds # NoCreds
    /\ cnReq.pc = "persist" /\ cnKind = "gog" =>
           cnReq.creds.grant # cnRow.creds.grant /\ cnReq.creds.grant # cnRun.creds.grant

\* Epic's directory follows the row, or is ahead of it and about to be captured.
Directory ==
    cnKind = "epic" =>
        /\ cnRun.pc = "idle" \/ cnReq.pc = "idle"
        /\ cnRun.pc = "restore" => cnRun.creds = cnRow.creds /\ cnRow.creds # NoCreds
        /\ cnRun.pc = "list" => cnDir = cnRow.creds /\ cnRow.creds # NoCreds
        /\ cnRun.pc = "capture" => Kept(cnDir) /\ cnDir # NoCreds
        /\ cnReq.pc = "capture" => Kept(cnDir)

Held == cnFaults = 0 /\ ~cnMixed => RowKept /\ Carried /\ Directory

ConnInv == ConnTypes /\ AllIssued /\ Routes /\ ToldOnce /\ Held
---------------------------------------------------------------------------
(* How credentials are written. *)

\* The credentials of a row or of a process are the null ones or one version of a
\* token; renewing keeps them so.
LEMMA CredentialFacts ==
    /\ NoCreds \in Credentials
    /\ \A g \in Grants : [grant |-> g, version |-> 1] \in Credentials
    /\ \A c \in Credentials : c # NoCreds =>
           /\ Rotated(c) \in Credentials
           /\ c.grant \in Grants /\ c.version \in Nat \ {0}
           /\ Rotated(c).grant = c.grant /\ Rotated(c).version = c.version + 1
           /\ Rotated(c) # NoCreds
    /\ NoCreds.grant = 0 /\ NoCreds.version = 0 /\ 0 \notin Grants
    /\ MaxRotations \in Nat /\ MaxConnFaults \in Nat
BY ConnectionsAssumption DEF Credentials, NoCreds, Rotated, Grants
\* What the row and the processes carry.
LEMMA FieldFacts ==
    ASSUME ConnTypes
    PROVE  /\ cnRow.creds \in Credentials /\ cnRow.error \in BOOLEAN
           /\ cnReq.creds \in Credentials
           /\ cnRun.creds \in Credentials /\ cnRun.prior \in BOOLEAN
BY DEF ConnTypes, ConfigRows, RequestStates, Dispatches

\* A sync moves from label to label, and takes up or drops a session.
LEMMA RunEdits ==
    ASSUME ConnTypes
    PROVE  /\ RunIdle \in Dispatches
           /\ \A l \in DispatchLabels : [cnRun EXCEPT !.pc = l] \in Dispatches
           /\ \A l \in DispatchLabels, c \in Credentials :
                 /\ [cnRun EXCEPT !.pc = l, !.creds = c] \in Dispatches
                 /\ \A o \in {"answer", "login", "failure"} :
                       [cnRun EXCEPT !.pc = l, !.creds = c, !.out = o] \in Dispatches
BY CredentialFacts DEF ConnTypes, Dispatches, DispatchLabels, RunIdle

LEMMA RowEdits ==
    ASSUME ConnTypes
    PROVE  /\ [cnRow EXCEPT !.key = FALSE] \in ConfigRows
           /\ \A c \in Credentials : [cnRow EXCEPT !.creds = c, !.key = TRUE] \in ConfigRows
BY DEF ConnTypes, ConfigRows

\* Every step keeps the types.
LEMMA TypesStep ==
    ConnInv /\ ConnectionsNext => ConnTypes'
<1> SUFFICES ASSUME ConnInv, ConnectionsNext  PROVE  ConnTypes'
  OBVIOUS
<1> USE CredentialFacts, FieldFacts DEF ConnInv, ConnTypes
<1>1. ASSUME NEW g \in Grants, ConnectPlain(g)  PROVE  ConnTypes'
  BY <1>1 DEF ConnectPlain, Authorize, Mixes, RequestStates
<1>2. ASSUME NEW g \in Grants, HandleGOGConnect(g)  PROVE  ConnTypes'
  BY <1>2 DEF HandleGOGConnect, Authorize, Mixes, RequestStates
<1>3. ASSUME NEW g \in Grants, HandleEpicGamesStoreConnect(g)  PROVE  ConnTypes'
  BY <1>3 DEF HandleEpicGamesStoreConnect, Authorize, Mixes, RequestStates
<1>4. ASSUME NEW g \in Grants, Revoke(g)  PROVE  ConnTypes'
  BY <1>4 DEF Revoke
<1>5. CASE AuthenticateCaptures
  BY <1>5 DEF AuthenticateCaptures, ConnIdle, RequestStates
<1>6. CASE PersistCredentials
  BY <1>6 DEF PersistCredentials, ConnIdle, ConfigRows, RequestStates
<1>7. CASE StartDisconnect
  BY <1>7 DEF StartDisconnect, Mixes, ConnIdle, ConfigRows, RequestStates
<1>8. CASE Cleanup
  BY <1>8 DEF Cleanup, ConnIdle, RequestStates
<1>9. ASSUME NEW f \in Frequencies, HandleUpdateConfig(f)  PROVE  ConnTypes'
  BY <1>9 DEF HandleUpdateConfig, ConfigRows
<1>10. CASE LoadConfig
  BY <1>10 DEF LoadConfig, Mixes, Dispatches, DispatchLabels
<1>11. CASE RefreshToken
  <2>1. cnRun' \in Dispatches
    <3>1. CASE Accepts(cnRun.creds) /\ cnRun' = [cnRun EXCEPT !.pc = "keep", !.creds = Rotated(@)]
      <4>1. Rotated(cnRun.creds) \in Credentials
        BY <3>1 DEF Accepts
      <4> QED  BY RunEdits, <3>1, <4>1 DEF DispatchLabels
    <3> QED  BY RunEdits, <1>11, <3>1 DEF RefreshToken, Goto, DispatchLabels
  <2>2. cnStore' \in [Grants -> Nat]
    BY <1>11 DEF RefreshToken
  <2> QED  BY <1>11, <2>1, <2>2 DEF RefreshToken
<1>12. CASE KeepToken
  <2>1. cnRow' \in ConfigRows
    BY RowEdits, <1>12 DEF KeepToken
  <2>2. cnRun' \in Dispatches
    BY RunEdits, <1>12 DEF KeepToken, Goto, DispatchLabels
  <2>3. cnFaults' \in Nat
    BY <1>12 DEF KeepToken, Fault
  <2> QED  BY <1>12, <2>1, <2>2, <2>3 DEF KeepToken
<1>13. CASE Fetch
  BY RunEdits, <1>13 DEF Fetch, Goto, DispatchLabels
<1>14. CASE RestoreSnapshot
  BY RunEdits, <1>14 DEF RestoreSnapshot, Goto, DispatchLabels
<1>15. CASE ListLibrary
  <2>1. cnRun' \in Dispatches
    <3>1. PICK o \in {"answer", "login", "failure"} :
             cnRun' = [cnRun EXCEPT !.pc = "capture", !.creds = NoCreds, !.out = o]
      BY <1>15 DEF ListLibrary
    <3> QED  BY RunEdits, <3>1 DEF DispatchLabels
  <2>2. cnDir' \in Credentials /\ cnStore' \in [Grants -> Nat]
    BY <1>15 DEF ListLibrary, Accepts
  <2> QED  BY <1>15, <2>1, <2>2 DEF ListLibrary
<1>16. CASE CaptureSnapshot
  <2>1. cnRow' \in ConfigRows
    BY RowEdits, <1>16 DEF CaptureSnapshot
  <2>2. cnRun' \in Dispatches
    BY RunEdits, <1>16 DEF CaptureSnapshot, AfterList, Goto, DispatchLabels
  <2>3. cnFaults' \in Nat
    BY <1>16 DEF CaptureSnapshot, Fault
  <2> QED  BY <1>16, <2>1, <2>2, <2>3 DEF CaptureSnapshot
<1>17. CASE Finish
  BY RunEdits, <1>17 DEF Finish, ConfigRows
<1>18. CASE FlagCredentialsError
  BY RunEdits, <1>18 DEF FlagCredentialsError, ConfigRows, DispatchLabels
<1>19. CASE NotifyExpired
  BY RunEdits, <1>19 DEF NotifyExpired
<1>20. CASE NewKey
  <2>1. cnRow' \in ConfigRows
    BY RowEdits, <1>20 DEF NewKey
  <2>2. cnFaults' \in Nat
    BY <1>20 DEF NewKey, Fault
  <2> QED  BY <1>20, <2>1, <2>2 DEF NewKey
<1>21. CASE CrashConnections
  <2>1. cnReq' \in RequestStates
    BY <1>21 DEF CrashConnections, ConnIdle, RequestStates
  <2>2. cnRun' \in Dispatches
    BY RunEdits, <1>21 DEF CrashConnections
  <2>3. cnFaults' \in Nat
    BY <1>21 DEF CrashConnections, Fault
  <2> QED  BY <1>21, <2>1, <2>2, <2>3 DEF CrashConnections
<1> QED  BY <1>1, <1>2, <1>3, <1>4, <1>5, <1>6, <1>7, <1>8, <1>9, <1>10, <1>11, <1>12,
          <1>13, <1>14, <1>15, <1>16, <1>17, <1>18, <1>19, <1>20, <1>21 DEF ConnectionsNext

\* What a refresh of GOG's token does: nothing more than its answer, or the next
\* version in the store and in the sync's hands at once.
LEMMA RefreshSteps ==
    ASSUME ConnTypes, RefreshToken
    PROVE  /\ cnRun.pc = "refresh"
           /\ UNCHANGED <<cnKind, cnRow, cnDir, cnReq, cnTold, cnFaults, cnMixed>>
           /\ cnRun' # RunIdle => cnRun'.prior = cnRun.prior
           /\ \/ /\ cnStore' = cnStore
                 /\ \/ cnRun' = RunIdle
                    \/ cnRun'.pc = "reject" /\ cnRun'.creds = cnRun.creds
                    \/ /\ cnRun'.pc = "keep" /\ cnRun'.creds = cnRun.creds
                       /\ Accepts(cnRun.creds)
              \/ /\ Accepts(cnRun.creds)
                 /\ cnStore' = [cnStore EXCEPT ![cnRun.creds.grant] = @ + 1]
                 /\ cnRun'.pc = "keep" /\ cnRun'.creds = Rotated(cnRun.creds)
<1> USE DEF ConnTypes, Dispatches, DispatchLabels
<1>1. CASE /\ Accepts(cnRun.creds)
           /\ cnStore' = [cnStore EXCEPT ![cnRun.creds.grant] = @ + 1]
           /\ cnRun' = [cnRun EXCEPT !.pc = "keep", !.creds = Rotated(@)]
  <2>1. PICK c : c = Rotated(cnRun.creds)
    OBVIOUS
  <2>2. cnRun' = [cnRun EXCEPT !.pc = "keep", !.creds = c]
    BY <1>1, <2>1
  <2>3. cnRun'.pc = "keep" /\ cnRun'.creds = c /\ cnRun'.prior = cnRun.prior
    BY <2>2
  <2> QED  BY <1>1, <2>1, <2>3 DEF RefreshToken
<1>2. CASE Accepts(cnRun.creds) /\ Goto("keep") /\ UNCHANGED cnStore
  BY <1>2 DEF RefreshToken, Goto
<1>3. CASE Goto("reject") /\ UNCHANGED cnStore
  BY <1>3 DEF RefreshToken, Goto
<1>4. CASE cnRun' = RunIdle /\ UNCHANGED cnStore
  BY <1>4 DEF RefreshToken
<1> QED  BY <1>1, <1>2, <1>3, <1>4 DEF RefreshToken

\* Every step keeps what the user was told within what the row shows.
LEMMA ToldStep ==
    ConnInv /\ ConnectionsNext => ToldOnce'
<1> SUFFICES ASSUME ConnInv, ConnectionsNext  PROVE  ToldOnce'
  OBVIOUS
<1> USE FieldFacts DEF ConnInv, ConnTypes, ConfigRows, Dispatches, ToldOnce
<1>1. ASSUME NEW g \in Grants, ConnectPlain(g)  PROVE  ToldOnce'
  BY <1>1 DEF ConnectPlain
<1>2. ASSUME NEW g \in Grants, HandleGOGConnect(g)  PROVE  ToldOnce'
  BY <1>2 DEF HandleGOGConnect
<1>3. ASSUME NEW g \in Grants, HandleEpicGamesStoreConnect(g)  PROVE  ToldOnce'
  BY <1>3 DEF HandleEpicGamesStoreConnect
<1>4. ASSUME NEW g \in Grants, Revoke(g)  PROVE  ToldOnce'
  BY <1>4 DEF Revoke
<1>5. CASE AuthenticateCaptures
  BY <1>5 DEF AuthenticateCaptures
<1>6. CASE PersistCredentials
  BY <1>6 DEF PersistCredentials
<1>7. CASE StartDisconnect
  BY <1>7 DEF StartDisconnect
<1>8. CASE Cleanup
  BY <1>8 DEF Cleanup
<1>9. ASSUME NEW f \in Frequencies, HandleUpdateConfig(f)  PROVE  ToldOnce'
  BY <1>9 DEF HandleUpdateConfig
<1>10. CASE LoadConfig
  BY <1>10 DEF LoadConfig
<1>11. CASE RefreshToken
  BY <1>11, RefreshSteps DEF RunIdle
<1>12. CASE KeepToken
  BY <1>12 DEF KeepToken, Goto
<1>13. CASE Fetch
  BY <1>13 DEF Fetch, Goto, RunIdle
<1>14. CASE RestoreSnapshot
  BY <1>14 DEF RestoreSnapshot, Goto
<1>15. CASE ListLibrary
  BY <1>15 DEF ListLibrary
<1>16. CASE CaptureSnapshot
  <2>1. cnRun'.pc # "notify" /\ (cnRun'.pc # "idle" => cnRun'.prior = cnRun.prior)
    BY <1>16 DEF CaptureSnapshot, AfterList, Goto, RunIdle
  <2>2. cnRun.pc # "idle" /\ cnRow'.error = cnRow.error /\ cnTold' = cnTold
    BY <1>16 DEF CaptureSnapshot
  <2> QED  BY <2>1, <2>2
<1>17. CASE Finish
  BY <1>17 DEF Finish, RunIdle
<1>18. CASE FlagCredentialsError
  BY <1>18 DEF FlagCredentialsError, RunIdle
<1>19. CASE NotifyExpired
  BY <1>19 DEF NotifyExpired, RunIdle
<1>20. CASE NewKey
  BY <1>20 DEF NewKey
<1>21. CASE CrashConnections
  BY <1>21 DEF CrashConnections, RunIdle
<1> QED  BY <1>1, <1>2, <1>3, <1>4, <1>5, <1>6, <1>7, <1>8, <1>9, <1>10, <1>11, <1>12,
          <1>13, <1>14, <1>15, <1>16, <1>17, <1>18, <1>19, <1>20, <1>21 DEF ConnectionsNext

\* Every step keeps a sync on its store's route, with issued tokens.
LEMMA RouteStep ==
    ConnInv /\ ConnectionsNext => AllIssued' /\ Routes'
<1> SUFFICES ASSUME ConnInv, ConnectionsNext  PROVE  AllIssued' /\ Routes'
  OBVIOUS
<1> USE CredentialFacts, FieldFacts DEF ConnInv, ConnTypes, AllIssued, Issued, Routes, RequestStates, Dispatches, ConfigRows
<1>1. ASSUME NEW g \in Grants, ConnectPlain(g)  PROVE  AllIssued' /\ Routes'
  BY <1>1 DEF ConnectPlain, Authorize
<1>2. ASSUME NEW g \in Grants, HandleGOGConnect(g)  PROVE  AllIssued' /\ Routes'
  BY <1>2 DEF HandleGOGConnect, Authorize
<1>3. ASSUME NEW g \in Grants, HandleEpicGamesStoreConnect(g)  PROVE  AllIssued' /\ Routes'
  BY <1>3 DEF HandleEpicGamesStoreConnect, Authorize
<1>4. ASSUME NEW g \in Grants, Revoke(g)  PROVE  AllIssued' /\ Routes'
  BY <1>4 DEF Revoke
<1>5. CASE AuthenticateCaptures
  BY <1>5 DEF AuthenticateCaptures, ConnIdle
<1>6. CASE PersistCredentials
  BY <1>6 DEF PersistCredentials, ConnIdle
<1>7. CASE StartDisconnect
  BY <1>7 DEF StartDisconnect, ConnIdle
<1>8. CASE Cleanup
  BY <1>8 DEF Cleanup, ConnIdle
<1>9. ASSUME NEW f \in Frequencies, HandleUpdateConfig(f)  PROVE  AllIssued' /\ Routes'
  BY <1>9 DEF HandleUpdateConfig
<1>10. CASE LoadConfig
  BY <1>10 DEF LoadConfig
<1>11. CASE RefreshToken
  <2>1. \A c \in Credentials : Issued(c) => Issued(c)'
    BY <1>11 DEF RefreshToken
  <2>2. Issued(cnRun.creds)'
    BY <1>11, <2>1, RefreshSteps DEF RunIdle, Accepts
  <2>3. cnRun'.pc \in {"idle", "keep", "reject"}
    BY <1>11, RefreshSteps DEF RunIdle
  <2> QED  BY <1>11, <2>1, <2>2, <2>3 DEF RefreshToken
<1>12. CASE KeepToken
  BY <1>12 DEF KeepToken, Goto
<1>13. CASE Fetch
  BY <1>13 DEF Fetch, Goto, Accepts, RunIdle
<1>14. CASE RestoreSnapshot
  BY <1>14 DEF RestoreSnapshot, Goto
<1>15. CASE ListLibrary
  BY <1>15 DEF ListLibrary, Accepts
<1>16. CASE CaptureSnapshot
  <2>1. /\ cnRun'.creds \in {cnRun.creds, NoCreds} /\ cnRun'.pc \in {"idle", "finish", "reject"}
    BY <1>16 DEF CaptureSnapshot, AfterList, Goto, RunIdle
  <2>2. cnRow'.creds \in {cnRow.creds, cnDir}
    BY <1>16 DEF CaptureSnapshot
  <2> QED  BY <1>16, <2>1, <2>2 DEF CaptureSnapshot
<1>17. CASE Finish
  BY <1>17 DEF Finish, RunIdle
<1>18. CASE FlagCredentialsError
  BY <1>18 DEF FlagCredentialsError, RunIdle
<1>19. CASE NotifyExpired
  BY <1>19 DEF NotifyExpired, RunIdle
<1>20. CASE NewKey
  BY <1>20 DEF NewKey, ConnIdle
<1>21. CASE CrashConnections
  BY <1>21 DEF CrashConnections, ConnIdle, RunIdle
<1> QED  BY <1>1, <1>2, <1>3, <1>4, <1>5, <1>6, <1>7, <1>8, <1>9, <1>10, <1>11, <1>12,
          <1>13, <1>14, <1>15, <1>16, <1>17, <1>18, <1>19, <1>20, <1>21 DEF ConnectionsNext

\* Every step keeps the tokens that are carried, and the row unless one is about to
\* be written.
LEMMA HeldStep ==
    ConnInv /\ ConnectionsNext => Held'
<1> SUFFICES ASSUME ConnInv, ConnectionsNext  PROVE  Held'
  OBVIOUS
<1> USE CredentialFacts, FieldFacts DEF ConnInv, ConnTypes, AllIssued, Issued, Routes, Held, RowKept, Carried, Directory, Kept,
           RequestStates, Dispatches, ConfigRows
<1>1. ASSUME NEW g \in Grants, ConnectPlain(g)  PROVE  Held'
  BY <1>1 DEF ConnectPlain, Authorize, Mixes
<1>2. ASSUME NEW g \in Grants, HandleGOGConnect(g)  PROVE  Held'
  BY <1>2 DEF HandleGOGConnect, Authorize, Mixes
<1>3. ASSUME NEW g \in Grants, HandleEpicGamesStoreConnect(g)  PROVE  Held'
  BY <1>3 DEF HandleEpicGamesStoreConnect, Authorize, Mixes
<1>4. ASSUME NEW g \in Grants, Revoke(g)  PROVE  Held'
  BY <1>4 DEF Revoke
<1>5. CASE AuthenticateCaptures
  BY <1>5 DEF AuthenticateCaptures, ConnIdle
<1>6. CASE PersistCredentials
  BY <1>6 DEF PersistCredentials, ConnIdle
<1>7. CASE StartDisconnect
  BY <1>7 DEF StartDisconnect, Mixes, ConnIdle
<1>8. CASE Cleanup
  BY <1>8 DEF Cleanup, ConnIdle
<1>9. ASSUME NEW f \in Frequencies, HandleUpdateConfig(f)  PROVE  Held'
  BY <1>9 DEF HandleUpdateConfig
<1>10. CASE LoadConfig
  BY <1>10 DEF LoadConfig, Mixes
<1>11. CASE RefreshToken
  <2>1. \A c \in Credentials : Kept(c) /\ c.grant # cnRun.creds.grant => Kept(c)'
    BY <1>11, RefreshSteps DEF Accepts
  <2>2. cnStore' = cnStore \/ cnRun'.pc = "keep"
    BY <1>11, RefreshSteps
  <2>3. cnRun'.pc = "keep" => Kept(cnRun.creds)' /\ cnRun'.creds.grant = cnRun.creds.grant
    <3>1. CASE /\ Accepts(cnRun.creds)
               /\ cnStore' = [cnStore EXCEPT ![cnRun.creds.grant] = @ + 1]
               /\ cnRun'.creds = Rotated(cnRun.creds)
      <4>1. /\ cnRun.creds.grant \in Grants /\ cnStore[cnRun.creds.grant] = cnRun.creds.version
            /\ cnRun'.creds.grant = cnRun.creds.grant
            /\ cnRun'.creds.version = cnRun.creds.version + 1
        BY <3>1 DEF Accepts
      <4>2. cnStore'[cnRun.creds.grant] = cnStore[cnRun.creds.grant] + 1
        BY <3>1, <4>1
      <4>3. cnStore'[cnRun'.creds.grant] = cnRun'.creds.version
        BY <4>1, <4>2
      <4> QED  BY <4>1, <4>3
    <3> QED  BY <1>11, <3>1, RefreshSteps DEF Accepts, RunIdle
  <2>4. cnRun'.pc \in {"idle", "keep", "reject"} /\ cnRun'.creds.grant \in {0, cnRun.creds.grant}
    BY <1>11, RefreshSteps DEF RunIdle, Accepts
  <2> QED  BY <1>11, <2>1, <2>2, <2>3, <2>4, RefreshSteps
<1>12. CASE KeepToken
  <2>1. cnRun'.pc = "fetch" /\ cnRun'.creds = cnRun.creds
    BY <1>12 DEF KeepToken, Goto
  <2>2. \/ cnFaults' = cnFaults /\ cnRow'.creds = cnRun.creds
        \/ cnFaults' = cnFaults + 1
    BY <1>12 DEF KeepToken, Fault
  <2> QED  BY <1>12, <2>1, <2>2 DEF KeepToken
<1>13. CASE Fetch
  BY <1>13 DEF Fetch, Goto, Accepts, RunIdle
<1>14. CASE RestoreSnapshot
  BY <1>14 DEF RestoreSnapshot, Goto
<1>15. CASE ListLibrary
  BY <1>15 DEF ListLibrary, Accepts
<1>16. CASE CaptureSnapshot
  <2>1. cnRun'.pc \in {"idle", "finish", "reject"} /\ cnRun'.creds \in {cnRun.creds, NoCreds}
    BY <1>16 DEF CaptureSnapshot, AfterList, Goto, RunIdle
  <2>2. \/ cnFaults' = cnFaults /\ (cnDir # NoCreds => cnRow'.creds = cnDir)
        \/ cnFaults' = cnFaults + 1
    BY <1>16 DEF CaptureSnapshot, Fault
  <2> QED  BY <1>16, <2>1, <2>2 DEF CaptureSnapshot
<1>17. CASE Finish
  BY <1>17 DEF Finish, RunIdle
<1>18. CASE FlagCredentialsError
  BY <1>18 DEF FlagCredentialsError, RunIdle
<1>19. CASE NotifyExpired
  BY <1>19 DEF NotifyExpired, RunIdle
<1>20. CASE NewKey
  BY <1>20 DEF NewKey, Fault, ConnIdle
<1>21. CASE CrashConnections
  BY <1>21 DEF CrashConnections, Fault, ConnIdle, RunIdle
<1> QED  BY <1>1, <1>2, <1>3, <1>4, <1>5, <1>6, <1>7, <1>8, <1>9, <1>10, <1>11, <1>12,
          <1>13, <1>14, <1>15, <1>16, <1>17, <1>18, <1>19, <1>20, <1>21 DEF ConnectionsNext

---------------------------------------------------------------------------
\* The whole invariant: it holds at the start and every step keeps it.
LEMMA ConnInvHolds == ConnectionsSpec => []ConnInv
<1>1. ConnectionsInit => ConnInv
  <2> SUFFICES ASSUME ConnectionsInit  PROVE  ConnInv
    OBVIOUS
  <2>1. cnRow \in ConfigRows
    BY CredentialFacts, ConnectionsAssumption DEF ConnectionsInit, NoRow, ConfigRows
  <2>2. cnReq \in RequestStates
    BY CredentialFacts DEF ConnectionsInit, ConnIdle, RequestStates
  <2>3. cnRun \in Dispatches
    BY CredentialFacts DEF ConnectionsInit, RunIdle, Dispatches, DispatchLabels
  <2>4. ConnTypes
    BY <2>1, <2>2, <2>3, CredentialFacts DEF ConnectionsInit, ConnTypes
  <2> QED
    BY <2>4 DEF ConnectionsInit, ConnInv, AllIssued, Issued, Routes, ToldOnce, Held, RowKept,
                Carried, Directory, Kept, NoRow, ConnIdle, RunIdle
<1>2. ConnInv /\ [ConnectionsNext]_connVars => ConnInv'
  <2> SUFFICES ASSUME ConnInv, [ConnectionsNext]_connVars  PROVE  ConnInv'
    OBVIOUS
  <2>1. CASE ConnectionsNext
    BY <2>1, TypesStep, RouteStep, ToldStep, HeldStep DEF ConnInv
  <2>2. CASE UNCHANGED connVars
    BY <2>2 DEF connVars, ConnInv, ConnTypes, AllIssued, Issued, Routes, ToldOnce, Held,
                RowKept, Carried, Directory, Kept
  <2> QED  BY <2>1, <2>2
<1> QED  BY <1>1, <1>2, PTL DEF ConnectionsSpec

(***************************************************************************)
(* For every number of authorizations, rotations and faults: between       *)
(* requests and syncs, credentials shown as connected and healthy are what *)
(* the store accepts, or were revoked there, unless the server died, a     *)
(* write failed or Epic's directory was used by two at once.  What could   *)
(* break it is a sync that rotates the token while the row is cleared or   *)
(* replaced under it (onNewTokens and CaptureSnapshot write the row        *)
(* whatever it holds by then).                                             *)
(***************************************************************************)
THEOREM TokensSurvive == ConnectionsSpec => []TokensKept
<1>1. ConnInv => TokensKept
  BY DEF ConnInv, ConnTypes, Held, RowKept, Kept, TokensKept, ConnectionStatus, Accepts
<1> QED  BY <1>1, ConnInvHolds, PTL

(***************************************************************************)
(* A credential error is told once: when a sync is about to notify, the    *)
(* user has not yet been told of the error that the row shows, although    *)
(* the sync decides by the flag it read before it started                  *)
(* (handleCredentialError's prior).                                        *)
(***************************************************************************)
THEOREM ToldOfExpiryOnce == ConnectionsSpec => []NoNagging
<1>1. ConnInv => NoNagging
  BY DEF ConnInv, ToldOnce, NoNagging
<1> QED  BY <1>1, ConnInvHolds, PTL

---------------------------------------------------------------------------
(* Searching the catalogue. *)

CatalogueTypes == igCatalogue \in [IgdbGames -> Entry]

LEMMA GameTyped ==
  ASSUME CatalogueTypes, NEW g \in IgdbGames
  PROVE  igCatalogue[g].score \in Nat /\ g \in Nat
BY IgdbAssumption DEF CatalogueTypes, Entry

\* Whoever is among the first of more is among the first of fewer.
LEMMA FirstOfFewer ==
  ASSUME NEW G \in SUBSET IgdbGames, NEW F \in SUBSET G, NEW limit \in Nat,
         NEW g \in F, g \in FirstOf(G, limit)
  PROVE  g \in FirstOf(F, limit)
<1> DEFINE A == {h \in F : h < g}
           B == {h \in G : h < g}
<1>1. A \subseteq B /\ IsFiniteSet(B)
  BY IgdbAssumption, FS_Subset
<1>2. Cardinality(A) <= Cardinality(B) /\ Cardinality(A) \in Nat /\ Cardinality(B) \in Nat
  <2> HIDE DEF A, B
  <2> QED BY <1>1, FS_Subset, FS_CardinalityType
<1>3. Cardinality(B) < limit
  BY DEF FirstOf
<1>4. Cardinality(A) < limit
  <2> HIDE DEF A, B
  <2> QED BY <1>2, <1>3
<1> QED BY <1>4 DEF FirstOf

\* What a pass met, one of its searches that did not fail met.
LEMMA Answers ==
  ASSUME NEW P, NEW limit, NEW lost
  PROVE  /\ DOMAIN searches(P, limit, lost) = Requests
         /\ \A g : g \in UNION {searches(P, limit, lost)[k] : k \in DOMAIN searches(P, limit, lost)}
              <=> \E r \in Requests \ lost : g \in answerTo(r, P, limit)
<1> DEFINE s == searches(P, limit, lost)
<1>0. s = [r \in Requests |-> IF r \in lost THEN {} ELSE answerTo(r, P, limit)]
  BY DEF searches
<1> HIDE DEF s
<1>1. DOMAIN s = Requests /\ \A r \in Requests : s[r] = IF r \in lost THEN {} ELSE answerTo(r, P, limit)
  BY <1>0
<1>2. \A g : g \in UNION {s[k] : k \in DOMAIN s} <=> \E r \in Requests \ lost : g \in answerTo(r, P, limit)
  BY <1>1
<1> QED BY <1>1, <1>2 DEF s

LEMMA CandidatesListed ==
  ASSUME NEW P, NEW limit, NEW lost
  PROVE  /\ candidates(searches(P, limit, lost), P) \subseteq IgdbGames
         /\ IsFiniteSet(candidates(searches(P, limit, lost), P))
<1> DEFINE answers == searches(P, limit, lost)
<1>1. \A r : answerTo(r, P, limit) \subseteq IgdbGames
  BY DEF answerTo, exactSearch, fuzzySearch, FirstOf
<1>2. UNION {answers[k] : k \in DOMAIN answers} \subseteq IgdbGames
  BY <1>1, Answers
<1>3. candidates(answers, P) \subseteq IgdbGames
  BY <1>2 DEF candidates
<1> QED BY <1>3, IgdbAssumption, FS_Subset

LEMMA RequestsCounted ==
  /\ Requests \subseteq Nat
  /\ \A k \in Requests : \A i \in 1..(k - 1) : i \in Requests /\ i < k
<1> DEFINE n == 2 * (Expansions + 1)
<1>1. n \in Nat
  BY IgdbAssumption
<1> HIDE DEF n
<1>2. 1..n \subseteq Nat
  BY <1>1
<1>3. ASSUME NEW k \in 1..n, NEW i \in 1..(k - 1)  PROVE  i \in 1..n /\ i < k
  BY <1>1
<1>4. Requests = 1..n
  BY DEF Requests, n
<1> QED BY <1>2, <1>3, <1>4

\* A candidate was met in one of the answers first.
LEMMA MetSomewhere ==
  ASSUME NEW P, NEW limit, NEW lost, NEW g \in candidates(searches(P, limit, lost), P)
  PROVE  metIn(g, searches(P, limit, lost)) \in Nat
<1> DEFINE answers == searches(P, limit, lost)
           T == {k \in Requests : g \in answers[k]}
<1>1. DOMAIN answers = Requests /\ Requests \subseteq Nat
  BY Answers, RequestsCounted
<1>2. T # {} /\ T \subseteq Nat
  BY <1>1 DEF candidates
<1> HIDE DEF T, answers
<1>3. PICK k \in T : \A i \in T : k <= i
  BY <1>2, LeastNumber
<1>4. k \in DOMAIN answers /\ g \in answers[k] /\ \A i \in 1..(k - 1) : g \notin answers[i]
  <2>1. \A i \in 1..(k - 1) : i \in Requests /\ i < k
    <3>1. k \in Requests
      BY <1>3 DEF T
    <3> QED BY <3>1, RequestsCounted
  <2> QED BY <1>1, <1>2, <1>3, <2>1 DEF T
<1>5. metIn(g, answers) \in DOMAIN answers
  BY <1>4 DEF metIn
<1> QED BY <1>1, <1>5 DEF answers

\* Score, answer and id order the candidates.
LEMMA ScoresOrder ==
  ASSUME CatalogueTypes, NEW P, NEW limit, NEW lost
  PROVE  LET answers == searches(P, limit, lost)
             kept    == candidates(answers, P)
         IN  Orders({w \in kept \X kept : sortByScore(w[1], w[2], answers)}, kept)
<1> DEFINE answers  == searches(P, limit, lost)
           kept     == candidates(answers, P)
           score(g) == igCatalogue[g].score
           met(g)   == metIn(g, answers)
<1>1. \A g \in kept : score(g) \in Nat /\ met(g) \in Nat /\ g \in Nat
  BY GameTyped, MetSomewhere, CandidatesListed
<1>2. \A g, h : sortByScore(g, h, answers) <=>
         \/ score(g) > score(h)
         \/ score(g) = score(h) /\ (met(g) < met(h) \/ (met(g) = met(h) /\ g < h))
  BY DEF sortByScore
<1> HIDE DEF score, met, kept, answers
<1>3. \A g \in kept : ~sortByScore(g, g, answers)
  BY <1>1, <1>2
<1>4. \A g, h \in kept : g = h \/ sortByScore(g, h, answers) \/ sortByScore(h, g, answers)
  BY <1>1, <1>2
<1>5. \A f, g, h \in kept : sortByScore(f, g, answers) /\ sortByScore(g, h, answers) => sortByScore(f, h, answers)
  BY <1>1, <1>2
<1>6. Orders({w \in kept \X kept : sortByScore(w[1], w[2], answers)}, kept)
  BY <1>3, <1>4, <1>5 DEF Orders
<1> QED BY <1>6 DEF kept, answers

\* A list of n members of a set, none twice, and some when the set has any.
Lists(r, n, S) == /\ DOMAIN r = 1..n /\ r \in Seq(S) /\ (S # {} => n # 0)
                  /\ \A i, j \in 1..n : r[i] = r[j] => i = j

\* What the list leaves out, it is too full for: it lists limit others that score no less.
Fullest(r, n, S, limit) ==
  \A g \in S :
    \/ \E i \in 1..n : r[i] = g
    \/ n = limit /\ \A i \in 1..n : igCatalogue[r[i]].score >= igCatalogue[g].score

\* The ranked results list candidates, the best of them.
LEMMA RankedTyped ==
  ASSUME CatalogueTypes, NEW P, NEW limit \in Nat \ {0}, NEW lost
  PROVE  \E n \in Nat :
           /\ Lists(rankedResults(P, limit, lost), n, candidates(searches(P, limit, lost), P))
           /\ Fullest(rankedResults(P, limit, lost), n, candidates(searches(P, limit, lost), P), limit)
<1> DEFINE answers == searches(P, limit, lost)
           kept    == candidates(answers, P)
           R       == {w \in kept \X kept : sortByScore(w[1], w[2], answers)}
           n       == IF Cardinality(kept) < limit THEN Cardinality(kept) ELSE limit
           r       == rankedResults(P, limit, lost)
<1>1. IsFiniteSet(kept) /\ Cardinality(kept) \in Nat /\ Orders(R, kept)
  BY CandidatesListed, ScoresOrder, FS_CardinalityType
<1>2. n \in Nat /\ n <= Cardinality(kept) /\ (n = limit \/ n = Cardinality(kept))
  BY <1>1
<1>a. /\ \A g, h : <<g, h>> \in R <=> g \in kept /\ h \in kept /\ sortByScore(g, h, answers)
      /\ kept \subseteq IgdbGames
  BY CandidatesListed
<1>b. ASSUME NEW g \in kept, NEW h \in kept, ~(<<h, g>> \in R), h # g
      PROVE  igCatalogue[g].score >= igCatalogue[h].score
  <2>1. igCatalogue[g].score \in Nat /\ igCatalogue[h].score \in Nat
    BY <1>a, GameTyped
  <2>2. ~sortByScore(h, g, answers)
    BY <1>a, <1>b
  <2> QED BY <2>1, <2>2 DEF sortByScore
<1>3. r = [i \in 1..n |-> CHOOSE g \in AtRank(i, kept, answers) : TRUE]
  BY DEF rankedResults
<1>4. kept # {} => n # 0
  BY <1>1, FS_EmptySet
<1>5. ASSUME NEW i  PROVE  AtRank(i, kept, answers) = {g \in kept : PlaceIn(R, kept, g) = i - 1}
  <2>1. \A g \in kept : {h \in kept : <<h, g>> \in R} = {h \in kept : sortByScore(h, g, answers)}
    OBVIOUS
  <2> QED BY <2>1 DEF AtRank, PlaceIn
<1> HIDE DEF R, r, n, kept, answers
<1>6. ASSUME NEW i \in 1..n  PROVE  r[i] \in kept /\ PlaceIn(R, kept, r[i]) = i - 1
  <2>1. i - 1 \in 0..(Cardinality(kept) - 1)
    BY <1>1, <1>2
  <2>2. PICK g \in kept : PlaceIn(R, kept, g) = i - 1
    BY <1>1, <2>1, EveryPlace
  <2>3. g \in AtRank(i, kept, answers)
    BY <1>5, <2>2
  <2>4. r[i] \in AtRank(i, kept, answers)
    BY <1>3, <2>3
  <2> QED BY <1>5, <2>4
<1>7. \A i, j \in 1..n : r[i] = r[j] => i = j
  BY <1>2, <1>6
<1>8. DOMAIN r = 1..n /\ r \in Seq(kept)
  <2>1. r = [i \in 1..n |-> r[i]]
    BY <1>3
  <2>2. r \in [1..n -> kept]
    BY <1>6, <2>1
  <2> QED BY <1>2, <2>1, <2>2
<1>9. Lists(r, n, kept)
  BY <1>4, <1>7, <1>8 DEF Lists
<1>10. Fullest(r, n, kept, limit)
  <2>1. SUFFICES ASSUME NEW g \in kept
                 PROVE  \/ \E i \in 1..n : r[i] = g
                        \/ n = limit /\ \A i \in 1..n : igCatalogue[r[i]].score >= igCatalogue[g].score
    BY DEF Fullest
  <2> DEFINE p == PlaceIn(R, kept, g)
  <2>2. p \in 0..(Cardinality(kept) - 1)
    BY <1>1, PlacesDiffer
  <2>3. CASE p < n
    <3>1. p + 1 \in 1..n
      BY <1>2, <2>2, <2>3
    <3>2. r[p + 1] \in kept /\ PlaceIn(R, kept, r[p + 1]) = p
      BY <1>6, <2>2, <3>1
    <3>3. r[p + 1] = g
      BY <1>1, <3>2, PlacesDiffer
    <3> QED BY <3>1, <3>3
  <2>4. CASE ~(p < n)
    <3>1. n = limit
      BY <1>1, <1>2, <2>2, <2>4
    <3>2. ASSUME NEW i \in 1..n  PROVE  igCatalogue[r[i]].score >= igCatalogue[g].score
      <4>1. r[i] \in kept /\ PlaceIn(R, kept, r[i]) = i - 1 /\ i - 1 < p
        BY <1>2, <1>6, <2>2, <2>4
      <4>2. ~(<<g, r[i]>> \in R)
        <5>1. <<g, r[i]>> \in R => PlaceIn(R, kept, g) < PlaceIn(R, kept, r[i])
          BY <1>1, <4>1, PlacesGrow
        <5> QED BY <2>2, <4>1, <5>1
      <4> QED BY <1>b, <4>1, <4>2
    <3> QED BY <3>1, <3>2
  <2> QED BY <2>3, <2>4
<1> QED BY <1>2, <1>9, <1>10 DEF kept, answers, r

LEMMA RankedOnce ==
  ASSUME CatalogueTypes, NEW P, NEW limit \in Nat \ {0}, NEW lost
  PROVE  LET kept == candidates(searches(P, limit, lost), P)
             r    == rankedResults(P, limit, lost)
         IN  /\ Len(r) = Cardinality(ToSet(r)) /\ ToSet(r) \subseteq kept
             /\ kept # {} => ToSet(r) # {}
             /\ r = <<>> <=> ToSet(r) = {}
             /\ \A g \in kept \ ToSet(r) :
                  Len(r) = limit /\ \A h \in ToSet(r) : igCatalogue[h].score >= igCatalogue[g].score
<1> DEFINE kept == candidates(searches(P, limit, lost), P)
           r    == rankedResults(P, limit, lost)
<1>1. PICK n \in Nat : Lists(r, n, kept) /\ Fullest(r, n, kept, limit)
  BY RankedTyped
<1> HIDE DEF kept, r
<1>0. /\ DOMAIN r = 1..n /\ r \in Seq(kept) /\ (kept # {} => n # 0)
      /\ \A i, j \in 1..n : r[i] = r[j] => i = j
  BY <1>1 DEF Lists
<1>2. Len(r) = n /\ ToSet(r) = {r[i] : i \in 1..n}
  BY <1>0 DEF ToSet
<1>3. r \in Bijection(1..n, ToSet(r))
  BY <1>0, <1>2 DEF Bijection, Injection, Surjection, IsInjective
<1>4. Cardinality(ToSet(r)) = n
  <2>1. IsFiniteSet(1..n) /\ Cardinality(1..n) = n
    BY FS_Interval
  <2> HIDE DEF kept, r
  <2>2. Cardinality(ToSet(r)) = Cardinality(1..n)
    BY <1>3, <2>1, FS_Bijection DEF ExistsBijection
  <2> QED BY <2>1, <2>2
<1>5. ToSet(r) \subseteq kept /\ (n # 0 <=> ToSet(r) # {})
  BY <1>0, <1>2
<1>6. r = <<>> <=> n = 0
  BY <1>0
<1>7. \A g \in kept \ ToSet(r) :
        Len(r) = limit /\ \A h \in ToSet(r) : igCatalogue[h].score >= igCatalogue[g].score
  BY <1>1, <1>2 DEF Fullest
<1> QED BY <1>0, <1>2, <1>4, <1>5, <1>6, <1>7 DEF kept, r

\* A game known on a platform asked for is met by the scoped search when the open one,
\* with the same searches failing, meets it.
LEMMA ScopedMeets ==
  ASSUME CatalogueTypes, NEW P, NEW limit \in Nat \ {0}, NEW lost,
         NEW g \in candidates(searches({}, limit, lost), {}), igCatalogue[g].platforms \cap P # {}
  PROVE  g \in candidates(searches(P, limit, lost), P)
<1>0. g \in IgdbGames
  BY CandidatesListed
<1>1. g \in IgdbGames /\ igCatalogue[g].score >= Threshold
  BY <1>0 DEF candidates
<1>2. PICK r \in Requests \ lost : g \in answerTo(r, {}, limit)
  BY Answers DEF candidates
<1>3. ASSUME NEW q, g \in exactSearch(q, {}, limit)  PROVE  g \in exactSearch(q, P, limit)
  <2> DEFINE G == {h \in IgdbGames : igCatalogue[h].named = q /\ Fits(h, {})}
             F == {h \in IgdbGames : igCatalogue[h].named = q /\ Fits(h, P)}
  <2>1. F \subseteq G /\ G \subseteq IgdbGames
    BY DEF Fits
  <2>2. g \in FirstOf(G, limit)
    BY <1>3 DEF exactSearch
  <2>3. g \in F
    BY <1>1, <2>2 DEF FirstOf, Fits
  <2> HIDE DEF F, G
  <2>4. g \in FirstOf(F, limit)
    BY <2>1, <2>2, <2>3, FirstOfFewer
  <2> QED BY <2>4 DEF exactSearch, F
<1>4. g \in answerTo(r, P, limit)
  BY <1>2, <1>3 DEF answerTo
<1>5. KeepsPlatform(g, P)
  BY DEF KeepsPlatform
<1> QED BY <1>1, <1>4, <1>5, Answers DEF candidates

\* What SearchLosesNothing asks of the results.
Sound(results, P, limit, lost, again) ==
  LET found        == ToSet(results)
      open(failed) == ToSet(rankedResults({}, limit, failed))
      score(g)     == igCatalogue[g].score
  IN  /\ Len(results) = Cardinality(found)
      /\ P # {} /\ open(again) # {} => found # {}
      /\ (\E g \in found : ~KeepsPlatform(g, P))
           => \A g \in open(lost) : igCatalogue[g].platforms \cap P = {}
      /\ \A r \in Requests \ lost : \A g \in answerTo(r, P, limit) :
           score(g) >= Threshold /\ KeepsPlatform(g, P) =>
             \/ g \in found
             \/ Len(results) = limit /\ \A h \in found : score(h) >= score(g)

LEMMA SearchSound ==
  ASSUME CatalogueTypes, NEW P, NEW limit \in Nat \ {0}, NEW lost, NEW again
  PROVE  Sound(SearchGames(P, limit, lost, again), P, limit, lost, again)
<1> DEFINE scoped  == rankedResults(P, limit, lost)
           same    == rankedResults({}, limit, lost)
           wide    == rankedResults({}, limit, again)
           kept    == candidates(searches(P, limit, lost), P)
           results == SearchGames(P, limit, lost, again)
<1>1. results = IF scoped = <<>> /\ P # {} THEN wide ELSE scoped
  BY DEF SearchGames
<1>2. /\ Len(scoped) = Cardinality(ToSet(scoped)) /\ Len(wide) = Cardinality(ToSet(wide))
      /\ scoped = <<>> <=> ToSet(scoped) = {}
      /\ ToSet(scoped) \subseteq kept /\ (kept # {} => ToSet(scoped) # {})
      /\ ToSet(same) \subseteq candidates(searches({}, limit, lost), {})
      /\ \A g \in kept \ ToSet(scoped) :
           Len(scoped) = limit /\ \A h \in ToSet(scoped) : igCatalogue[h].score >= igCatalogue[g].score
  BY RankedOnce
<1>3. \A g \in ToSet(scoped) : KeepsPlatform(g, P)
  BY <1>2 DEF candidates
<1>4. \A g : P = {} => KeepsPlatform(g, P)
  BY DEF KeepsPlatform
<1>5. ASSUME NEW g \in ToSet(same), igCatalogue[g].platforms \cap P # {}  PROVE  scoped # <<>>
  BY <1>2, <1>5, ScopedMeets
<1>6. ASSUME NEW r \in Requests \ lost, NEW g \in answerTo(r, P, limit),
             igCatalogue[g].score >= Threshold, KeepsPlatform(g, P)
      PROVE  g \in kept
  BY <1>6, Answers DEF candidates
<1> HIDE DEF scoped, same, wide, kept, results
<1>7. Len(results) = Cardinality(ToSet(results))
  BY <1>1, <1>2
<1>8. P # {} /\ ToSet(wide) # {} => ToSet(results) # {}
  BY <1>1, <1>2
<1>9. (\E g \in ToSet(results) : ~KeepsPlatform(g, P))
         => \A g \in ToSet(same) : igCatalogue[g].platforms \cap P = {}
  <2>1. CASE scoped = <<>> /\ P # {}
    BY <1>5, <2>1
  <2>2. CASE scoped # <<>> \/ P = {}
    BY <1>1, <1>3, <1>4, <2>2
  <2> QED BY <2>1, <2>2
<1>10. \A r \in Requests \ lost : \A g \in answerTo(r, P, limit) :
          igCatalogue[g].score >= Threshold /\ KeepsPlatform(g, P) =>
            \/ g \in ToSet(results)
            \/ /\ Len(results) = limit
               /\ \A h \in ToSet(results) : igCatalogue[h].score >= igCatalogue[g].score
  <2>1. SUFFICES ASSUME NEW r \in Requests \ lost, NEW g \in answerTo(r, P, limit),
                        igCatalogue[g].score >= Threshold, KeepsPlatform(g, P)
                 PROVE  \/ g \in ToSet(results)
                        \/ /\ Len(results) = limit
                           /\ \A h \in ToSet(results) : igCatalogue[h].score >= igCatalogue[g].score
    OBVIOUS
  <2>2. g \in kept /\ results = scoped
    BY <1>1, <1>2, <1>6, <2>1
  <2> QED BY <1>2, <2>2
<1> QED BY <1>7, <1>8, <1>9, <1>10 DEF Sound, same, wide, results

\* The results are a function of the catalogue and the request.
LEMMA SameResults ==
  ASSUME UNCHANGED igCatalogue, NEW P, NEW limit, NEW lost, NEW again
  PROVE  SearchGames(P, limit, lost, again)' = SearchGames(P, limit, lost, again)
<1>1. ASSUME NEW Q, NEW failed  PROVE  rankedResults(Q, limit, failed)' = rankedResults(Q, limit, failed)
  <2>1. ASSUME NEW r  PROVE  answerTo(r, Q, limit)' = answerTo(r, Q, limit)
    BY DEF answerTo, exactSearch, fuzzySearch, Fits
  <2>2. searches(Q, limit, failed)' = searches(Q, limit, failed)
    BY <2>1 DEF searches
  <2>3. ASSUME NEW a  PROVE  candidates(a, Q)' = candidates(a, Q)
    BY DEF candidates, KeepsPlatform
  <2>4. ASSUME NEW a, NEW g, NEW h  PROVE  sortByScore(g, h, a)' <=> sortByScore(g, h, a)
    BY DEF sortByScore
  <2>5. ASSUME NEW a, NEW i, NEW K  PROVE  AtRank(i, K, a)' = AtRank(i, K, a)
    BY <2>4 DEF AtRank
  <2> QED BY <2>2, <2>3, <2>5 DEF rankedResults
<1> QED BY <1>1 DEF SearchGames

\* The last answer of a search by name is that of SearchGames.
SearchInv ==
  /\ CatalogueTypes
  /\ igAsked.kind = "name" =>
       /\ igAsked.limit \in Nat \ {0}
       /\ igAsked.results = SearchGames(igAsked.platforms, igAsked.limit, igAsked.lost, igAsked.again)

\* For every catalogue, limit and set of platforms, and whichever searches of either pass
\* fail: what the searches that succeed find is not lost, a scope to platforms hides nothing
\* that the retry without it could have answered, and a game of other platforms is named only
\* when none of those asked for is known (SearchGames).
THEOREM ScopedSearchesFind == IgdbSpec => []SearchLosesNothing
<1>1. IgdbInit => SearchInv
  BY IgdbAssumption DEF IgdbInit, SearchInv, CatalogueTypes
<1>2. SearchInv /\ [IgdbNext]_igdbVars => SearchInv'
  <2> SUFFICES ASSUME SearchInv, [IgdbNext]_igdbVars PROVE SearchInv'
    OBVIOUS
  <2>1. CASE RequestNext \/ UNCHANGED igdbVars
    <3>1. UNCHANGED <<igCatalogue, igAsked>>
      BY <2>1 DEF RequestNext, igdbVars
    <3>2. CASE igAsked.kind # "name"
      BY <3>1, <3>2 DEF SearchInv, CatalogueTypes
    <3>3. CASE igAsked.kind = "name"
      <4>1. PICK a : a = igAsked
        OBVIOUS
      <4>2. SearchGames(a.platforms, a.limit, a.lost, a.again)' = SearchGames(a.platforms, a.limit, a.lost, a.again)
        BY <3>1, SameResults
      <4> QED BY <3>1, <4>1, <4>2 DEF SearchInv, CatalogueTypes
    <3> QED BY <3>2, <3>3
  <2>2. CASE HandleSearchIGDB
    <3>1. igCatalogue' = igCatalogue
      BY <2>2 DEF HandleSearchIGDB
    <3>2. CASE igAsked' = [kind |-> "failed"]
      BY <3>1, <3>2 DEF SearchInv, CatalogueTypes
    <3>3. CASE igAsked' # [kind |-> "failed"]
      <4>1. PICK form \in {"igdb:N", "N", "name"}, id \in IgdbGames \cup {0}, P \in Scopings,
                 limit \in Limits, lost \in Failures, again \in Failures :
               igAsked' = [kind |-> form, id |-> id, platforms |-> P, limit |-> limit,
                           lost |-> lost, again |-> again,
                           results |-> searchIGDBWithIDInference(form, id, SearchGames(P, limit, lost, again))]
        BY <2>2, <3>3 DEF HandleSearchIGDB
      <4>2. limit \in Nat \ {0}
        BY IgdbAssumption
      <4>3. ASSUME form = "name", NEW names  PROVE  searchIGDBWithIDInference(form, id, names) = names
        BY <4>3 DEF searchIGDBWithIDInference
      <4>4. SearchGames(P, limit, lost, again)' = SearchGames(P, limit, lost, again)
        BY <3>1, SameResults
      <4> QED BY <3>1, <4>1, <4>2, <4>3, <4>4 DEF SearchInv, CatalogueTypes
    <3> QED BY <3>2, <3>3
  <2> QED BY <2>1, <2>2 DEF IgdbNext
<1>3. SearchInv => SearchLosesNothing
  <2> SUFFICES ASSUME SearchInv, igAsked.kind = "name" PROVE SearchLosesNothing
    BY DEF SearchLosesNothing
  <2>0. PICK a : a = igAsked
    OBVIOUS
  <2>1. Sound(a.results, a.platforms, a.limit, a.lost, a.again)
    <3>1. CatalogueTypes /\ a.limit \in Nat \ {0}
          /\ a.results = SearchGames(a.platforms, a.limit, a.lost, a.again)
      BY <2>0 DEF SearchInv
    <3> QED BY <3>1, SearchSound
  <2> QED BY <2>0, <2>1, Zenon DEF SearchLosesNothing, Sound
<1> QED BY <1>1, <1>2, <1>3, PTL DEF IgdbSpec
===========================================================================
