------------------------------- MODULE Notify -------------------------------
(***************************************************************************)
(* Notifications: an event is a row of the table events, and a task of the *)
(* queue carries its id to a worker, which works out who hears of it and   *)
(* sends to his channels one by one.  Administrators page through the same *)
(* rows in the activity feed, while events arrive and old ones are pruned. *)
(* What a message says (Format) is left out, and so are channel names.     *)
(***************************************************************************)
EXTENDS Integers, FiniteSets, FiniteSetsExt

CONSTANTS
    Members,            \* users
    UserTypes,          \* event types of scope user,
    AdminTypes,         \* of scope admin,
    DefaultOn,          \* those of them that are on by default,
    KeyedTypes,         \* those emitted with a dedup key
    EventIds, MaxEventTime, RetentionTime,
    MaxChannels,        \* bound on the channels ever made
    NotifyWorkers,
    FeedLimit,          \* events of a page of the feed
    MaxNotifyFaults     \* bound on failed sends, reads and crashes

ASSUME NotifyAssumption ==
    /\ EventIds \subseteq Nat /\ UserTypes \cap AdminTypes = {}
    /\ DefaultOn \cup KeyedTypes \subseteq UserTypes \cup AdminTypes
    /\ FeedLimit \in Nat \ {0} /\ {MaxEventTime, MaxChannels, MaxNotifyFaults} \subseteq Nat

VARIABLES
    evRows,      \* events: [id, type, actor, at]; an actor of 0 is none
    evUsed,      \* ids given out
    evClock,
    evQueue,     \* ids of the events whose notify task waits
    evAdmins,    \* users who are administrators
    evSubs,      \* notification_subscriptions: [user, type]
    evChannels,  \* notification_channels: [id, user]
    evMade,      \* channels made so far
    evWork,      \* what each worker is at
    evFaults,    \* bound reached so far
    evTried,     \* [event, channel] sent or attempted (history)
    evTwice,     \* attempts on a pair that had one already (history)
    evFeed       \* an administrator paging through the feed, and what he has seen

notifyVars == <<evRows, evUsed, evClock, evQueue, evAdmins, evSubs, evChannels, evMade, evWork,
                evFaults, evTried, evTwice, evFeed>>
rowVars     == <<evRows, evUsed, evClock>>
settingVars == <<evAdmins, evSubs, evChannels, evMade>>
workVars    == <<evWork, evFaults, evTried, evTwice>>

NoWork  == [pc |-> "idle", event |-> 0, users |-> {}, chans |-> {}, owed |-> {}]
NoFeed  == [pc |-> "closed", types |-> {}, cursor |-> <<0, 0>>, seen |-> {}, again |-> FALSE, stayed |-> {}]

NotifyInit ==
    /\ evRows = {} /\ evUsed = {} /\ evClock = 0 /\ evQueue = {}
    /\ evAdmins \in SUBSET Members /\ evSubs = {} /\ evChannels = {} /\ evMade = 0
    /\ evWork = [w \in NotifyWorkers |-> NoWork]
    /\ evFaults = 0 /\ evTried = {} /\ evTwice = {}
    /\ evFeed = NoFeed

EventTypes == UserTypes \cup AdminTypes
EventFault == evFaults < MaxNotifyFaults /\ evFaults' = evFaults + 1
ChannelsOf(U) == {c \in evChannels : c.user \in U}

---------------------------------------------------------------------------
(* Events. *)

\* A keyed event is not written while another with its key is there.  The task is queued
\* after the row is committed, and a failure of that is only logged.
Emit(type, actor, queued) ==
    /\ IF type \in KeyedTypes /\ \E e \in evRows : e.type = type
         THEN UNCHANGED <<evRows, evUsed, evQueue>>
         ELSE \E id \in EventIds \ evUsed :
                /\ evRows' = evRows \cup {[id |-> id, type |-> type, actor |-> actor, at |-> evClock]}
                /\ evUsed' = evUsed \cup {id}
                /\ evQueue' = IF queued THEN evQueue \cup {id} ELSE evQueue
    /\ UNCHANGED <<evClock, settingVars, workVars, evFeed>>

\* The hours pass.
EventTick ==
    /\ evClock < MaxEventTime /\ evClock' = evClock + 1
    /\ UNCHANGED <<evRows, evUsed, evQueue, settingVars, workVars, evFeed>>

\* The maintenance event that reports the outcome is one more Emit.
PruneEvents ==
    /\ evRows' = {e \in evRows : e.at >= evClock - RetentionTime}
    /\ evRows' # evRows
    /\ evFeed' = [evFeed EXCEPT !.stayed = @ \cap evRows']
    /\ UNCHANGED <<evUsed, evClock, evQueue, settingVars, workVars>>

---------------------------------------------------------------------------
(* Settings. *)

SetSubs(S) ==
    /\ evSubs' = S /\ S # evSubs
    /\ UNCHANGED <<rowVars, evQueue, evAdmins, evChannels, evMade, workVars, evFeed>>
Subscribed(u, T) == {s \in evSubs : s.user # u} \cup [user : {u}, type : T]

\* Replaces the whole set; only administrators may name admin types.
HandlePutSubscriptions(u, T) == /\ T \cap AdminTypes = {} \/ u \in evAdmins
                                /\ SetSubs(Subscribed(u, T))

SeedDefaultSubscriptions(u) == IF u \in evAdmins THEN DefaultOn ELSE DefaultOn \ AdminTypes
HandleResetSubscriptions(u) == SetSubs(Subscribed(u, SeedDefaultSubscriptions(u)))

HandleCreateChannel(u) ==
    /\ evMade < MaxChannels /\ evMade' = evMade + 1
    /\ evChannels' = evChannels \cup {[id |-> evMade + 1, user |-> u]}
    /\ UNCHANGED <<rowVars, evQueue, evAdmins, evSubs, workVars, evFeed>>

HandleDeleteChannel(c) ==
    /\ evChannels' = evChannels \ {c}
    /\ UNCHANGED <<rowVars, evQueue, evAdmins, evSubs, evMade, workVars, evFeed>>

\* An administrator changes the flag of another user: the subscriptions stay as they are.
SetAdmin(u) ==
    /\ evAdmins' = IF u \in evAdmins THEN evAdmins \ {u} ELSE evAdmins \cup {u}
    /\ UNCHANGED <<rowVars, evQueue, evSubs, evChannels, evMade, workVars, evFeed>>

---------------------------------------------------------------------------
(* Delivery. *)

resolveRecipients(e) ==
    LET hears == {u \in Members : [user |-> u, type |-> e.type] \in evSubs}
    IN  IF e.type \in AdminTypes THEN hears \cap evAdmins ELSE hears \cap {e.actor}

SetWork(w, r) == evWork' = [evWork EXCEPT ![w] = r]
OnlyWork == UNCHANGED <<rowVars, evQueue, settingVars, evFeed>>

\* An event pruned meanwhile is not delivered.
BeginWork(w, id) ==
    /\ evWork[w].pc = "idle" /\ id \in evQueue
    /\ evQueue' = evQueue \ {id}
    /\ \/ /\ \E e \in evRows :
               /\ e.id = id
               /\ LET U == resolveRecipients(e)
                  IN  SetWork(w, [NoWork EXCEPT !.pc = "user", !.event = id, !.users = U, !.owed = ChannelsOf(U)])
          /\ UNCHANGED evFaults
       \/ /\ \A e \in evRows : e.id # id
          /\ UNCHANGED <<evWork, evFaults>>
       \/ EventFault /\ UNCHANGED evWork
    /\ UNCHANGED <<rowVars, settingVars, evTried, evTwice, evFeed>>

\* A user whose channels cannot be read is passed over.
loadChannels(w, u) ==
    LET r == evWork[w]
    IN  /\ r.pc = "user" /\ u \in r.users
        /\ \/ /\ SetWork(w, [r EXCEPT !.pc = "send", !.users = @ \ {u}, !.chans = ChannelsOf({u})])
              /\ UNCHANGED evFaults
           \/ /\ EventFault
              /\ SetWork(w, [r EXCEPT !.users = @ \ {u}, !.owed = {c \in @ : c.user # u}])
        /\ OnlyWork /\ UNCHANGED <<evTried, evTwice>>

Attempt(e, c) ==
    /\ evTried' = evTried \cup {<<e, c.id>>}
    /\ evTwice' = IF <<e, c.id>> \in evTried THEN evTwice \cup {<<e, c.id>>} ELSE evTwice

\* One channel after another; a failure is logged and the next one has its turn.
Send(w, c) ==
    LET r == evWork[w]
    IN  /\ r.pc = "send" /\ c \in r.chans
        /\ Attempt(r.event, c)
        /\ SetWork(w, [r EXCEPT !.chans = @ \ {c}])
        /\ \/ UNCHANGED evFaults
           \/ EventFault
        /\ OnlyWork

NextRecipient(w) ==
    /\ evWork[w].pc = "send" /\ evWork[w].chans = {}
    /\ SetWork(w, [evWork[w] EXCEPT !.pc = "user"])
    /\ OnlyWork /\ UNCHANGED <<evFaults, evTried, evTwice>>

EndWork(w) ==
    /\ \/ /\ evWork[w].pc = "user" /\ evWork[w].users = {}
          /\ SetWork(w, [evWork[w] EXCEPT !.pc = "done"])
       \/ evWork[w].pc = "done" /\ SetWork(w, NoWork)
    /\ OnlyWork /\ UNCHANGED <<evFaults, evTried, evTwice>>

\* Mutant: the task has a second attempt.
WorkerDiesAndRetries(w) ==
    /\ evWork[w].pc # "idle" /\ EventFault
    /\ SetWork(w, NoWork)
    /\ evQueue' = evQueue \cup {evWork[w].event}
    /\ UNCHANGED <<rowVars, settingVars, evTried, evTwice, evFeed>>

\* A task has one attempt: the queue discards the one whose process died.
WorkerDies(w) ==
    /\ evWork[w].pc # "idle" /\ EventFault
    /\ SetWork(w, NoWork)
    /\ OnlyWork /\ UNCHANGED <<evTried, evTwice>>

---------------------------------------------------------------------------
(* The activity feed. *)

Below(e, k)  == e.at < k[1] \/ (e.at = k[1] /\ e.id < k[2])
Newest(S, n) == {e \in S : Cardinality({f \in S : Below(e, <<f.at, f.id>>)}) < n}
Oldest(S)    == CHOOSE e \in S : \A f \in S : ~Below(f, <<e.at, e.id>>)

\* Mutant: the cursor is the extra row that shows there is another page.
CursorExtra(S) == LET e == Oldest(Newest(S, FeedLimit + 1)) IN <<e.at, e.id>>

\* The place of the last row of the page.
NextCursor(S)  == LET e == Oldest(Newest(S, FeedLimit)) IN <<e.at, e.id>>

\* HandleList of the first page.
OpenFeed(T) ==
    /\ evFeed.pc = "closed"
    /\ evFeed' = [NoFeed EXCEPT !.pc = "more", !.types = T, !.cursor = <<MaxEventTime + 1, 0>>,
                                !.stayed = {e \in evRows : e.type \in T}]
    /\ UNCHANGED <<rowVars, evQueue, settingVars, workVars>>

\* One row more than the page holds is asked for: it shows that there is a next page.
HandleList ==
    /\ evFeed.pc = "more"
    /\ LET S    == {e \in evRows : e.type \in evFeed.types /\ Below(e, evFeed.cursor)}
           page == Newest(S, FeedLimit)
           more == Cardinality(Newest(S, FeedLimit + 1)) > FeedLimit
       IN  evFeed' = [evFeed EXCEPT !.pc = IF more THEN "more" ELSE "end",
                                    !.cursor = IF more THEN NextCursor(S) ELSE @,
                                    !.again = @ \/ page \cap evFeed.seen # {},
                                    !.seen = @ \cup page]
    /\ UNCHANGED <<rowVars, evQueue, settingVars, workVars>>

CloseFeed ==
    /\ evFeed.pc = "end" /\ evFeed' = NoFeed
    /\ UNCHANGED <<rowVars, evQueue, settingVars, workVars>>

---------------------------------------------------------------------------
EventNext ==
    \/ \E type \in UserTypes, u \in Members, queued \in BOOLEAN : Emit(type, u, queued)
    \/ \E type \in AdminTypes, queued \in BOOLEAN : Emit(type, 0, queued)
    \/ EventTick
    \/ PruneEvents

DeliverNext ==
    \/ \E u \in Members :
          \/ \E T \in SUBSET EventTypes : HandlePutSubscriptions(u, T)
          \/ HandleResetSubscriptions(u)
          \/ HandleCreateChannel(u)
          \/ SetAdmin(u)
    \/ \E c \in evChannels : HandleDeleteChannel(c)
    \/ \E w \in NotifyWorkers :
          \/ \E id \in evQueue : BeginWork(w, id)
          \/ \E u \in evWork[w].users : loadChannels(w, u)
          \/ \E c \in evWork[w].chans : Send(w, c)
          \/ NextRecipient(w)
          \/ EndWork(w)
          \/ WorkerDies(w)

FeedNext ==
    \/ \E T \in SUBSET EventTypes : OpenFeed(T)
    \/ HandleList
    \/ CloseFeed

NotifyNext == EventNext \/ DeliverNext \/ FeedNext

NotifySpec == NotifyInit /\ [][NotifyNext]_notifyVars

---------------------------------------------------------------------------
\* A channel hears of an event at most once, whatever dies, and when a worker has finished,
\* every channel that a recipient had all the while was tried, though others failed
\* (NotifyWorker.Work: "Per-channel failures are logged and swallowed").
TriedOnce ==
    /\ evTwice = {}
    /\ \A w \in NotifyWorkers :
         evWork[w].pc = "done" =>
            \A c \in evWork[w].owed \cap evChannels : <<evWork[w].event, c.id>> \in evTried

\* Whoever pages to the end of the feed has seen every event that was there all the while
\* and none twice, though events arrive and are pruned and several carry one time.
FeedComplete ==
    /\ ~evFeed.again
    /\ evFeed.pc = "end" => evFeed.stayed \subseteq evFeed.seen
=============================================================================
