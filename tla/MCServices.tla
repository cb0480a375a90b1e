------------------------------ MODULE MCServices ------------------------------
(* An instance for TLC of the services around the collection: one behaviour   *)
(* backs up and restores, or changes accounts, or delivers notifications, or  *)
(* pages through the event feed, or exports a library, or imports the file,   *)
(* or runs the jobs that a client polls and lists, or the items of a job.     *)
EXTENDS Restore, Accounts, Notify, Exports, JobViews, TLC

VARIABLE part

\* Libraries to export: a copy per storefront or without one, platforms that
\* the destination does not know, tags that differ in case, a pool's queue.
Key(p, s)               == [platform |-> p, storefront |-> s]
Held(own, hours)        == [own |-> own, hours |-> hours]
Game(st, w, rows, tags) == [status |-> st, wish |-> w, rows |-> rows, tags |-> tags]
Pool(order, members)    == [order |-> order, members |-> members]
Library(games, pools)   == [games |-> games, pools |-> pools]

TwoGames == Library(
    1 :> Game("not_started", FALSE,
              Key("pc", "steam") :> Held(1, 2) @@ Key("pc", NoStorefront) :> Held(2, 0), {"RPG"})
    @@ 2 :> Game("completed", FALSE,
                 Key("pc", "odd") :> Held(1, 1) @@ Key("amiga", "steam") :> Held(1, 1), {"rpg", "RPG", "fun"}),
    "next" :> Pool(3, 1 :> 0 @@ 2 :> 1) @@ "later" :> Pool(1, 1 :> -1))
Wished == Library(1 :> Game("not_started", TRUE, <<>>, {}), "next" :> Pool(0, 1 :> -1))
Mixture == Library(1 :> Game("in_progress", TRUE, <<>>, {"rpg"})
                   @@ 2 :> Game("not_started", FALSE, Key("pc", "steam") :> Held(2, 0), {"RPG"}), <<>>)

NoGames    == Library(<<>>, <<>>)
OwnedThere == Library(1 :> Game("dropped", FALSE, Key("pc", "steam") :> Held(2, 1), {"rpg"}),
                      "next" :> Pool(0, 1 :> 5))

LibrarySet == {TwoGames, Wished, Mixture}
CopySet    == {NoGames, OwnedThere}
LowerCase  == "RPG" :> "rpg" @@ "rpg" :> "rpg" @@ "fun" :> "fun"

\* Items of a job: games of two titles, and the synthetic item of the pools.
ItemRows ==
    [status : {"pending_review", "completed", "failed"}, title : {1, 2}, pools : BOOLEAN, child : {FALSE}]
FailedRow == [status |-> "failed", title |-> 1, pools |-> TRUE, child |-> FALSE]

\* Two of three items in one batch.
Batches == <<1, 1, 2>>

vars == <<part, backupVars, accountVars, notifyVars, exportVars, viewVars>>

Init ==
    /\ part \in {"backup", "accounts", "notify", "feed", "export", "import", "jobs", "lists", "items"}
    /\ RestoreInit /\ (part # "backup" => bkDb = 1 /\ bkDump)
    /\ AccountsInit
    /\ NotifyInit /\ (part # "notify" => evAdmins = {})
    /\ ExportsInit /\ (part # "import" => exCopy = NoGames /\ exLib = Wished)
    /\ ViewsInit /\ vwItems = [r \in RowIds |-> FailedRow]

BackupStep ==
    /\ part = "backup" /\ RestoreNext
    /\ UNCHANGED <<part, accountVars, notifyVars, exportVars, viewVars>>
AccountStep ==
    /\ part = "accounts" /\ AccountsNext
    /\ UNCHANGED <<part, backupVars, notifyVars, exportVars, viewVars>>

\* One event, two members' channels.
NotifyStep ==
    /\ part = "notify" /\ (EventNext \/ DeliverNext)
    /\ evUsed' \subseteq {1} /\ evAdmins' \subseteq {1} /\ [id |-> 1, user |-> 2] \notin evChannels'
    /\ UNCHANGED <<part, backupVars, accountVars, exportVars, viewVars>>

\* Three events that nobody is to be told of.
FeedStep ==
    /\ part = "feed" /\ (EventNext \/ FeedNext) /\ evQueue' = {}
    /\ UNCHANGED <<part, backupVars, accountVars, exportVars, viewVars>>

\* Two exports of one library; or one, imported by two workers.
ExportPart ==
    /\ part = "export" /\ ExportsNext
    /\ (exJobs'[2].st # "none" => exJobs'[1].st # "none")
    /\ UNCHANGED <<part, backupVars, accountVars, notifyVars, viewVars>>
    /\ targetVars' = targetVars /\ exLib' = exLib
ImportPart ==
    /\ part = "import" /\ (ImportStep \/ ExportStep(1) \/ \E L \in Libraries : EditLibrary(L))
    /\ exFaults' = 0 /\ exClock' = 0
    /\ UNCHANGED <<part, backupVars, accountVars, notifyVars, viewVars>>

\* A client polls while two jobs are active, started or not; or lists are read of three,
\* of which none is deleted: lists do not tell such a row from one that never was.
JobStep ==
    /\ part = "jobs" /\ ViewsNext
    /\ vwItems' = vwItems /\ vwJobs'[3] = vwJobs[3]
    /\ \A j \in JobIds : vwJobs'[j].started_at = vwJobs[j].started_at
    /\ UNCHANGED <<part, backupVars, accountVars, notifyVars, exportVars>>
ListStep ==
    /\ part = "lists" /\ ViewsNext
    /\ vwItems' = vwItems /\ vwPoll' = vwPoll
    /\ \A j \in JobIds : vwJobs'[j].status # "deleted"
    /\ UNCHANGED <<part, backupVars, accountVars, notifyVars, exportVars>>
ItemStep ==
    /\ part = "items" /\ ViewsNext /\ vwJobs' = vwJobs /\ vwPoll' = vwPoll
    /\ UNCHANGED <<part, backupVars, accountVars, notifyVars, exportVars>>

Next == BackupStep \/ AccountStep \/ NotifyStep \/ FeedStep \/ ExportPart \/ ImportPart
        \/ JobStep \/ ListStep \/ ItemStep

Spec == Init /\ [][Next]_vars
=============================================================================
