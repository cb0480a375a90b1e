------------------------------ MODULE JobViews ------------------------------
(***************************************************************************)
(* What the user is told about jobs: the status that a client polls while  *)
(* jobs of one type start, end, are retried and deleted, and the lists,    *)
(* pages and counts of a job's items.  A poll makes two queries, each with *)
(* its own snapshot.  A list is sorted by one column and nothing more, so  *)
(* that rows with one value there come in any order, each time anew.       *)
(***************************************************************************)
EXTENDS Integers, FiniteSets

CONSTANTS
    JobIds,      \* ids in the order of created_at
    MaxTime,     \* bound on the clock that stamps completed_at
    RowIds,      \* rows of job_items
    BatchOf,     \* their created_at: rows inserted by one transaction share it
    JobItemRows, \* the contents a row of job_items may have, titles numbered in their order
    ItemsPerPage

ItemStatuses == {"pending", "processing", "completed", "pending_review", "skipped", "failed", "cancelled"}

ASSUME JobViewsAssumption ==
    /\ MaxTime \in Nat /\ ItemsPerPage \in Nat \ {0}
    /\ JobIds \subseteq Nat \ {0} /\ IsFiniteSet(JobIds)
    /\ IsFiniteSet(RowIds) /\ BatchOf \in [RowIds -> Nat]
    /\ JobItemRows \subseteq [status : ItemStatuses, title : Nat, pools : BOOLEAN, child : BOOLEAN]

VARIABLES
    vwJobs,    \* jobs of one user and type: status, started_at, completed_at (0: NULL)
    vwClock,   \* now()
    vwPoll,    \* the poll in progress: what its first query found, if there is one
    vwSeen,    \* the answers to the last two polls
    vwItems    \* the items of one job

viewVars == <<vwJobs, vwClock, vwPoll, vwSeen, vwItems>>

NoJob        == 0
IsActive(j)   == vwJobs[j].status \in {"pending", "processing"}
IsTerminal(j) == vwJobs[j].status \in {"completed", "failed", "cancelled"}
Answer(active, last) == [active |-> active, last |-> last]

SmallestOf(S) == CHOOSE x \in S : \A y \in S : x <= y
LargestOf(S)  == CHOOSE x \in S : \A y \in S : x >= y

ViewsInit ==
    /\ vwJobs = [j \in JobIds |-> [status |-> "absent", started_at |-> 0, completed_at |-> 0]]
    /\ vwClock = 1
    /\ vwPoll = <<>>
    /\ vwSeen = <<Answer(NoJob, NoJob), Answer(NoJob, NoJob)>>
    /\ vwItems \in [RowIds -> JobItemRows]

---------------------------------------------------------------------------
(* The jobs meanwhile. *)

\* Any admission: a new row, newer than every other.
JobStarts(j) ==
    /\ vwJobs[j].status = "absent"
    /\ \A k \in JobIds : vwJobs[k].status # "absent" => k < j
    /\ vwJobs' = [vwJobs EXCEPT ![j].status = "pending"]
    /\ UNCHANGED <<vwClock, vwPoll, vwSeen, vwItems>>

\* The worker of the job; an export starts again when it is tried again.
JobRuns(j) ==
    /\ IsActive(j)
    /\ vwJobs' = [vwJobs EXCEPT ![j].status = "processing", ![j].started_at = vwClock]
    /\ UNCHANGED <<vwClock, vwPoll, vwSeen, vwItems>>

\* finalizeJobCompleted, HandleCancelJob, the stale rules: each stamps completed_at.
JobEnds(j, status) ==
    /\ IsActive(j) /\ vwClock < MaxTime
    /\ vwJobs' = [vwJobs EXCEPT ![j].status = status, ![j].completed_at = vwClock]
    /\ vwClock' = vwClock + 1
    /\ UNCHANGED <<vwPoll, vwSeen, vwItems>>

\* HandleRetryFailed makes the row active again and leaves completed_at.
JobReopened(j) ==
    /\ IsTerminal(j)
    /\ vwJobs' = [vwJobs EXCEPT ![j].status = "processing"]
    /\ UNCHANGED <<vwClock, vwPoll, vwSeen, vwItems>>

HandleDeleteJob(j) ==
    /\ IsTerminal(j)
    /\ vwJobs' = [vwJobs EXCEPT ![j].status = "deleted"]
    /\ UNCHANGED <<vwClock, vwPoll, vwSeen, vwItems>>

\* Workers and handlers write the items of a job.
ItemWritten(r) ==
    /\ vwItems' \in [RowIds -> JobItemRows]
    /\ \A s \in RowIds \ {r} : vwItems'[s] = vwItems[s]
    /\ UNCHANGED <<vwJobs, vwClock, vwPoll, vwSeen>>

---------------------------------------------------------------------------
(* HandleJobTypeStatus. *)

NewestActive ==
    LET act == {j \in JobIds : IsActive(j)} IN IF act = {} THEN NoJob ELSE LargestOf(act)

\* Mutant: the most recently created job, whenever it ended.
LastCreated ==
    LET ended == {j \in JobIds : IsTerminal(j)} IN IF ended = {} THEN NoJob ELSE LargestOf(ended)

LastEnded ==
    LET ended  == {j \in JobIds : IsTerminal(j)}
        newest == {j \in ended : \A k \in ended : vwJobs[k].completed_at <= vwJobs[j].completed_at}
    IN  IF ended = {} THEN NoJob ELSE LargestOf(newest)

\* First the active job, then the one that ended last.
HandleJobTypeStatus ==
    \/ /\ vwPoll = <<>>
       /\ vwPoll' = <<Answer(NewestActive, NoJob)>>
       /\ UNCHANGED <<vwJobs, vwClock, vwSeen, vwItems>>
    \/ /\ vwPoll # <<>>
       /\ vwSeen' = <<vwSeen[2], [vwPoll[1] EXCEPT !.last = LastEnded]>>
       /\ vwPoll' = <<>>
       /\ UNCHANGED <<vwJobs, vwClock, vwItems>>

ViewsNext ==
    \/ \E j \in JobIds : JobStarts(j) \/ JobRuns(j) \/ JobReopened(j) \/ HandleDeleteJob(j)
                         \/ \E s \in {"completed", "failed", "cancelled"} : JobEnds(j, s)
    \/ HandleJobTypeStatus
    \/ \E r \in RowIds : ItemWritten(r)

ViewsSpec == ViewsInit /\ [][ViewsNext]_viewVars

---------------------------------------------------------------------------
(* Reads of one snapshot. *)

WithItemStatus(S) == {r \in RowIds : vwItems[r].status \in S}
ListedItems  == {r \in RowIds : ~vwItems[r].pools}
Titles(S) == {vwItems[r].title : r \in S}
CeilDiv(n, d) == (n + d - 1) \div d
ListPages(rows) == CeilDiv(Cardinality(rows), ItemsPerPage)

\* Of rows sorted by key, and where keys are equal by tie, those of one page.
Place(rows, key, tie, r) ==
    Cardinality({s \in rows : key[s] < key[r] \/ (key[s] = key[r] /\ tie[s] < tie[r])})

PageOf(rows, key, tie, page) == {r \in rows : Place(rows, key, tie, r) \div ItemsPerPage = page - 1}

\* The rows with r's key stand on one page, whatever their order.
GroupOnPage(rows, key, r) ==
    LET first == Cardinality({s \in rows : key[s] < key[r]})
        last  == Cardinality({s \in rows : key[s] <= key[r]}) - 1
    IN  first \div ItemsPerPage = last \div ItemsPerPage

\* Orders of rows among themselves: what their column leaves open.
TieBreaks(rows) ==
    {tie \in [rows -> 1..Cardinality(rows)] : \A r, s \in rows : tie[r] = tie[s] => r = s}

\* One page of a set of distinct keys.
KeysOnPage(keys, page) ==
    {k \in keys : LET before == Cardinality({m \in keys : m < k})
                  IN  (page - 1) * ItemsPerPage <= before /\ before < page * ItemsPerPage}

\* Mutant: whatever is settled counts as progress, failures too.
JobItemCountsSettled ==
    LET done == Cardinality(WithItemStatus({"completed", "skipped", "failed"})) IN
    [by      |-> [s \in ItemStatuses |-> Cardinality(WithItemStatus({s}))],
     total   |-> Cardinality(RowIds),
     percent |-> IF RowIds = {} THEN 0 ELSE (done * 100) \div Cardinality(RowIds)]

\* jobItemCounts: the synthetic pools item counts, as completed.
JobItemCounts ==
    LET done == Cardinality(WithItemStatus({"completed", "skipped"})) IN
    [by      |-> [s \in ItemStatuses |-> Cardinality(WithItemStatus({s}))],
     total   |-> Cardinality(RowIds),
     percent |-> IF RowIds = {} THEN 0 ELSE (done * 100) \div Cardinality(RowIds)]

\* HandleListJobs: the rows with the given status ("": any), sorted by a column
\* either way.  A NULL is greater than any date, and the jobs are of one type.
SortColumns == {"created_at", "started_at", "completed_at", "job_type", "status"}

StatusOrder == [cancelled |-> 1, completed |-> 2, failed |-> 3, pending |-> 4, processing |-> 5]

Stamp(time) == IF time = 0 THEN MaxTime + 1 ELSE time

Column(sort, j) ==
    CASE sort = "created_at"   -> j
      [] sort = "started_at"   -> Stamp(vwJobs[j].started_at)
      [] sort = "completed_at" -> Stamp(vwJobs[j].completed_at)
      [] sort = "job_type"     -> 0
      [] sort = "status"       -> StatusOrder[vwJobs[j].status]

JobsWith(status) ==
    {j \in JobIds : vwJobs[j].status \notin {"absent", "deleted"} /\ status \in {"", vwJobs[j].status}}

JobKeys(status, sort, dir) ==
    [j \in JobsWith(status) |-> IF dir = "asc" THEN Column(sort, j) ELSE -Column(sort, j)]

\* total is Cardinality(JobsWith(status)), total_pages ListPages of the same rows.
ListJobs(status, sort, dir, page, tie) ==
    PageOf(JobsWith(status), JobKeys(status, sort, dir), tie, page)

HandleJobsSummary ==
    [running |-> Cardinality({j \in JobIds : IsActive(j)}),
     failed  |-> Cardinality({j \in JobIds : vwJobs[j].status = "failed"})]

\* HandleRecentJobs: completed and failed, not cancelled, newest first.
HandleRecentJobs(limit) ==
    LET rows == {j \in JobIds : vwJobs[j].status \in {"completed", "failed"}}
    IN  {j \in rows : Cardinality({k \in rows : k > j}) < limit}

\* HandlePendingReviewCount: no children, every row.
HandlePendingReviewCount ==
    Cardinality({r \in WithItemStatus({"pending_review"}) : ~vwItems[r].child})

\* Rows of one title are shown, and counted, once.
ReviewPageCount == ListPages(Titles(WithItemStatus({"pending_review"})))

\* Which of several rows of a title DISTINCT ON keeps is not determined.
ReviewPage(page) ==
    KeysOnPage(Titles(WithItemStatus({"pending_review"})), page)

\* The other statuses ("": any), without the pools item, oldest batch first.
ItemsListed(status) == {r \in ListedItems : status \in {"", vwItems[r].status}}

ItemPage(status, page, tie) == PageOf(ItemsListed(status), BatchOf, tie, page)

---------------------------------------------------------------------------
(* "The UI can poll continuously and detect completion via the             *)
(* active_job_id non-null -> null transition": the answer with the null    *)
(* names the job that ended since, or one that ended later, although the   *)
(* two queries run at different moments.  (Only a retry that comes between *)
(* the two hides it, and then the job is active again.)                    *)
PollSeesCompletion ==
    [][LET was == vwSeen[2].active
           now == vwSeen'[2]
       IN  vwPoll # <<>> /\ vwPoll' = <<>> /\ was # NoJob /\ now.active = NoJob /\ IsTerminal(was)
             => now.last # NoJob /\ vwJobs[now.last].completed_at >= vwJobs[was].completed_at]_viewVars

(* Every title under review is on exactly one page, and no page is empty:  *)
(* a user who works through the pages sees every question once.            *)
ReviewPagesCover ==
    LET titles == Titles(WithItemStatus({"pending_review"})) IN
    /\ \A t \in titles : Cardinality({p \in 1..ReviewPageCount : t \in ReviewPage(p)}) = 1
    /\ \A p \in 1..ReviewPageCount : ReviewPage(p) # {}

(* The views of one state agree: the summary counts what the list shows,   *)
(* recent jobs are listed, the items listed and the synthetic one make up   *)
(* the progress, and it reads 100 only when nothing is left to do, to ask   *)
(* or to retry.                                                             *)
CountsAgree ==
    LET shown(s) == Cardinality(JobsWith(s))
    IN  /\ HandleJobsSummary = [running |-> shown("pending") + shown("processing"), failed |-> shown("failed")]
        /\ HandleRecentJobs(shown("")) = {j \in JobIds : vwJobs[j].status \in {"completed", "failed"}}
        /\ JobItemCounts.total = Cardinality(ItemsListed("")) + Cardinality(RowIds \ ListedItems)
        /\ JobItemCounts.percent = 100
               => HandlePendingReviewCount = 0 /\ WithItemStatus(ItemStatuses \ {"completed", "skipped"}) = {}

(* The pages of the job list, by whatever filter and column, and of the    *)
(* items of a job show a row once, whatever order the query for each page  *)
(* gives to the rows that one column does not tell apart: but for a row    *)
(* whose equals in that column do not all fit on the page.                 *)
PagesAgree ==
    /\ \A status \in {""} \cup DOMAIN StatusOrder :
          LET rows == JobsWith(status)
              ties == TieBreaks(rows)
          IN  \A j \in rows, sort \in SortColumns, dir \in {"asc", "desc"} :
                 GroupOnPage(rows, JobKeys(status, sort, dir), j) =>
                 \E q \in 1..ListPages(rows) : \A p \in 1..ListPages(rows), tie \in ties :
                    j \in ListJobs(status, sort, dir, p, tie) <=> p = q
    /\ \A status \in {""} \cup (ItemStatuses \ {"pending_review"}) :
          LET rows == ItemsListed(status)
              ties == TieBreaks(rows)
          IN  \A r \in rows : GroupOnPage(rows, BatchOf, r) =>
                 \E q \in 1..ListPages(rows) : \A p \in 1..ListPages(rows), tie \in ties :
                    r \in ItemPage(status, p, tie) <=> p = q

(* What the user interface is told of one state of the jobs fits together. *)
ViewsAgree == ReviewPagesCover /\ PagesAgree /\ CountsAgree
=============================================================================
