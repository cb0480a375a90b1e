--------------------------- MODULE StoreConnections ---------------------------
(***************************************************************************)
(* The credentials of one user for one storefront: connected, replaced and *)
(* cleared by the handlers of /sync/<storefront>/connection while a sync   *)
(* that loaded an earlier version is under way.  GOG's token is exchanged  *)
(* for a new one on every sync and Epic's session lives in a directory     *)
(* that legendary rewrites, so a sync of those two stores also writes.     *)
(***************************************************************************)
EXTENDS Naturals

CONSTANTS
    StoreKinds,    \* "plain" (steam, playstation-store, humble-bundle), "gog", "epic"
    Frequencies,   \* values of user_sync_configs.frequency
    MaxGrants,     \* bound: authorizations the user obtains from the store
    MaxRotations,  \* bound: versions of the token of one authorization
    MaxConnFaults  \* bound: deaths of the server and failed writes

ASSUME ConnectionsAssumption ==
    /\ StoreKinds \subseteq {"plain", "gog", "epic"}
    /\ {MaxGrants, MaxRotations, MaxConnFaults} \subseteq Nat
    /\ "manual" \in Frequencies

VARIABLES
    cnKind,   \* which store this is
    cnRow,    \* the row of user_sync_configs
    cnStore,  \* the store's side: the version of each authorization's token it accepts
    cnDir,    \* Epic: legendary's session in the user's working directory
    cnReq,    \* a connect or disconnect in progress
    cnRun,    \* DispatchSyncWorker.Work in progress
    cnTold,   \* the user was notified of the expiry that the row shows (history)
    cnFaults, \* bound reached so far
    cnMixed   \* an Epic request and a sync used the directory at once (history)

connVars == <<cnKind, cnRow, cnStore, cnDir, cnReq, cnRun, cnTold, cnFaults, cnMixed>>

Grants  == 1..MaxGrants
NoCreds == [grant |-> 0, version |-> 0]

NoRow == [there |-> FALSE, freq |-> "manual", creds |-> NoCreds, error |-> FALSE, key |-> TRUE]

ConnIdle == [pc |-> "idle", creds |-> NoCreds]
RunIdle  == [pc |-> "idle", creds |-> NoCreds, prior |-> FALSE, out |-> "none"]

ConnectionsInit ==
    /\ cnKind \in StoreKinds
    /\ cnRow = NoRow /\ cnDir = NoCreds
    /\ cnStore = [g \in Grants |-> 0]
    /\ cnReq = ConnIdle /\ cnRun = RunIdle
    /\ cnTold = FALSE /\ cnFaults = 0 /\ cnMixed = FALSE

\* The store accepts the credentials.
Accepts(c) == c # NoCreds /\ cnStore[c.grant] = c.version

Fault == cnFaults < MaxConnFaults /\ cnFaults' = cnFaults + 1

\* Epic's handlers and syncs share the directory.
Mixes(other) == cnMixed' = (cnMixed \/ (cnKind = "epic" /\ other.pc # "idle"))

---------------------------------------------------------------------------
(* The handlers. *)

\* The code, key or cookie is checked with the store first; a rejected one ends the
\* request before anything is written.
Authorize(g) ==
    /\ cnReq.pc = "idle" /\ cnStore[g] = 0
    /\ \A h \in Grants : h < g => cnStore[h] # 0
    /\ cnStore' = [cnStore EXCEPT ![g] = 1]
    /\ Mixes(cnRun)

\* Steam, PlayStation and Humble: the secret that was checked is what is kept.
ConnectPlain(g) ==
    /\ cnKind = "plain"
    /\ Authorize(g)
    /\ cnReq' = [pc |-> "persist", creds |-> [grant |-> g, version |-> 1]]
    /\ UNCHANGED <<cnKind, cnRow, cnDir, cnRun, cnTold, cnFaults>>

\* The code is exchanged for the refresh token that is kept.
HandleGOGConnect(g) ==
    /\ cnKind = "gog"
    /\ Authorize(g)
    /\ cnReq' = [pc |-> "persist", creds |-> [grant |-> g, version |-> 1]]
    /\ UNCHANGED <<cnKind, cnRow, cnDir, cnRun, cnTold, cnFaults>>

\* Legendary leaves the new session in the directory.
HandleEpicGamesStoreConnect(g) ==
    /\ cnKind = "epic"
    /\ Authorize(g)
    /\ cnDir' = [grant |-> g, version |-> 1]
    /\ cnReq' = [pc |-> "capture", creds |-> NoCreds]
    /\ UNCHANGED <<cnKind, cnRow, cnRun, cnTold, cnFaults>>

\* Authenticate reads the session back: whatever the directory holds by now.
AuthenticateCaptures ==
    /\ cnReq.pc = "capture"
    /\ cnReq' = IF cnDir = NoCreds THEN ConnIdle ELSE [pc |-> "persist", creds |-> cnDir]
    /\ UNCHANGED <<cnKind, cnRow, cnStore, cnDir, cnRun, cnTold, cnFaults, cnMixed>>

\* persistStorefrontCredentials: the upsert keeps the frequency and clears the flag.
PersistCredentials ==
    /\ cnReq.pc = "persist"
    /\ cnRow' = [cnRow EXCEPT !.there = TRUE, !.creds = cnReq.creds, !.error = FALSE,
                              !.key = TRUE]
    /\ cnReq' = ConnIdle /\ cnTold' = FALSE
    /\ UNCHANGED <<cnKind, cnStore, cnDir, cnRun, cnFaults, cnMixed>>

\* The row stays, with its flag; Epic's handler removes the directory next.
StartDisconnect ==
    /\ cnReq.pc = "idle" /\ cnRow.there
    /\ cnRow' = [cnRow EXCEPT !.creds = NoCreds]
    /\ cnReq' = IF cnKind = "epic" THEN [ConnIdle EXCEPT !.pc = "cleanup"] ELSE ConnIdle
    /\ Mixes(cnRun)
    /\ UNCHANGED <<cnKind, cnStore, cnDir, cnRun, cnTold, cnFaults>>

Cleanup ==
    /\ cnReq.pc = "cleanup"
    /\ cnDir' = NoCreds
    /\ cnReq' = ConnIdle
    /\ UNCHANGED <<cnKind, cnRow, cnStore, cnRun, cnTold, cnFaults, cnMixed>>

\* An upsert of the frequency alone, on a row that may not exist yet.
HandleUpdateConfig(f) ==
    /\ cnRow' = [cnRow EXCEPT !.there = TRUE, !.freq = f]
    /\ UNCHANGED <<cnKind, cnStore, cnDir, cnReq, cnRun, cnTold, cnFaults, cnMixed>>

---------------------------------------------------------------------------
(* A sync: what DispatchSyncWorker.Work does with the credentials. *)

\* The row is read once.  Without a row the job fails; without credentials, or with
\* some that the current key does not decrypt, that is a credential error.
LoadConfig ==
    /\ cnRun.pc = "idle" /\ cnRow.there
    /\ cnRun' = [pc |-> IF cnRow.creds = NoCreds \/ ~cnRow.key THEN "reject"
                        ELSE CASE cnKind = "gog"  -> "refresh"
                               [] cnKind = "epic" -> "restore"
                               [] OTHER           -> "fetch",
                 creds |-> cnRow.creds, prior |-> cnRow.error, out |-> "none"]
    /\ Mixes(cnReq)
    /\ UNCHANGED <<cnKind, cnRow, cnStore, cnDir, cnReq, cnTold, cnFaults>>

Goto(label) == cnRun' = [cnRun EXCEPT !.pc = label]

Rotated(c) == [c EXCEPT !.version = @ + 1]

\* GOG: RefreshToken; the store may answer with a new token and forget the old one.
RefreshToken ==
    /\ cnRun.pc = "refresh"
    /\ \/ /\ Accepts(cnRun.creds) /\ cnRun.creds.version < MaxRotations
          /\ cnStore' = [cnStore EXCEPT ![cnRun.creds.grant] = @ + 1]
          /\ cnRun' = [cnRun EXCEPT !.pc = "keep", !.creds = Rotated(@)]
       \/ Accepts(cnRun.creds) /\ Goto("keep") /\ UNCHANGED cnStore
       \/ ~Accepts(cnRun.creds) /\ Goto("reject") /\ UNCHANGED cnStore
       \/ cnRun' = RunIdle /\ UNCHANGED cnStore
    /\ UNCHANGED <<cnKind, cnRow, cnDir, cnReq, cnTold, cnFaults, cnMixed>>

\* Mutant: the new token is kept once the library has been fetched.
KeepTokenLater ==
    /\ cnRun.pc = "keep"
    /\ \/ /\ cnRow' = [cnRow EXCEPT !.creds = cnRun.creds, !.key = TRUE]
          /\ Goto("finish")
       \/ cnRun' = RunIdle /\ UNCHANGED cnRow
    /\ UNCHANGED <<cnKind, cnStore, cnDir, cnReq, cnTold, cnFaults, cnMixed>>

\* onNewTokens: an UPDATE of the row, whatever it holds by now; a failure is logged.
KeepToken ==
    /\ cnRun.pc = "keep"
    /\ \/ cnRow' = [cnRow EXCEPT !.creds = cnRun.creds, !.key = TRUE] /\ UNCHANGED cnFaults
       \/ Fault /\ UNCHANGED cnRow
    /\ Goto("fetch")
    /\ UNCHANGED <<cnKind, cnStore, cnDir, cnReq, cnTold, cnMixed>>

\* Epic: RestoreSnapshot writes the session into the directory ...
RestoreSnapshot ==
    /\ cnRun.pc = "restore"
    /\ cnDir' = cnRun.creds
    /\ Goto("list")
    /\ UNCHANGED <<cnKind, cnRow, cnStore, cnReq, cnTold, cnFaults, cnMixed>>

\* ... legendary lists the library with the session it finds there, which it may renew;
\* an answer, a rejected login, or any other failure ...
ListLibrary ==
    /\ cnRun.pc = "list"
    /\ \/ /\ Accepts(cnDir) /\ cnDir.version < MaxRotations
          /\ cnStore' = [cnStore EXCEPT ![cnDir.grant] = @ + 1]
          /\ cnDir' = Rotated(cnDir)
       \/ UNCHANGED <<cnStore, cnDir>>
    /\ \E out \in (IF Accepts(cnDir) THEN {"answer"} ELSE {"login"}) \cup {"failure"} :
         cnRun' = [cnRun EXCEPT !.pc = "capture", !.creds = NoCreds, !.out = out]
    /\ UNCHANGED <<cnKind, cnRow, cnReq, cnTold, cnFaults, cnMixed>>

\* Where a listing ends.
AfterList ==
    CASE cnRun.out = "answer" -> Goto("finish")
      [] cnRun.out = "login"  -> Goto("reject")
      [] OTHER                -> cnRun' = RunIdle

\* ... and the session is captured "regardless of fetch error" and, unless the directory
\* is gone, written to the row.
CaptureSnapshot ==
    /\ cnRun.pc = "capture"
    /\ \/ /\ cnRow' = IF cnDir # NoCreds
                      THEN [cnRow EXCEPT !.creds = cnDir, !.key = TRUE] ELSE cnRow
          /\ UNCHANGED cnFaults
       \/ Fault /\ UNCHANGED cnRow
    /\ AfterList
    /\ UNCHANGED <<cnKind, cnStore, cnDir, cnReq, cnTold, cnMixed>>

\* The library streams: it does to the end, the store rejects the credentials (GOG's
\* library call reports a plain failure then), or the fetch fails.
Fetch ==
    /\ cnRun.pc = "fetch"
    /\ \/ Accepts(cnRun.creds) /\ Goto("finish")
       \/ cnKind = "plain" /\ ~Accepts(cnRun.creds) /\ Goto("reject")
       \/ cnRun' = RunIdle
    /\ UNCHANGED <<cnKind, cnRow, cnStore, cnDir, cnReq, cnTold, cnFaults, cnMixed>>

\* last_synced_at, and the flag is cleared.
Finish ==
    /\ cnRun.pc = "finish"
    /\ cnRow' = [cnRow EXCEPT !.error = FALSE]
    /\ cnTold' = FALSE
    /\ cnRun' = RunIdle
    /\ UNCHANGED <<cnKind, cnStore, cnDir, cnReq, cnFaults, cnMixed>>

\* Mutant: every failed sync notifies.
FlagAndAlwaysNotify ==
    /\ cnRun.pc = "reject"
    /\ cnRow' = [cnRow EXCEPT !.error = TRUE]
    /\ cnRun' = [cnRun EXCEPT !.pc = "notify"]
    /\ UNCHANGED <<cnKind, cnStore, cnDir, cnReq, cnTold, cnFaults, cnMixed>>

\* handleCredentialError: the flag first ...
FlagCredentialsError ==
    /\ cnRun.pc = "reject"
    /\ cnRow' = [cnRow EXCEPT !.error = TRUE]
    /\ cnRun' = IF cnRun.prior THEN RunIdle ELSE [cnRun EXCEPT !.pc = "notify"]
    /\ UNCHANGED <<cnKind, cnStore, cnDir, cnReq, cnTold, cnFaults, cnMixed>>

\* ... then one event, sync.auth_expired for its subscribers and sync.failed for others,
\* unless the row already showed the error when this sync loaded it.
NotifyExpired ==
    /\ cnRun.pc = "notify"
    /\ cnTold' = cnRow.error
    /\ cnRun' = RunIdle
    /\ UNCHANGED <<cnKind, cnRow, cnStore, cnDir, cnReq, cnFaults, cnMixed>>

---------------------------------------------------------------------------
(* The environment. *)

\* The user revokes the authorization at the store, or it lapses.
Revoke(g) ==
    /\ cnStore[g] \in 1..MaxRotations
    /\ cnStore' = [cnStore EXCEPT ![g] = MaxRotations + 1]
    /\ UNCHANGED <<cnKind, cnRow, cnDir, cnReq, cnRun, cnTold, cnFaults, cnMixed>>

\* The server comes back with another encryption key.
NewKey ==
    /\ cnReq.pc = "idle" /\ cnRun.pc = "idle" /\ cnRow.creds # NoCreds
    /\ Fault
    /\ cnRow' = [cnRow EXCEPT !.key = FALSE]
    /\ UNCHANGED <<cnKind, cnStore, cnDir, cnReq, cnRun, cnTold, cnMixed>>

CrashConnections ==
    /\ Fault
    /\ cnReq' = ConnIdle /\ cnRun' = RunIdle
    /\ UNCHANGED <<cnKind, cnRow, cnStore, cnDir, cnTold, cnMixed>>

ConnectionsNext ==
    \/ \E g \in Grants : ConnectPlain(g) \/ HandleGOGConnect(g)
                         \/ HandleEpicGamesStoreConnect(g) \/ Revoke(g)
    \/ AuthenticateCaptures \/ PersistCredentials \/ StartDisconnect \/ Cleanup
    \/ \E f \in Frequencies : HandleUpdateConfig(f)
    \/ LoadConfig \/ RefreshToken \/ KeepToken \/ Fetch
    \/ RestoreSnapshot \/ ListLibrary \/ CaptureSnapshot
    \/ Finish \/ FlagCredentialsError \/ NotifyExpired
    \/ NewKey \/ CrashConnections

ConnectionsSpec == ConnectionsInit /\ [][ConnectionsNext]_connVars

---------------------------------------------------------------------------
(* What the user sees. *)

\* loadConnectionStatus and serveConnectionStatus.
ConnectionStatus ==
    [connected |-> cnRow.creds # NoCreds,
     error     |-> cnRow.creds # NoCreds /\ (cnRow.error \/ ~cnRow.key)]

---------------------------------------------------------------------------
\* A rotated token is never lost: between syncs and requests, credentials shown as
\* connected and healthy are what the store accepts, whether or not the library could
\* be fetched with them.  Exceptions: a revoked authorization, a death of the server or
\* a failed write, and Epic's directory when a request and a sync used it at once.
TokensKept ==
    (cnReq.pc = "idle" /\ cnRun.pc = "idle" /\ ConnectionStatus.connected)
        => \/ Accepts(cnRow.creds) \/ ConnectionStatus.error
           \/ cnStore[cnRow.creds.grant] > MaxRotations
           \/ cnFaults > 0 \/ cnMixed

\* "Notify only on transition": a second notification needs a sync that succeeded or a
\* reconnect since the first, "so repeated scheduled syncs do not nag".
NoNagging == cnRun.pc = "notify" => ~cnTold
=============================================================================
