---------------------------- MODULE AuthProfiles ----------------------------
(***************************************************************************)
(* Accounts of model providers: the store of auth profiles behind its lock *)
(* file (auth/profiles.rs), the refresh of OAuth tokens that a model call  *)
(* may need (auth/mod.rs), and the commands that log in, refresh and log   *)
(* out (main_handlers.rs).                                                 *)
(*                                                                         *)
(* Processes share the files; the mutex and the backoff of refreshing      *)
(* belong to one.  A file operation runs on a thread of its own: when the  *)
(* call that awaits it is dropped, as a cancelled turn drops it, it is     *)
(* carried out all the same.  A profile is reduced to its tokens, numbered *)
(* as they are issued; which profile is active, tokens that cannot be      *)
(* refreshed, the temporary file and retries within a refresh are left     *)
(* out, and files that can be made are taken to be removable.              *)
(***************************************************************************)
EXTENDS Naturals

CONSTANTS
  TurnCall,     \* model calls of turns, which may be dropped
  AuthCommand,  \* the commands topclaw auth ...
  Home, HomeOf, \* processes, and that of a call
  Profile, FirstProfile,
  MaxTokens,    \* bound: token sets ever issued
  MaxBreaks,    \* bound: calls dropped and processes killed
  Nobody

AuthCall == TurnCall \cup AuthCommand
Tokens == 1..MaxTokens
NoTokens == 0
Store == [Profile -> Tokens \cup {NoTokens}]

ASSUME AuthAssumption ==
  /\ HomeOf \in [AuthCall -> Home] /\ FirstProfile \in Profile
  /\ MaxTokens \in Nat \ {0} /\ MaxBreaks \in Nat
  /\ Nobody \notin AuthCall

VARIABLES
  profiles,     \* auth-profiles.json: the tokens of a profile
  locked,       \* whether the lock file is there
  newest, old,  \* the last token set that was issued, and those about to expire
  mutex,        \* refresh_lock_for_profile: which call has it
  backoff,      \* REFRESH_BACKOFFS
  place, errand, account,  \* a call: where it is, what for, and about which profile
  loaded, sent, got,  \* what it read, the tokens it exchanges, those it has to store
  breaks,
  orphaned,     \* auxiliary: a lock file was left behind
  leaked,       \* auxiliary: a call that was dropped replaced the store
  kept,         \* auxiliary: what was last stored for a profile
  exchanged,    \* auxiliary: the tokens that a process has exchanged,
  again,        \* auxiliary: those it has exchanged again,
  spilt         \* auxiliary: and those whose successors were not stored

files == <<profiles, locked>>
tokenSets == <<newest, old>>
refreshing == <<mutex, backoff>>
task == <<errand, account, loaded, sent, got>>
storeNotes == <<leaked, kept>>
tokenNotes == <<exchanged, again>>

authVars ==
  <<files, tokenSets, refreshing, place, task, breaks, orphaned, storeNotes, tokenNotes, spilt>>

AuthTypeOK ==
  /\ profiles \in Store /\ locked \in BOOLEAN
  /\ newest \in Tokens /\ old \subseteq 1..newest
  /\ mutex \in [Home \X Profile -> AuthCall \cup {Nobody}] /\ backoff \subseteq Home \X Profile
  /\ place \in [AuthCall -> {"new", "waiting", "asking", "opening", "created", "reading",
                             "read", "renaming", "leaving", "lockAdrift", "storeAdrift", "over"}]
  /\ errand \in [AuthCall -> {"none", "peek", "reload", "save", "login", "logout"}]
  /\ account \in [AuthCall -> Profile]
  /\ loaded \in [AuthCall -> Store]
  /\ sent \in [AuthCall -> Tokens \cup {NoTokens}]
  /\ got \in [AuthCall -> Tokens \cup {NoTokens}]
  /\ breaks \in 0..MaxBreaks /\ orphaned \in BOOLEAN
  /\ leaked \in BOOLEAN /\ kept \in Store
  /\ exchanged \subseteq Home \X Tokens /\ again \subseteq Tokens /\ spilt \subseteq Tokens

NoStore == [p \in Profile |-> NoTokens]

AuthInit ==
  /\ profiles = [NoStore EXCEPT ![FirstProfile] = 1] /\ locked = FALSE
  /\ newest = 1 /\ old = {}
  /\ mutex = [m \in Home \X Profile |-> Nobody] /\ backoff = {}
  /\ place = [c \in AuthCall |-> "new"] /\ errand = [c \in AuthCall |-> "none"]
  /\ account = [c \in AuthCall |-> FirstProfile]
  /\ loaded = [c \in AuthCall |-> NoStore]
  /\ sent = [c \in AuthCall |-> NoTokens] /\ got = [c \in AuthCall |-> NoTokens]
  /\ breaks = 0 /\ orphaned = FALSE
  /\ leaked = FALSE /\ kept = profiles
  /\ exchanged = {} /\ again = {} /\ spilt = {}

MutexOf(c) == <<HomeOf[c], account[c]>>
Move(c, there) == place' = [place EXCEPT ![c] = there]

\* Calls that have the lock file, and of those the ones that would remove it.
Owners == {c \in AuthCall : place[c] \in {"created", "reading", "read", "renaming", "leaving"}}
Guards == {c \in Owners : place[c] # "created"}

\* A call goes to the store.
GoTo(c, what) ==
  /\ errand' = [errand EXCEPT ![c] = what]
  /\ Move(c, "opening")

\* Calls end, or leave an operation behind: their mutexes are free, and what they
\* had exchanged and not stored is lost.
Quit(C, there) ==
  /\ place' = [c \in AuthCall |-> IF c \in C THEN there ELSE place[c]]
  /\ mutex' = [m \in Home \X Profile |-> IF mutex[m] \in C THEN Nobody ELSE mutex[m]]
  /\ spilt' = spilt \cup {sent[c] : c \in {d \in C : errand[d] = "save" /\ place[d] # "leaving"}}

-----------------------------------------------------------------------------
(* AuthProfilesStore.                                                      *)

\* Fault: an existing lock file is opened like a new one.
CreateLockAnyway(c) ==
  /\ place[c] = "opening"
  /\ locked' = TRUE
  /\ Move(c, "created")
  /\ UNCHANGED <<profiles, tokenSets, refreshing, task, breaks, orphaned, storeNotes,
                 tokenNotes, spilt>>

\* acquire_lock: the file is created; the call that awaits it goes on later.
CreateLock(c) ==
  /\ place[c] = "opening" /\ ~locked
  /\ locked' = TRUE
  /\ Move(c, "created")
  /\ UNCHANGED <<profiles, tokenSets, refreshing, task, breaks, orphaned, storeNotes,
                 tokenNotes, spilt>>

\* The guard is made: from now on the lock file goes when the call does.
Guard(c) ==
  /\ place[c] = "created"
  /\ Move(c, "reading")
  /\ UNCHANGED <<files, tokenSets, refreshing, task, breaks, orphaned, storeNotes,
                 tokenNotes, spilt>>

\* Fault: what was read for the refresh is good enough to be amended.
ReadOnce(c) ==
  /\ place[c] = "reading"
  /\ loaded' = IF errand[c] = "save" THEN loaded ELSE [loaded EXCEPT ![c] = profiles]
  /\ Move(c, "read")
  /\ UNCHANGED <<files, tokenSets, refreshing, errand, account, sent, got, breaks, orphaned,
                 storeNotes, tokenNotes, spilt>>

\* read_persisted_locked.
Read(c) ==
  /\ place[c] = "reading"
  /\ loaded' = [loaded EXCEPT ![c] = profiles]
  /\ Move(c, "read")
  /\ UNCHANGED <<files, tokenSets, refreshing, errand, account, sent, got, breaks, orphaned,
                 storeNotes, tokenNotes, spilt>>

\* upsert_profile, update_profile and remove_profile amend what was read; the last
\* two need the profile to be there.
Rewrites(c) ==
  \/ errand[c] = "login"
  \/ errand[c] \in {"save", "logout"} /\ loaded[c][account[c]] # NoTokens

Rewritten(c) ==
  [loaded[c] EXCEPT ![account[c]] = IF errand[c] = "logout" THEN NoTokens ELSE got[c]]

Write(c) ==
  /\ place[c] = "read" /\ Rewrites(c)
  /\ Move(c, "renaming")
  /\ UNCHANGED <<files, tokenSets, refreshing, task, breaks, orphaned, storeNotes,
                 tokenNotes, spilt>>

Rename(c) ==
  /\ place[c] = "renaming"
  /\ profiles' = Rewritten(c)
  /\ kept' = [kept EXCEPT ![account[c]] = Rewritten(c)[account[c]]]
  /\ Move(c, "leaving")
  /\ UNCHANGED <<locked, tokenSets, refreshing, task, breaks, orphaned, leaked, tokenNotes,
                 spilt>>

\* The guard is dropped at the end of an update, which ends the call; so it is when
\* there is nothing to amend.
Leave(c) ==
  /\ \/ place[c] = "leaving"
     \/ place[c] = "read" /\ errand[c] \in {"save", "logout"} /\ ~Rewrites(c)
  /\ locked' = FALSE
  /\ Quit({c}, "over")
  /\ UNCHANGED <<profiles, tokenSets, backoff, task, breaks, orphaned, storeNotes, tokenNotes>>

\* The lock is waited for in vain, or a file operation fails.
Fail(c) ==
  /\ place[c] \in {"opening", "created", "reading", "renaming"}
  /\ locked' = (locked /\ c \notin Owners)
  /\ Quit({c}, "over")
  /\ UNCHANGED <<profiles, tokenSets, backoff, task, breaks, orphaned, storeNotes, tokenNotes>>

-----------------------------------------------------------------------------
(* get_valid_openai_access_token and get_valid_gemini_access_token.        *)

BeginRefresh(c) ==
  /\ place[c] = "new"
  /\ \E p \in Profile : account' = [account EXCEPT ![c] = p]
  /\ GoTo(c, "peek")
  /\ UNCHANGED <<files, tokenSets, refreshing, loaded, sent, got, breaks, orphaned,
                 storeNotes, tokenNotes, spilt>>

\* The tokens are there, and about to expire.
Expiring(c) == loaded[c][account[c]] \in old

\* load() returns, and with it goes the lock: there is a token to use, or none.
Use(c) ==
  /\ place[c] = "read" /\ errand[c] \in {"peek", "reload"}
  /\ Expiring(c) => errand[c] = "reload" /\ MutexOf(c) \in backoff
  /\ locked' = FALSE
  /\ Quit({c}, "over")
  /\ UNCHANGED <<profiles, tokenSets, backoff, task, breaks, orphaned, storeNotes, tokenNotes>>

AwaitMutex(c) ==
  /\ place[c] = "read" /\ errand[c] = "peek" /\ Expiring(c)
  /\ locked' = FALSE
  /\ Move(c, "waiting")
  /\ UNCHANGED <<profiles, tokenSets, refreshing, task, breaks, orphaned, storeNotes,
                 tokenNotes, spilt>>

\* Fault: the tokens that were read before are exchanged.
LockRefreshAtOnce(c) ==
  /\ place[c] = "waiting" /\ mutex[MutexOf(c)] = Nobody
  /\ mutex' = [mutex EXCEPT ![MutexOf(c)] = c]
  /\ sent' = [sent EXCEPT ![c] = loaded[c][account[c]]]
  /\ Move(c, "asking")
  /\ UNCHANGED <<files, tokenSets, backoff, errand, account, loaded, got, breaks, orphaned,
                 storeNotes, tokenNotes, spilt>>

LockRefresh(c) ==
  /\ place[c] = "waiting" /\ mutex[MutexOf(c)] = Nobody
  /\ mutex' = [mutex EXCEPT ![MutexOf(c)] = c]
  /\ GoTo(c, "reload")
  /\ UNCHANGED <<files, tokenSets, backoff, account, loaded, sent, got, breaks, orphaned,
                 storeNotes, tokenNotes, spilt>>

Exchange(c) ==
  /\ place[c] = "read" /\ errand[c] = "reload" /\ Expiring(c) /\ MutexOf(c) \notin backoff
  /\ locked' = FALSE
  /\ sent' = [sent EXCEPT ![c] = loaded[c][account[c]]]
  /\ Move(c, "asking")
  /\ UNCHANGED <<profiles, tokenSets, refreshing, errand, account, loaded, got, breaks,
                 orphaned, storeNotes, tokenNotes, spilt>>

Issue == newest < MaxTokens /\ newest' = newest + 1

Granted(c) ==
  /\ place[c] = "asking"
  /\ Issue
  /\ got' = [got EXCEPT ![c] = newest']
  /\ backoff' = backoff \ {MutexOf(c)}
  /\ exchanged' = exchanged \cup {<<HomeOf[c], sent[c]>>}
  /\ again' = IF <<HomeOf[c], sent[c]>> \in exchanged THEN again \cup {sent[c]} ELSE again
  /\ GoTo(c, "save")
  /\ UNCHANGED <<files, old, mutex, account, loaded, sent, breaks, orphaned, storeNotes, spilt>>

Denied(c) ==
  /\ place[c] = "asking"
  /\ backoff' = backoff \cup {MutexOf(c)}
  /\ Quit({c}, "over")
  /\ UNCHANGED <<files, tokenSets, task, breaks, orphaned, storeNotes, tokenNotes>>

BackoffEnds(m) ==
  /\ m \in backoff
  /\ backoff' = backoff \ {m}
  /\ UNCHANGED <<files, tokenSets, mutex, place, task, breaks, orphaned, storeNotes,
                 tokenNotes, spilt>>

\* Time passes, and every token set that there is is about to expire.
GetOld ==
  /\ old # 1..newest /\ old' = 1..newest
  /\ UNCHANGED <<files, newest, refreshing, place, task, breaks, orphaned, storeNotes,
                 tokenNotes, spilt>>

-----------------------------------------------------------------------------
(* Commands.                                                               *)

Login(c) ==
  /\ place[c] = "new"
  /\ Issue
  /\ \E p \in Profile : account' = [account EXCEPT ![c] = p]
  /\ got' = [got EXCEPT ![c] = newest']
  /\ GoTo(c, "login")
  /\ UNCHANGED <<files, old, refreshing, loaded, sent, breaks, orphaned, storeNotes,
                 tokenNotes, spilt>>

Logout(c) ==
  /\ place[c] = "new"
  /\ \E p \in Profile : account' = [account EXCEPT ![c] = p]
  /\ GoTo(c, "logout")
  /\ UNCHANGED <<files, tokenSets, refreshing, loaded, sent, got, breaks, orphaned,
                 storeNotes, tokenNotes, spilt>>

-----------------------------------------------------------------------------
(* Calls that are dropped, and processes that end.                         *)

Break == breaks < MaxBreaks /\ breaks' = breaks + 1

\* The future of a turn is dropped: a guard removes its lock file, while a creation
\* or a replacement that is under way is carried out.
Dropped(c) ==
  /\ Break
  /\ place[c] \notin {"new", "lockAdrift", "storeAdrift", "over"}
  /\ locked' = (locked /\ c \notin Guards)
  /\ orphaned' = (orphaned \/ place[c] = "created")
  /\ Quit({c}, CASE place[c] = "opening" -> "lockAdrift"
                 [] place[c] = "renaming" -> "storeAdrift"
                 [] OTHER -> "over")
  /\ UNCHANGED <<profiles, tokenSets, backoff, task, storeNotes, tokenNotes>>

\* What a dropped call had asked for is done, or fails.
CreateAdrift(c) ==
  /\ place[c] = "lockAdrift"
  /\ locked' = TRUE
  /\ orphaned' = (orphaned \/ ~locked)
  /\ Move(c, "over")
  /\ UNCHANGED <<profiles, tokenSets, refreshing, task, breaks, storeNotes, tokenNotes, spilt>>

RenameAdrift(c) ==
  /\ place[c] = "storeAdrift"
  /\ profiles' = Rewritten(c)
  /\ leaked' = TRUE
  /\ Move(c, "over")
  /\ UNCHANGED <<locked, tokenSets, refreshing, task, breaks, orphaned, kept, tokenNotes, spilt>>

\* A process is killed: its lock file stays.
KillProcess(h) ==
  LET mine == {c \in AuthCall : HomeOf[c] = h /\ place[c] \notin {"new", "over"}} IN
  /\ Break
  /\ mine # {}
  /\ Quit(mine, "over")
  /\ orphaned' = (orphaned \/ \E c \in mine : c \in Owners)
  /\ backoff' = {m \in backoff : m[1] # h}
  /\ UNCHANGED <<files, tokenSets, task, storeNotes, tokenNotes>>

-----------------------------------------------------------------------------

AuthStep(c) ==
  \/ CreateLock(c) \/ Guard(c) \/ Read(c) \/ Write(c) \/ Rename(c) \/ Leave(c) \/ Fail(c)
  \/ BeginRefresh(c) \/ Use(c) \/ AwaitMutex(c) \/ LockRefresh(c) \/ Exchange(c)
  \/ Granted(c) \/ Denied(c)
  \/ CreateAdrift(c) \/ RenameAdrift(c)

AuthNext ==
  \/ \E c \in AuthCall : AuthStep(c)
  \/ \E c \in AuthCommand : Login(c) \/ Logout(c)
  \/ \E c \in TurnCall : Dropped(c)
  \/ \E h \in Home : KillProcess(h)
  \/ \E m \in Home \X Profile : BackoffEnds(m)
  \/ GetOld

AuthSpec == AuthInit /\ [][AuthNext]_authVars

-----------------------------------------------------------------------------
(* Properties.                                                             *)

\* The lock file has one owner at a time, and is there without one only when its
\* owner was killed, or dropped before it had its guard; then nobody gets in again.
LockAccounted ==
  /\ \A c, d \in Owners : c = d
  /\ locked <=> (Owners # {} \/ orphaned)
  /\ orphaned => Owners = {}

\* What a call stores for one profile does not undo what others have stored, unless
\* a replacement was carried out after its call had been dropped, lock and all.
UpdatesKept == ~leaked => profiles = kept

\* However calls overlap, a process exchanges tokens once, unless those it got for
\* them were not stored, or a replacement of a dropped call brought them back.
ExchangedOnce == leaked \/ again \subseteq spilt
=============================================================================
