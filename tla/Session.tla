-------------------------------- MODULE Session --------------------------------
(***************************************************************************)
(* Signing in, relaunching, signing out and restoring a key backup on one  *)
(* device (session.rs; e2ee.rs, create, restore, clear, key_packages,      *)
(* create_backup, restore_from_backup).                                    *)
(*                                                                         *)
(* The keystore has one slot for the session and one for the MLS state of  *)
(* the device, whatever the account.  A client is a session and an MLS     *)
(* identity in memory; its sync loop saves the identity at any time, and   *)
(* may do so once more after the host has dropped the client.              *)
(*                                                                         *)
(* A token is the number of the login it came from, an identity the number *)
(* of the key pair; 0 is none.  What an identity's groups are is in        *)
(* InboundMls and GroupInvite.                                             *)
(*                                                                         *)
(* External: the homeserver; the host, which calls restore_session at      *)
(* launch, login or register when signed out, and logout, backup and       *)
(* restore_backup when signed in (AuthViewModel.kt, AuthViewModel.swift).  *)
(*                                                                         *)
(* An operator marked [mutant] is a plausible bug in the operator after    *)
(* it; it is not part of the specification.                                *)
(***************************************************************************)
EXTENDS Naturals, Sequences

CONSTANTS
  Users,        \* accounts
  MaxLogins,    \* bound: logins
  MaxLaunches,  \* bound: restarts of the app
  MaxFaults     \* bound: failures of the keystore and of requests

ASSUME SessionBounds == {MaxLogins, MaxLaunches, MaxFaults} \subseteq Nat

VARIABLES
  \* the homeserver
  logins,      \* the user of each login
  alive,       \* tokens it accepts
  published,   \* the identity each login's device has published
  backup,      \* the identity in each user's key backup
  \* the keystore
  keptSession, \* the token in the session slot
  keptMls,     \* the identity in the MLS slot
  \* memory
  minted,      \* the user each identity was created for
  pc,          \* where the app stands
  client,      \* the client: [token, id, online], online = its token was confirmed
  old,         \* identities of dropped clients whose sync task has not stopped
  \* history
  leftover,    \* identities that stayed in, or came back to, the keystore after their session
  unpublished, \* identities whose publication failed, or was cut off
  offline,     \* identities minted by a launch without network
  signedOff,   \* logout has returned Ok since the last login
  launches, faults

server == <<logins, alive, published, backup>>
kept == <<keptSession, keptMls>>
history == <<leftover, unpublished, offline, signedOff, launches>>
vars == <<server, kept, minted, pc, client, old, history, faults>>

Tokens == 1..MaxLogins
Ids == 1..MaxLogins + MaxFaults  \* one a login, one more for each that is lost to a fault
NoClient == [token |-> 0, id |-> 0, online |-> FALSE]
SignedIn == {"in", "wipe", "clear"}

TypeOK ==
  /\ logins \in Seq(Users) /\ Len(logins) <= MaxLogins
  /\ alive \subseteq Tokens
  /\ published \in [Tokens -> {0} \cup Ids]
  /\ backup \in [Users -> {0} \cup Ids]
  /\ keptSession \in {0} \cup Tokens /\ keptMls \in {0} \cup Ids
  /\ minted \in Seq(Users) /\ Len(minted) <= MaxLogins + MaxFaults
  /\ pc \in {"launch", "whoami", "out", "store", "mint", "publish"} \cup SignedIn
  /\ client \in [token : {0} \cup Tokens, id : {0} \cup Ids, online : BOOLEAN]
  /\ pc \in {"launch", "whoami", "out"} <=> client = NoClient
  /\ old \subseteq Ids
  /\ leftover \subseteq Ids /\ unpublished \subseteq Ids /\ offline \subseteq Ids
  /\ signedOff \in BOOLEAN
  /\ launches \in 0..MaxLaunches /\ faults \in 0..MaxFaults

Init ==
  /\ logins = <<>> /\ alive = {}
  /\ published = [t \in Tokens |-> 0] /\ backup = [u \in Users |-> 0]
  /\ keptSession = 0 /\ keptMls = 0
  /\ minted = <<>> /\ pc = "launch" /\ client = NoClient /\ old = {}
  /\ leftover = {} /\ unpublished = {} /\ offline = {} /\ signedOff = FALSE
  /\ launches = 0 /\ faults = 0

Fault == faults < MaxFaults /\ faults' = faults + 1
User(t) == logins[t]
NewId == Len(minted) + 1
Some(i) == {i} \ {0}
HasIdentity == client.id # 0

\* i is written to the MLS slot; it is a leftover there when the session slot is empty, but for
\* the moment in which logout is between the two.
Save(i) ==
  /\ keptMls' = i
  /\ leftover' = IF keptSession = 0 /\ pc # "clear" THEN leftover \cup {i} ELSE leftover

------------------------------------------------------------------------------
\* Login and register.

\* The server answers with a new token.
NewToken(u) == logins' = Append(logins, u) /\ alive' = alive \cup {Len(logins) + 1}

\* login or register, up to the answer.
Authenticate(u) ==
  /\ pc = "out" /\ Len(logins) < MaxLogins
  /\ NewToken(u)
  /\ client' = [token |-> Len(logins) + 1, id |-> 0, online |-> TRUE]
  /\ pc' = "store" /\ signedOff' = FALSE
  /\ UNCHANGED <<published, backup, kept, minted, old, leftover, unpublished, offline, launches,
                 faults>>

\* finish_login: the session is saved first.
PutSession ==
  /\ pc = "store"
  /\ keptSession' = client.token /\ pc' = "mint"
  /\ UNCHANGED <<server, keptMls, minted, client, old, history, faults>>

\* The session cannot be saved, or then the SQLite file cannot be opened: login fails, in the
\* second case with the session saved.
LoginFails ==
  /\ pc = "store" /\ Fault
  /\ keptSession' \in {keptSession, client.token}
  /\ pc' = "out" /\ client' = NoClient
  /\ UNCHANGED <<server, keptMls, minted, old, history>>

\* [mutant] The new identity is used without being saved.
MintUnsaved(t) ==
  /\ minted' = Append(minted, User(t))
  /\ UNCHANGED keptMls

\* E2ee::create: a new identity, saved before it is used.
Mint(t) ==
  /\ minted' = Append(minted, User(t))
  /\ keptMls' = NewId

MintAtLogin ==
  /\ pc = "mint" /\ Mint(client.token)
  /\ client' = [client EXCEPT !.id = NewId] /\ pc' = "publish"
  /\ UNCHANGED <<server, keptSession, old, history, faults>>

\* The identity cannot be saved: the session goes on without E2EE.
MintFails ==
  /\ pc = "mint" /\ Fault
  /\ pc' = "in"
  /\ UNCHANGED <<server, kept, minted, client, old, history>>

------------------------------------------------------------------------------
\* publish_device_keys: KeyPackages are made and saved with the device, then uploaded.

\* [mutant] Key ids are counted from 0, and the server keeps the packages it has under them.
UploadedOnce(t, i) == [published EXCEPT ![t] = IF @ = 0 THEN i ELSE @]

\* keys/upload: key ids are hashes of the packages, so new packages get in.
Uploaded(t, i) == [published EXCEPT ![t] = i]

Publish ==
  /\ pc = "publish"
  /\ published' = Uploaded(client.token, client.id) /\ Save(client.id)
  /\ pc' = "in"
  /\ UNCHANGED <<logins, alive, backup, keptSession, minted, client, old, unpublished, offline,
                 signedOff, launches, faults>>

\* It fails, before or after the KeyPackages are saved: logged, and not tried again.
PublishFails ==
  /\ pc = "publish" /\ Fault
  /\ UNCHANGED <<keptMls, leftover>> \/ Save(client.id)
  /\ unpublished' = unpublished \cup {client.id}
  /\ pc' = "in"
  /\ UNCHANGED <<server, keptSession, minted, client, old, offline, signedOff, launches>>

------------------------------------------------------------------------------
\* restore_session.

\* whoami
Accepted(t) == t \in alive

Launch ==
  /\ pc = "launch"
  /\ pc' = IF keptSession = 0 THEN "out" ELSE "whoami"
  /\ UNCHANGED <<server, kept, minted, client, old, history, faults>>

Restored(i, confirmed) == [token |-> keptSession, id |-> i, online |-> confirmed]

\* restore_or_mint_e2ee: the identity in the keystore is taken for published.
UseKept(confirmed) ==
  /\ keptMls # 0
  /\ client' = Restored(keptMls, confirmed) /\ pc' = "in"
  /\ UNCHANGED <<kept, minted, offline, faults>>

\* There is none, or it cannot be read: a new one is minted, and published when online.
MintAtLaunch(confirmed) ==
  /\ IF keptMls = 0 THEN UNCHANGED faults ELSE Fault
  /\ Mint(keptSession)
  /\ client' = Restored(NewId, confirmed)
  /\ pc' = IF confirmed THEN "publish" ELSE "in"
  /\ offline' = IF confirmed THEN offline ELSE offline \cup {NewId}
  /\ UNCHANGED keptSession

\* The new one cannot be saved either.
NoIdentity(confirmed) ==
  /\ Fault
  /\ client' = Restored(0, confirmed) /\ pc' = "in"
  /\ UNCHANGED <<kept, minted, offline>>

\* [mutant] A session whose MLS state is missing does not come back.
RestoreUsesKept(confirmed) ==
  /\ IF keptMls # 0 THEN client' = Restored(keptMls, confirmed) /\ pc' = "in"
                    ELSE client' = NoClient /\ pc' = "out"
  /\ UNCHANGED <<kept, minted, offline, faults>>

RestoreOrMint(confirmed) == UseKept(confirmed) \/ MintAtLaunch(confirmed) \/ NoIdentity(confirmed)

\* The server accepts the token.
RestoreOnline ==
  /\ pc = "whoami" /\ Accepted(keptSession)
  /\ RestoreOrMint(TRUE)
  /\ UNCHANGED <<server, old, leftover, unpublished, signedOff, launches>>

\* The server cannot be reached.
RestoreOffline ==
  /\ pc = "whoami"
  /\ RestoreOrMint(FALSE)
  /\ UNCHANGED <<server, old, leftover, unpublished, signedOff, launches>>

\* The server rejects the token: the session is deleted, or cannot be.  The identity stays.
DropDead ==
  /\ pc = "whoami" /\ ~Accepted(keptSession)
  /\ \/ keptSession' = 0 /\ UNCHANGED faults
     \/ UNCHANGED keptSession /\ Fault
  /\ leftover' = leftover \cup Some(keptMls)
  /\ pc' = "out"
  /\ UNCHANGED <<server, keptMls, minted, client, old, unpublished, offline, signedOff, launches>>

\* [mutant] Any failure of the token check drops the session.
RestoreFailsDropping ==
  /\ pc = "whoami" /\ Fault
  /\ keptSession' = 0
  /\ leftover' = leftover \cup Some(keptMls)
  /\ pc' = "out"
  /\ UNCHANGED <<server, keptMls, minted, client, old, unpublished, offline, signedOff, launches>>

\* The server answers with another error, or the SQLite file cannot be opened: the form is shown
\* though the session is kept ...
RestoreFails ==
  /\ pc = "whoami" /\ Fault
  /\ leftover' = leftover \cup Some(keptMls)
  /\ pc' = "out"
  /\ UNCHANGED <<server, kept, minted, client, old, unpublished, offline, signedOff, launches>>

\* ... and in the second case so is the identity that may have been minted before.
RestoreFailsMinted ==
  /\ pc = "whoami" /\ Fault
  /\ Mint(keptSession)
  /\ leftover' = leftover \cup {NewId}
  /\ pc' = "out"
  /\ UNCHANGED <<server, keptSession, client, old, unpublished, offline, signedOff, launches>>

------------------------------------------------------------------------------
\* logout.

\* What is accepted once t is revoked.
Revoked(t) == alive \ {t}

\* The token is revoked if the server can be reached; either way logout goes on.
Revoke ==
  /\ pc = "in"
  /\ alive' \in {alive, Revoked(client.token)}
  /\ pc' = "wipe"
  /\ UNCHANGED <<logins, published, backup, kept, minted, client, old, history, faults>>

WipeSession ==
  /\ pc = "wipe"
  /\ keptSession' = 0 /\ pc' = "clear"
  /\ UNCHANGED <<server, keptMls, minted, client, old, history, faults>>

\* [mutant] The failure is logged and logout goes on.
WipeFailsLogged ==
  /\ pc = "wipe" /\ Fault
  /\ pc' = "clear"
  /\ UNCHANGED <<server, kept, minted, client, old, history>>

\* logout returns the keystore's error and the user stays signed in.
WipeFails ==
  /\ pc = "wipe" /\ Fault
  /\ pc' = "in"
  /\ UNCHANGED <<server, kept, minted, client, old, history>>

LoggedOut ==
  /\ client' = NoClient /\ old' = old \cup Some(client.id)
  /\ signedOff' = TRUE /\ pc' = "out"

\* [mutant] The identity is left in the keystore.
ClearSkipped ==
  /\ pc = "clear" /\ LoggedOut
  /\ UNCHANGED <<server, kept, minted, leftover, unpublished, offline, launches, faults>>

\* [mutant] The host keeps the spent client.
ClearKeepsClient ==
  /\ pc = "clear"
  /\ keptMls' = 0 /\ signedOff' = TRUE /\ pc' = "out"
  /\ UNCHANGED <<server, keptSession, minted, client, old, leftover, unpublished, offline, launches,
                 faults>>

\* E2ee::clear; the host drops the client.
Clear ==
  /\ pc = "clear" /\ LoggedOut
  /\ keptMls' = 0
  /\ UNCHANGED <<server, keptSession, minted, leftover, unpublished, offline, launches, faults>>

\* The user stays signed in, with the session already gone from the keystore.
ClearFails ==
  /\ pc = "clear" /\ Fault
  /\ leftover' = leftover \cup Some(keptMls)
  /\ pc' = "in"
  /\ UNCHANGED <<server, kept, minted, client, old, unpublished, offline, signedOff, launches>>

------------------------------------------------------------------------------
\* Saving the identity.

\* An MLS operation of the client's sync loop.
SaveDevice ==
  /\ pc \in SignedIn /\ HasIdentity
  /\ Save(client.id)
  /\ UNCHANGED <<server, keptSession, minted, pc, client, old, unpublished, offline, signedOff,
                 launches, faults>>

\* One of a loop whose client the host has dropped.
LateSave(i) ==
  /\ i \in old
  /\ keptMls' = i /\ leftover' = leftover \cup {i}
  /\ UNCHANGED <<server, keptSession, minted, pc, client, old, unpublished, offline, signedOff,
                 launches, faults>>

\* Such a loop ends.
LoopEnds(i) ==
  /\ i \in old
  /\ old' = old \ {i}
  /\ UNCHANGED <<server, kept, minted, pc, client, history, faults>>

------------------------------------------------------------------------------
\* The key backup.

\* The one slot of the user's backups on the server.
PutRoomKey(i) == [backup EXCEPT ![User(client.token)] = i]
GetRoomKey == backup[User(client.token)]

Backup ==
  /\ pc = "in" /\ HasIdentity
  /\ backup' = PutRoomKey(client.id)
  /\ UNCHANGED <<logins, alive, published, kept, minted, pc, client, old, history, faults>>

InUse(i) == client' = [client EXCEPT !.id = i]

\* The identity of the backup replaces the client's and is published.
RestoreBackup ==
  LET i == GetRoomKey IN
    /\ pc = "in" /\ HasIdentity /\ i # 0
    /\ InUse(i) /\ Save(i)
    /\ pc' = "publish"
    /\ UNCHANGED <<server, keptSession, minted, old, unpublished, offline, signedOff, launches,
                   faults>>

\* It cannot be saved: restore_backup fails, but the client already uses it.
RestoreBackupUnsaved ==
  LET i == GetRoomKey IN
    /\ pc = "in" /\ HasIdentity /\ i # 0 /\ Fault
    /\ InUse(i) /\ unpublished' = unpublished \cup {i}
    /\ UNCHANGED <<server, kept, minted, pc, old, leftover, offline, signedOff, launches>>

------------------------------------------------------------------------------
\* The environment.

\* The server forgets a token.
Expire(t) ==
  /\ t \in alive
  /\ alive' = Revoked(t)
  /\ UNCHANGED <<logins, published, backup, kept, minted, pc, client, old, history, faults>>

\* The process ends and is started again.
Crash ==
  /\ pc # "launch" /\ launches < MaxLaunches /\ launches' = launches + 1
  /\ pc' = "launch" /\ client' = NoClient /\ old' = {}
  /\ unpublished' = IF pc = "publish" THEN unpublished \cup {client.id} ELSE unpublished
  /\ leftover' = IF pc = "clear" THEN leftover \cup Some(keptMls) ELSE leftover
  /\ UNCHANGED <<server, kept, minted, offline, signedOff, faults>>

------------------------------------------------------------------------------
Step ==
  \/ Launch \/ RestoreOnline \/ DropDead
  \/ PutSession \/ MintAtLogin \/ Publish
  \/ WipeSession \/ Clear

Failure ==
  \/ LoginFails \/ MintFails \/ PublishFails \/ RestoreFails \/ RestoreFailsMinted
  \/ WipeFails \/ ClearFails \/ RestoreBackupUnsaved

Next ==
  \/ Step \/ Failure
  \/ \E u \in Users : Authenticate(u)
  \/ RestoreOffline \/ Revoke \/ SaveDevice \/ Backup \/ RestoreBackup
  \/ \E i \in Ids : LateSave(i) \/ LoopEnds(i)
  \/ \E t \in Tokens : Expire(t)
  \/ Crash

\* An async call that was started goes on.
Spec == Init /\ [][Next]_vars /\ WF_vars(Step)

------------------------------------------------------------------------------
\* Once logout has returned, no launch finds the session, and the MLS state it wiped is gone unless
\* a loop still running, or a fault or crash before it, left one there (session.rs:168-169,
\* 180-181).
LogoutSticks == signedOff => keptSession = 0 /\ keptMls \in {0} \cup leftover

\* The keystore holds the identity in use, so that a relaunch brings back this one and its groups,
\* unless it was overwritten by another loop or the put failed (e2ee.rs:88, 296).
KeptIsUsed ==
  pc \in SignedIn \cup {"publish"} /\ client.id # 0 =>
    keptMls = client.id \/ keptMls \in leftover \/ client.id \in unpublished

\* A session never runs on an identity minted for another account, except one that was left in the
\* keystore after its session (session.rs:180: "a new login mints a fresh identity").
OwnKeys ==
  client.id # 0 => minted[client.id] = User(client.token) \/ client.id \in leftover

\* The server hands out KeyPackages of the identity in use, unless its upload failed or was cut
\* off, it was minted offline, or it is a leftover (session.rs:508-509: "a restored identity's keys
\* are already on the server").  The exception for offline does not end with a launch that is
\* online, although publishing "waits for the next online session" (session.rs:526-527).
PublishedIsUsed ==
  pc \in SignedIn =>
    \/ client.id \in {0, published[client.token]}
    \/ client.id \in unpublished \cup offline \cup leftover

\* The saved session changes only by a login, by logout, or because the server rejects its token:
\* never for want of a network (session.rs:524-525).
SessionIsKept ==
  [][keptSession' # keptSession =>
       \/ pc = "store" /\ keptSession' = client.token
       \/ keptSession' = 0 /\ (pc = "wipe" \/ keptSession \notin alive)]_vars

\* A launch with a saved session the server accepts ends signed in with it, whatever became of the
\* identity, if no further fault occurs; but for a token that expires or a restart.
ComesBack ==
  \A t \in Tokens :
    pc = "whoami" /\ keptSession = t /\ t \in alive /\ faults = MaxFaults ~>
      (pc = "in" /\ client.token = t) \/ t \notin alive \/ pc = "launch"
==============================================================================
