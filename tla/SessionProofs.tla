----------------------------- MODULE SessionProofs -----------------------------
(***************************************************************************)
(* Theorems about Session, for any accounts and bounds: the inductive      *)
(* invariant IInv, and with it type correctness, LogoutSticks, KeptIsUsed, *)
(* OwnKeys, PublishedIsUsed and SessionIsKept.                             *)
(***************************************************************************)
EXTENDS Session, SequenceTheorems, TLAPS

Minted == 1..Len(minted)
LoggedIn == 1..Len(logins)

\* Every identity and token in use was made.
Made ==
  /\ {client.id, keptMls} \subseteq {0} \cup Minted
  /\ \A t \in Tokens : published[t] \in {0} \cup Minted
  /\ \A u \in Users : backup[u] \in {0} \cup Minted
  /\ old \cup leftover \cup unpublished \cup offline \subseteq Minted
  /\ {client.token, keptSession} \subseteq {0} \cup LoggedIn
  /\ alive \subseteq LoggedIn

\* An identity that is still to be minted: by the login under way, or by the next launch.
Owed == pc \in {"store", "mint"} \/ (keptSession # 0 /\ keptMls = 0)

\* One identity a login, one more for each fault.
Counted == Len(minted) + (IF Owed THEN 1 ELSE 0) <= Len(logins) + faults

\* What is known at each place.
Phases ==
  /\ pc \in {"launch", "whoami", "out"} \/ client.token # 0
  /\ pc \in {"store", "mint"} => client.id = 0
  /\ pc = "publish" => client.id # 0
  /\ pc = "mint" => keptSession = client.token
  /\ pc = "whoami" => keptSession # 0
  /\ pc = "clear" => keptSession = 0
  /\ pc \in {"publish", "in", "wipe"} => keptSession \in {0, client.token}
  /\ signedOff => keptSession = 0 /\ pc \in {"out", "launch"}

\* The MLS slot without a session.
Stray == keptMls \in {0} \cup leftover
Slots ==
  /\ keptSession = 0 /\ pc # "clear" => Stray
  /\ pc \in {"out", "store", "mint"} => Stray

\* The MLS slot beside a session.
KeptOwn == keptSession # 0 => Stray \/ minted[keptMls] = User(keptSession)
BackupOwn == \A u \in Users :
  backup[u] # 0 => minted[backup[u]] = u \/ backup[u] \in leftover
KeptPublished ==
  keptSession # 0 =>
    \/ keptMls \in {0, published[keptSession]} \cup leftover \cup unpublished \cup offline
    \/ pc = "publish" /\ keptMls = client.id

IInv ==
  /\ TypeOK /\ Made /\ Counted /\ Phases /\ Slots
  /\ KeptOwn /\ BackupOwn /\ KeptPublished
  /\ KeptIsUsed /\ OwnKeys /\ PublishedIsUsed

\* A launch with a saved session, up to its identity.
Restoring ==
  /\ pc = "whoami"
  /\ UNCHANGED <<server, old, leftover, unpublished, signedOff, launches>>

------------------------------------------------------------------------------
\* The parts of TypeOK.
ServerTyped ==
  /\ logins \in Seq(Users) /\ Len(logins) <= MaxLogins
  /\ alive \subseteq Tokens
  /\ published \in [Tokens -> {0} \cup Ids]
  /\ backup \in [Users -> {0} \cup Ids]
MintedTyped == minted \in Seq(Users) /\ Len(minted) <= MaxLogins + MaxFaults
KeptTyped == keptSession \in {0} \cup Tokens /\ keptMls \in {0} \cup Ids
ClientTyped == client \in [token : {0} \cup Tokens, id : {0} \cup Ids, online : BOOLEAN]
PlaceTyped ==
  /\ pc \in {"launch", "whoami", "out", "store", "mint", "publish"} \cup SignedIn
  /\ pc \in {"launch", "whoami", "out"} <=> client = NoClient
HistoryTyped ==
  /\ old \subseteq Ids /\ leftover \subseteq Ids
  /\ unpublished \subseteq Ids /\ offline \subseteq Ids
  /\ signedOff \in BOOLEAN
  /\ launches \in 0..MaxLaunches /\ faults \in 0..MaxFaults

\* What minting an identity for the login t does to the numbering.
LEMMA MintMakes ==
  ASSUME TypeOK, Made, Counted, NEW t \in LoggedIn, Owed \/ Fault, Mint(t)
  PROVE  /\ minted' \in Seq(Users) /\ Len(minted') = NewId /\ NewId \in Ids
         /\ NewId <= MaxLogins + MaxFaults
         /\ \A i \in Minted : minted'[i] = minted[i]
         /\ minted'[NewId] = User(t)
<1>1. logins \in Seq(Users) /\ minted \in Seq(Users) /\ User(t) \in Users
  BY DEF TypeOK, LoggedIn, User
<1>2. Len(minted) + 1 <= MaxLogins + MaxFaults
  BY SessionBounds DEF TypeOK, Counted, Fault
<1> QED BY <1>1, <1>2, SessionBounds DEF Mint, NewId, Minted, Ids

\* Every step keeps the types.
LEMMA TypeStep == IInv /\ [Next]_vars => TypeOK'
<1> SUFFICES ASSUME IInv, [Next]_vars PROVE TypeOK'
  OBVIOUS
<1> USE SessionBounds DEF IInv, server, kept, history, Tokens, Ids, NoClient, SignedIn
<1>1. CASE Launch
  BY <1>1 DEF Launch, TypeOK, Phases
<1>2. ASSUME NEW b \in BOOLEAN, UseKept(b), Restoring PROVE TypeOK'
  BY <1>2 DEF UseKept, Restored, Restoring, TypeOK, Phases
<1>3. ASSUME NEW b \in BOOLEAN, MintAtLaunch(b), Restoring PROVE TypeOK'
  <2>1. NewId \in Ids /\ minted' \in Seq(Users) /\ Len(minted') <= MaxLogins + MaxFaults
    <3>1. keptSession \in LoggedIn /\ (Owed \/ Fault)
      BY <1>3 DEF MintAtLaunch, Restored, Mint, NewId, User, Fault, Restoring, TypeOK, Made,
          Phases, Owed
    <3>2. Mint(keptSession)
      BY <1>3 DEF MintAtLaunch
    <3> QED BY <3>1, <3>2, MintMakes DEF IInv
  <2>2. ServerTyped' /\ MintedTyped'
    BY <1>3, <2>1 DEF Restoring, ServerTyped, MintedTyped, TypeOK
  <2>3. KeptTyped'
    BY <1>3, <2>1 DEF MintAtLaunch, Mint, KeptTyped, TypeOK
  <2>4. client' = [token |-> keptSession, id |-> NewId, online |-> b]
    BY <1>3 DEF MintAtLaunch, Restored
  <2>5. ClientTyped'
    BY <2>1, <2>4 DEF ClientTyped, TypeOK
  <2>6. PlaceTyped'
    BY <1>3, <2>4 DEF MintAtLaunch, Restoring, PlaceTyped, Phases
  <2>7. offline' \subseteq Ids /\ faults' \in 0..MaxFaults
    BY <1>3, <2>1 DEF MintAtLaunch, Fault, TypeOK
  <2>8. HistoryTyped'
    BY <1>3, <2>7 DEF Restoring, HistoryTyped, TypeOK
  <2> QED BY <2>2, <2>3, <2>5, <2>6, <2>8
    DEF TypeOK, ServerTyped, MintedTyped, KeptTyped, ClientTyped, PlaceTyped, HistoryTyped
<1>4. ASSUME NEW b \in BOOLEAN, NoIdentity(b), Restoring PROVE TypeOK'
  BY <1>4 DEF NoIdentity, Restored, Fault, Restoring, TypeOK, Phases
<1>5. CASE DropDead
  <2>1. leftover' \subseteq Ids /\ unpublished' \subseteq Ids /\ offline' \subseteq Ids
    BY <1>5 DEF DropDead, Fault, Some, Accepted, TypeOK, Phases
  <2>2. ServerTyped' /\ MintedTyped' /\ ClientTyped'
    BY <1>5 DEF DropDead, ServerTyped, MintedTyped, ClientTyped, TypeOK
  <2>3. KeptTyped' /\ PlaceTyped'
    BY <1>5 DEF DropDead, KeptTyped, PlaceTyped, TypeOK
  <2>4. HistoryTyped'
    BY <1>5, <2>1 DEF DropDead, Fault, HistoryTyped, TypeOK
  <2> QED BY <2>2, <2>3, <2>4
    DEF TypeOK, ServerTyped, MintedTyped, KeptTyped, ClientTyped, PlaceTyped, HistoryTyped
<1>6. CASE PutSession
  BY <1>6 DEF PutSession, TypeOK, Phases
<1>7. CASE MintAtLogin
  <2>1. NewId \in Ids /\ minted' \in Seq(Users) /\ Len(minted') <= MaxLogins + MaxFaults
    <3>1. client.token \in LoggedIn /\ (Owed \/ Fault)
      BY <1>7 DEF MintAtLogin, Mint, NewId, User, TypeOK, Made, Phases, Owed
    <3>2. Mint(client.token)
      BY <1>7 DEF MintAtLogin
    <3> QED BY <3>1, <3>2, MintMakes DEF IInv
  <2>2. client' \in [token : {0} \cup Tokens, id : {0} \cup Ids, online : BOOLEAN]
    <3>1. client' = [token |-> client.token, id |-> NewId, online |-> client.online]
      BY <1>7 DEF MintAtLogin, Mint, NewId, User, TypeOK
    <3> QED BY <3>1, <2>1 DEF MintAtLogin, Mint, NewId, User, TypeOK
  <2>3. ServerTyped' /\ MintedTyped' /\ HistoryTyped'
    BY <1>7, <2>1 DEF MintAtLogin, ServerTyped, MintedTyped, HistoryTyped, TypeOK
  <2>4. KeptTyped'
    BY <1>7, <2>1 DEF MintAtLogin, Mint, KeptTyped, TypeOK
  <2>5. client'.token = client.token /\ pc' = "publish" /\ pc = "mint"
    BY <1>7 DEF MintAtLogin, TypeOK
  <2>6. PlaceTyped'
    BY <2>5 DEF PlaceTyped, Phases
  <2> QED BY <2>2, <2>3, <2>4, <2>6
    DEF TypeOK, ServerTyped, MintedTyped, KeptTyped, ClientTyped, PlaceTyped, HistoryTyped
<1>8. CASE Publish
  BY <1>8 DEF Publish, Uploaded, Save, TypeOK, Phases
<1>9. CASE WipeSession
  BY <1>9 DEF WipeSession, TypeOK, Phases
<1>10. CASE Clear
  BY <1>10 DEF Clear, LoggedOut, Some, TypeOK, Phases
<1>11. CASE LoginFails
  <2>1. ServerTyped' /\ MintedTyped'
    BY <1>11 DEF LoginFails, ServerTyped, MintedTyped, TypeOK
  <2>2. KeptTyped' /\ ClientTyped' /\ PlaceTyped'
    BY <1>11 DEF LoginFails, KeptTyped, ClientTyped, PlaceTyped, TypeOK
  <2>3. HistoryTyped'
    BY <1>11 DEF LoginFails, Fault, HistoryTyped, TypeOK
  <2> QED BY <2>1, <2>2, <2>3
    DEF TypeOK, ServerTyped, MintedTyped, KeptTyped, ClientTyped, PlaceTyped, HistoryTyped
<1>12. CASE MintFails
  BY <1>12 DEF MintFails, Fault, TypeOK, Phases
<1>13. CASE PublishFails
  <2>1. leftover' \subseteq Ids /\ unpublished' \subseteq Ids /\ offline' \subseteq Ids
    BY <1>13 DEF PublishFails, Fault, Save, TypeOK, Phases
  <2>2. ServerTyped' /\ MintedTyped' /\ ClientTyped'
    BY <1>13 DEF PublishFails, ServerTyped, MintedTyped, ClientTyped, TypeOK
  <2>3. KeptTyped'
    BY <1>13 DEF PublishFails, Save, KeptTyped, TypeOK
  <2>4. PlaceTyped'
    BY <1>13 DEF PublishFails, PlaceTyped, Phases
  <2>5. HistoryTyped'
    BY <1>13, <2>1 DEF PublishFails, Fault, HistoryTyped, TypeOK
  <2> QED BY <2>2, <2>3, <2>4, <2>5
    DEF TypeOK, ServerTyped, MintedTyped, KeptTyped, ClientTyped, PlaceTyped, HistoryTyped
<1>14. CASE RestoreFails
  BY <1>14 DEF RestoreFails, Fault, Some, TypeOK, Phases
<1>15. CASE RestoreFailsMinted
  <2>1. NewId \in Ids /\ minted' \in Seq(Users) /\ Len(minted') <= MaxLogins + MaxFaults
    <3>1. keptSession \in LoggedIn /\ (Owed \/ Fault)
      BY <1>15 DEF RestoreFailsMinted, Fault, Mint, NewId, User, TypeOK, Made, Phases, Owed
    <3>2. Mint(keptSession)
      BY <1>15 DEF RestoreFailsMinted
    <3> QED BY <3>1, <3>2, MintMakes DEF IInv
  <2>2. leftover' \subseteq Ids
    BY <1>15, <2>1 DEF RestoreFailsMinted, Fault, Mint, NewId, User, TypeOK
  <2>3. ServerTyped' /\ MintedTyped' /\ ClientTyped'
    BY <1>15, <2>1 DEF RestoreFailsMinted, ServerTyped, MintedTyped, ClientTyped, TypeOK
  <2>4. KeptTyped'
    BY <1>15, <2>1 DEF RestoreFailsMinted, Mint, KeptTyped, TypeOK
  <2>5. PlaceTyped'
    BY <1>15 DEF RestoreFailsMinted, PlaceTyped, TypeOK
  <2>6. HistoryTyped'
    BY <1>15, <2>2 DEF RestoreFailsMinted, Fault, HistoryTyped, TypeOK
  <2> QED BY <2>3, <2>4, <2>5, <2>6
    DEF TypeOK, ServerTyped, MintedTyped, KeptTyped, ClientTyped, PlaceTyped, HistoryTyped
<1>16. CASE WipeFails
  BY <1>16 DEF WipeFails, Fault, TypeOK, Phases
<1>17. CASE ClearFails
  BY <1>17 DEF ClearFails, Fault, Some, TypeOK, Phases
<1>18. CASE RestoreBackupUnsaved
  <2>1. GetRoomKey \in Ids /\ HasIdentity
    BY <1>18 DEF RestoreBackupUnsaved, Fault, InUse, GetRoomKey, HasIdentity, User, TypeOK, Made,
        Phases, LoggedIn
  <2>2. leftover' \subseteq Ids /\ unpublished' \subseteq Ids /\ offline' \subseteq Ids
    BY <1>18, <2>1 DEF RestoreBackupUnsaved, Fault, InUse, GetRoomKey, HasIdentity, User, TypeOK,
        Phases
  <2>3. client' \in [token : {0} \cup Tokens, id : {0} \cup Ids, online : BOOLEAN]
    <3>1. client' = [token |-> client.token, id |-> GetRoomKey, online |-> client.online]
      BY <1>18 DEF RestoreBackupUnsaved, Fault, InUse, GetRoomKey, HasIdentity, User, TypeOK
    <3> QED BY <3>1, <2>1 DEF RestoreBackupUnsaved, Fault, InUse, GetRoomKey, HasIdentity, User,
        TypeOK
  <2>4. ServerTyped' /\ MintedTyped' /\ KeptTyped'
    BY <1>18 DEF RestoreBackupUnsaved, ServerTyped, MintedTyped, KeptTyped, TypeOK
  <2>5. client'.token = client.token /\ pc' = pc /\ pc = "in"
    BY <1>18 DEF RestoreBackupUnsaved, InUse, TypeOK
  <2>6. PlaceTyped'
    BY <2>5 DEF PlaceTyped, Phases
  <2>7. HistoryTyped'
    BY <1>18, <2>2 DEF RestoreBackupUnsaved, Fault, HistoryTyped, TypeOK
  <2> QED BY <2>3, <2>4, <2>6, <2>7
    DEF TypeOK, ServerTyped, MintedTyped, KeptTyped, ClientTyped, PlaceTyped, HistoryTyped
<1>19. ASSUME NEW u \in Users, Authenticate(u) PROVE TypeOK'
  <2>1. alive' \subseteq Tokens
    <3>1. Len(logins) + 1 \in Tokens
      BY <1>19 DEF Authenticate, NewToken, TypeOK
    <3> QED BY <1>19, <3>1 DEF Authenticate, NewToken, TypeOK
  <2>2. client' \in [token : {0} \cup Tokens, id : {0} \cup Ids, online : BOOLEAN]
    BY <1>19 DEF Authenticate, NewToken, TypeOK
  <2>3. logins' \in Seq(Users) /\ Len(logins') <= MaxLogins
    BY <1>19 DEF Authenticate, NewToken, TypeOK
  <2>4. client' # NoClient /\ pc' = "store"
    BY <1>19 DEF Authenticate, NewToken, TypeOK
  <2> QED BY <1>19, <2>1, <2>2, <2>3, <2>4 DEF Authenticate, NewToken, TypeOK, Phases
<1>20. CASE Revoke
  BY <1>20 DEF Revoke, Revoked, TypeOK, Phases
<1>21. CASE SaveDevice
  BY <1>21 DEF SaveDevice, Save, HasIdentity, TypeOK, Phases
<1>22. CASE Backup
  BY <1>22 DEF Backup, PutRoomKey, HasIdentity, User, TypeOK, Phases
<1>23. CASE RestoreBackup
  <2>1. GetRoomKey \in Ids /\ HasIdentity
    BY <1>23 DEF RestoreBackup, InUse, Save, GetRoomKey, HasIdentity, User, TypeOK, Made, Phases,
        LoggedIn
  <2>2. leftover' \subseteq Ids /\ unpublished' \subseteq Ids /\ offline' \subseteq Ids
    BY <1>23, <2>1 DEF RestoreBackup, InUse, Save, GetRoomKey, HasIdentity, User, TypeOK, Phases
  <2>3. client' \in [token : {0} \cup Tokens, id : {0} \cup Ids, online : BOOLEAN]
    <3>1. client' = [token |-> client.token, id |-> GetRoomKey, online |-> client.online]
      BY <1>23 DEF RestoreBackup, InUse, Save, GetRoomKey, HasIdentity, User, TypeOK
    <3> QED BY <3>1, <2>1 DEF RestoreBackup, InUse, Save, GetRoomKey, HasIdentity, User, TypeOK
  <2>4. ServerTyped' /\ MintedTyped'
    BY <1>23 DEF RestoreBackup, ServerTyped, MintedTyped, TypeOK
  <2>5. KeptTyped'
    BY <1>23, <2>1 DEF RestoreBackup, Save, KeptTyped, TypeOK
  <2>6. client'.token = client.token /\ pc' = "publish" /\ pc = "in"
    BY <1>23 DEF RestoreBackup, InUse, TypeOK
  <2>7. PlaceTyped'
    BY <2>6 DEF PlaceTyped, Phases
  <2>8. HistoryTyped'
    BY <1>23, <2>2 DEF RestoreBackup, HistoryTyped, TypeOK
  <2> QED BY <2>3, <2>4, <2>5, <2>7, <2>8
    DEF TypeOK, ServerTyped, MintedTyped, KeptTyped, ClientTyped, PlaceTyped, HistoryTyped
<1>24. ASSUME NEW i \in Ids, LateSave(i) PROVE TypeOK'
  BY <1>24 DEF LateSave, TypeOK, Phases
<1>25. ASSUME NEW i \in Ids, LoopEnds(i) PROVE TypeOK'
  BY <1>25 DEF LoopEnds, TypeOK, Phases
<1>26. ASSUME NEW t \in Tokens, Expire(t) PROVE TypeOK'
  BY <1>26 DEF Expire, Revoked, TypeOK, Phases
<1>27. CASE Crash
  <2>1. leftover' \subseteq Ids /\ unpublished' \subseteq Ids /\ offline' \subseteq Ids
    BY <1>27 DEF Crash, Some, TypeOK, Phases
  <2>2. ServerTyped' /\ MintedTyped' /\ KeptTyped'
    BY <1>27 DEF Crash, ServerTyped, MintedTyped, KeptTyped, TypeOK
  <2>3. ClientTyped' /\ PlaceTyped'
    BY <1>27 DEF Crash, ClientTyped, PlaceTyped
  <2>4. HistoryTyped'
    BY <1>27, <2>1 DEF Crash, HistoryTyped, TypeOK
  <2> QED BY <2>2, <2>3, <2>4
    DEF TypeOK, ServerTyped, MintedTyped, KeptTyped, ClientTyped, PlaceTyped, HistoryTyped
<1>28. CASE UNCHANGED vars
  BY <1>28 DEF vars, TypeOK, Phases
<1> QED BY <1>1, <1>2, <1>3, <1>4, <1>5, <1>6, <1>7, <1>8, <1>9, <1>10, <1>11, <1>12, <1>13, <1>14,
    <1>15, <1>16, <1>17, <1>18, <1>19, <1>20, <1>21, <1>22, <1>23, <1>24, <1>25, <1>26, <1>27,
    <1>28
  DEF Next, Step, Failure, RestoreOnline, RestoreOffline, RestoreOrMint, Restoring

\* Every step keeps the numbering, and room for the identities still to be minted.
LEMMA MadeStep == IInv /\ [Next]_vars => Made' /\ Counted'
<1> SUFFICES ASSUME IInv, [Next]_vars PROVE Made' /\ Counted'
  OBVIOUS
<1> USE SessionBounds DEF IInv, server, kept, history, Tokens, Ids, NoClient, SignedIn, Minted,
    LoggedIn
<1>1. CASE Launch
  BY <1>1 DEF Launch, TypeOK, Made, Counted, Owed, Phases
<1>2. ASSUME NEW b \in BOOLEAN, UseKept(b), Restoring PROVE Made' /\ Counted'
  BY <1>2 DEF UseKept, Restored, Restoring, TypeOK, Made, Counted, Owed, Phases
<1>3. ASSUME NEW b \in BOOLEAN, MintAtLaunch(b), Restoring PROVE Made' /\ Counted'
  <2>1. offline' \subseteq Minted'
    <3>1. NewId \in Minted' /\ Minted \subseteq Minted'
      BY <1>3 DEF MintAtLaunch, Restored, Mint, NewId, User, Fault, Restoring, TypeOK
    <3> QED BY <1>3, <3>1 DEF MintAtLaunch, Restored, Mint, NewId, User, Fault, Restoring, TypeOK,
        Made
  <2>2. (old \cup leftover \cup unpublished)' \subseteq Minted'
    BY <1>3 DEF MintAtLaunch, Restored, Mint, NewId, User, Fault, Restoring, TypeOK, Made
  <2>3. {client.id, keptMls}' \subseteq {0} \cup Minted'
    BY <1>3 DEF MintAtLaunch, Restored, Mint, NewId, User, Fault, Restoring, TypeOK, Made
  <2>4. /\ \A t \in Tokens : published'[t] \in {0} \cup Minted'
        /\ \A u \in Users : backup'[u] \in {0} \cup Minted'
    BY <1>3 DEF MintAtLaunch, Restored, Mint, NewId, User, Fault, Restoring, TypeOK, Made
  <2>5. {client.token, keptSession}' \subseteq {0} \cup LoggedIn' /\ alive' \subseteq LoggedIn'
    BY <1>3 DEF MintAtLaunch, Restored, Mint, NewId, User, Fault, Restoring, TypeOK, Made
  <2>6. Made'
    BY <2>1, <2>2, <2>3, <2>4, <2>5 DEF Made
  <2>7. Counted'
    BY <1>3 DEF MintAtLaunch, Restored, Mint, NewId, User, Fault, Restoring, TypeOK, Made, Counted,
        Owed, Phases
  <2> QED BY <2>6, <2>7
<1>4. ASSUME NEW b \in BOOLEAN, NoIdentity(b), Restoring PROVE Made' /\ Counted'
  BY <1>4 DEF NoIdentity, Restored, Fault, Restoring, TypeOK, Made, Counted, Owed, Phases
<1>5. CASE DropDead
  <2>1. Made'
    BY <1>5 DEF DropDead, Some, TypeOK, Made
  <2>2. Counted'
    BY <1>5 DEF DropDead, Fault, TypeOK, Counted, Owed
  <2> QED BY <2>1, <2>2
<1>6. CASE PutSession
  BY <1>6 DEF PutSession, TypeOK, Made, Counted, Owed, Phases
<1>7. CASE MintAtLogin
  <2>1. NewId \in Minted' /\ Minted \subseteq Minted' /\ Len(minted') = Len(minted) + 1
    BY <1>7 DEF MintAtLogin, Mint, NewId, TypeOK
  <2>2. client'.id = NewId /\ client'.token = client.token /\ keptMls' = NewId
    BY <1>7 DEF MintAtLogin, Mint, TypeOK
  <2>3. Made'
    BY <1>7, <2>1, <2>2 DEF MintAtLogin, Made
  <2>4. Counted'
    BY <1>7, <2>1, <2>2 DEF MintAtLogin, NewId, TypeOK, Counted, Owed
  <2> QED BY <2>3, <2>4
<1>8. CASE Publish
  <2>1. Made'
    BY <1>8 DEF Publish, Uploaded, Save, TypeOK, Made, Phases
  <2>2. Counted'
    BY <1>8 DEF Publish, Uploaded, Save, TypeOK, Made, Counted, Owed, Phases
  <2> QED BY <2>1, <2>2
<1>9. CASE WipeSession
  BY <1>9 DEF WipeSession, TypeOK, Made, Counted, Owed, Phases
<1>10. CASE Clear
  BY <1>10 DEF Clear, LoggedOut, Some, TypeOK, Made, Counted, Owed, Phases
<1>11. CASE LoginFails
  <2>1. Made'
    BY <1>11 DEF LoginFails, Fault, TypeOK, Made, Phases
  <2>2. Counted'
    BY <1>11 DEF LoginFails, Fault, TypeOK, Counted, Owed, Phases
  <2> QED BY <2>1, <2>2
<1>12. CASE MintFails
  <2>1. Made'
    BY <1>12 DEF MintFails, Fault, TypeOK, Made, Phases
  <2>2. Counted'
    BY <1>12 DEF MintFails, Fault, TypeOK, Counted, Owed, Phases
  <2> QED BY <2>1, <2>2
<1>13. CASE PublishFails
  <2>1. Made'
    BY <1>13 DEF PublishFails, Fault, Save, TypeOK, Made, Phases
  <2>2. Counted'
    BY <1>13 DEF PublishFails, Fault, Save, TypeOK, Made, Counted, Owed, Phases
  <2> QED BY <2>1, <2>2
<1>14. CASE RestoreFails
  BY <1>14 DEF RestoreFails, Fault, Some, TypeOK, Made, Counted, Owed, Phases
<1>15. CASE RestoreFailsMinted
  <2>1. leftover' \subseteq Minted'
    <3>1. NewId \in Minted' /\ Minted \subseteq Minted'
      BY <1>15 DEF RestoreFailsMinted, Fault, Mint, NewId, User, TypeOK
    <3> QED BY <1>15, <3>1 DEF RestoreFailsMinted, Fault, Mint, NewId, User, TypeOK, Made
  <2>2. (old \cup unpublished \cup offline)' \subseteq Minted'
    BY <1>15 DEF RestoreFailsMinted, Fault, Mint, NewId, User, TypeOK, Made
  <2>3. {client.id, keptMls}' \subseteq {0} \cup Minted'
    BY <1>15 DEF RestoreFailsMinted, Fault, Mint, NewId, User, TypeOK, Made
  <2>4. /\ \A t \in Tokens : published'[t] \in {0} \cup Minted'
        /\ \A u \in Users : backup'[u] \in {0} \cup Minted'
    BY <1>15 DEF RestoreFailsMinted, Fault, Mint, NewId, User, TypeOK, Made
  <2>5. {client.token, keptSession}' \subseteq {0} \cup LoggedIn' /\ alive' \subseteq LoggedIn'
    BY <1>15 DEF RestoreFailsMinted, Fault, Mint, NewId, User, TypeOK, Made
  <2>6. Made'
    BY <2>1, <2>2, <2>3, <2>4, <2>5 DEF Made
  <2>7. Counted'
    BY <1>15 DEF RestoreFailsMinted, Fault, Mint, NewId, User, TypeOK, Made, Counted, Owed, Phases
  <2> QED BY <2>6, <2>7
<1>16. CASE WipeFails
  BY <1>16 DEF WipeFails, Fault, TypeOK, Made, Counted, Owed, Phases
<1>17. CASE ClearFails
  BY <1>17 DEF ClearFails, Fault, Some, TypeOK, Made, Counted, Owed, Phases
<1>18. CASE RestoreBackupUnsaved
  <2>1. GetRoomKey \in Minted
    BY <1>18 DEF RestoreBackupUnsaved, GetRoomKey, User, TypeOK, Made, Phases
  <2>2. client'.id = GetRoomKey /\ client'.token = client.token
    BY <1>18 DEF RestoreBackupUnsaved, InUse, TypeOK
  <2>3. Made'
    BY <1>18, <2>1, <2>2 DEF RestoreBackupUnsaved, Made
  <2>4. Counted'
    BY <1>18 DEF RestoreBackupUnsaved, Fault, TypeOK, Counted, Owed
  <2> QED BY <2>3, <2>4
<1>19. ASSUME NEW u \in Users, Authenticate(u) PROVE Made' /\ Counted'
  <2>1. alive' \subseteq LoggedIn'
    <3>1. Len(logins) + 1 \in LoggedIn' /\ LoggedIn \subseteq LoggedIn'
      BY <1>19 DEF Authenticate, NewToken, TypeOK
    <3> QED BY <1>19, <3>1 DEF Authenticate, NewToken, TypeOK, Made
  <2>2. Made'
    BY <1>19, <2>1 DEF Authenticate, NewToken, TypeOK, Made
  <2>3. Counted'
    BY <1>19 DEF Authenticate, NewToken, TypeOK, Made, Counted, Owed, Phases
  <2> QED BY <2>2, <2>3
<1>20. CASE Revoke
  BY <1>20 DEF Revoke, Revoked, TypeOK, Made, Counted, Owed, Phases
<1>21. CASE SaveDevice
  <2>1. Made'
    BY <1>21 DEF SaveDevice, Save, HasIdentity, TypeOK, Made, Phases
  <2>2. Counted'
    BY <1>21 DEF SaveDevice, Save, HasIdentity, TypeOK, Made, Counted, Owed, Phases
  <2> QED BY <2>1, <2>2
<1>22. CASE Backup
  BY <1>22 DEF Backup, PutRoomKey, HasIdentity, User, TypeOK, Made, Counted, Owed, Phases
<1>23. CASE RestoreBackup
  BY <1>23 DEF RestoreBackup, InUse, Save, GetRoomKey, HasIdentity, User, TypeOK, Made, Counted,
      Owed, Phases
<1>24. ASSUME NEW i \in Ids, LateSave(i) PROVE Made' /\ Counted'
  BY <1>24 DEF LateSave, TypeOK, Made, Counted, Owed, Phases
<1>25. ASSUME NEW i \in Ids, LoopEnds(i) PROVE Made' /\ Counted'
  BY <1>25 DEF LoopEnds, TypeOK, Made, Counted, Owed, Phases
<1>26. ASSUME NEW t \in Tokens, Expire(t) PROVE Made' /\ Counted'
  BY <1>26 DEF Expire, Revoked, TypeOK, Made, Counted, Owed, Phases
<1>27. CASE Crash
  <2>1. Made'
    BY <1>27 DEF Crash, Some, TypeOK, Made, Phases
  <2>2. Counted'
    BY <1>27 DEF Crash, Some, TypeOK, Made, Counted, Owed, Phases
  <2> QED BY <2>1, <2>2
<1>28. CASE UNCHANGED vars
  BY <1>28 DEF vars, TypeOK, Made, Counted, Owed, Phases
<1> QED BY <1>1, <1>2, <1>3, <1>4, <1>5, <1>6, <1>7, <1>8, <1>9, <1>10, <1>11, <1>12, <1>13, <1>14,
    <1>15, <1>16, <1>17, <1>18, <1>19, <1>20, <1>21, <1>22, <1>23, <1>24, <1>25, <1>26, <1>27,
    <1>28
  DEF Next, Step, Failure, RestoreOnline, RestoreOffline, RestoreOrMint, Restoring

\* What the slots hold at each place.
Held ==
  /\ Phases /\ Slots /\ KeptOwn /\ BackupOwn /\ KeptPublished
  /\ KeptIsUsed /\ OwnKeys /\ PublishedIsUsed

\* Every step keeps what the slots hold.
LEMMA HeldStep == IInv /\ [Next]_vars => Held'
<1> SUFFICES ASSUME IInv, [Next]_vars PROVE Held'
  OBVIOUS
<1> USE SessionBounds DEF IInv, server, kept, history, Tokens, Ids, NoClient, SignedIn, Held,
    Minted, LoggedIn, Stray, User
<1>1. CASE Launch
  BY <1>1 DEF Launch, TypeOK, Made, Phases, Slots, KeptOwn, BackupOwn, KeptPublished, KeptIsUsed,
      OwnKeys, PublishedIsUsed
<1>2. ASSUME NEW b \in BOOLEAN, UseKept(b), Restoring PROVE Held'
  BY <1>2 DEF UseKept, Restored, Restoring, TypeOK, Made, Phases, Slots, KeptOwn, BackupOwn,
      KeptPublished, KeptIsUsed, OwnKeys, PublishedIsUsed
<1>3. ASSUME NEW b \in BOOLEAN, MintAtLaunch(b), Restoring PROVE Held'
  BY <1>3 DEF MintAtLaunch, Restored, Mint, NewId, User, Fault, Restoring, TypeOK, Made, Phases,
      Slots, KeptOwn, BackupOwn, KeptPublished, KeptIsUsed, OwnKeys, PublishedIsUsed
<1>4. ASSUME NEW b \in BOOLEAN, NoIdentity(b), Restoring PROVE Held'
  BY <1>4 DEF NoIdentity, Restored, Fault, Restoring, TypeOK, Made, Phases, Slots, KeptOwn,
      BackupOwn, KeptPublished, KeptIsUsed, OwnKeys, PublishedIsUsed
<1>5. CASE DropDead
  BY <1>5 DEF DropDead, Fault, Some, Accepted, TypeOK, Made, Phases, Slots, KeptOwn, BackupOwn,
      KeptPublished, KeptIsUsed, OwnKeys, PublishedIsUsed
<1>6. CASE PutSession
  BY <1>6 DEF PutSession, TypeOK, Made, Phases, Slots, KeptOwn, BackupOwn, KeptPublished,
      KeptIsUsed, OwnKeys, PublishedIsUsed
<1>7. CASE MintAtLogin
  BY <1>7 DEF MintAtLogin, Mint, NewId, User, TypeOK, Made, Phases, Slots, KeptOwn, BackupOwn,
      KeptPublished, KeptIsUsed, OwnKeys, PublishedIsUsed
<1>8. CASE Publish
  BY <1>8 DEF Publish, Uploaded, Save, TypeOK, Made, Phases, Slots, KeptOwn, BackupOwn,
      KeptPublished, KeptIsUsed, OwnKeys, PublishedIsUsed
<1>9. CASE WipeSession
  BY <1>9 DEF WipeSession, TypeOK, Made, Phases, Slots, KeptOwn, BackupOwn, KeptPublished,
      KeptIsUsed, OwnKeys, PublishedIsUsed
<1>10. CASE Clear
  BY <1>10 DEF Clear, LoggedOut, Some, TypeOK, Made, Phases, Slots, KeptOwn, BackupOwn,
      KeptPublished, KeptIsUsed, OwnKeys, PublishedIsUsed
<1>11. CASE LoginFails
  BY <1>11 DEF LoginFails, Fault, TypeOK, Made, Phases, Slots, KeptOwn, BackupOwn, KeptPublished,
      KeptIsUsed, OwnKeys, PublishedIsUsed
<1>12. CASE MintFails
  BY <1>12 DEF MintFails, Fault, TypeOK, Made, Phases, Slots, KeptOwn, BackupOwn, KeptPublished,
      KeptIsUsed, OwnKeys, PublishedIsUsed
<1>13. CASE PublishFails
  BY <1>13 DEF PublishFails, Fault, Save, TypeOK, Made, Phases, Slots, KeptOwn, BackupOwn,
      KeptPublished, KeptIsUsed, OwnKeys, PublishedIsUsed
<1>14. CASE RestoreFails
  BY <1>14 DEF RestoreFails, Fault, Some, TypeOK, Made, Phases, Slots, KeptOwn, BackupOwn,
      KeptPublished, KeptIsUsed, OwnKeys, PublishedIsUsed
<1>15. CASE RestoreFailsMinted
  BY <1>15 DEF RestoreFailsMinted, Fault, Mint, NewId, User, TypeOK, Made, Phases, Slots, KeptOwn,
      BackupOwn, KeptPublished, KeptIsUsed, OwnKeys, PublishedIsUsed
<1>16. CASE WipeFails
  BY <1>16 DEF WipeFails, Fault, TypeOK, Made, Phases, Slots, KeptOwn, BackupOwn, KeptPublished,
      KeptIsUsed, OwnKeys, PublishedIsUsed
<1>17. CASE ClearFails
  BY <1>17 DEF ClearFails, Fault, Some, TypeOK, Made, Phases, Slots, KeptOwn, BackupOwn,
      KeptPublished, KeptIsUsed, OwnKeys, PublishedIsUsed
<1>18. CASE RestoreBackupUnsaved
  BY <1>18 DEF RestoreBackupUnsaved, Fault, InUse, GetRoomKey, HasIdentity, User, TypeOK, Made,
      Phases, Slots, KeptOwn, BackupOwn, KeptPublished, KeptIsUsed, OwnKeys, PublishedIsUsed
<1>19. ASSUME NEW u \in Users, Authenticate(u) PROVE Held'
  BY <1>19 DEF Authenticate, NewToken, TypeOK, Made, Phases, Slots, KeptOwn, BackupOwn,
      KeptPublished, KeptIsUsed, OwnKeys, PublishedIsUsed
<1>20. CASE Revoke
  BY <1>20 DEF Revoke, Revoked, TypeOK, Made, Phases, Slots, KeptOwn, BackupOwn, KeptPublished,
      KeptIsUsed, OwnKeys, PublishedIsUsed
<1>21. CASE SaveDevice
  BY <1>21 DEF SaveDevice, Save, HasIdentity, TypeOK, Made, Phases, Slots, KeptOwn, BackupOwn,
      KeptPublished, KeptIsUsed, OwnKeys, PublishedIsUsed
<1>22. CASE Backup
  BY <1>22 DEF Backup, PutRoomKey, HasIdentity, User, TypeOK, Made, Phases, Slots, KeptOwn,
      BackupOwn, KeptPublished, KeptIsUsed, OwnKeys, PublishedIsUsed
<1>23. CASE RestoreBackup
  BY <1>23 DEF RestoreBackup, InUse, Save, GetRoomKey, HasIdentity, User, TypeOK, Made, Phases,
      Slots, KeptOwn, BackupOwn, KeptPublished, KeptIsUsed, OwnKeys, PublishedIsUsed
<1>24. ASSUME NEW i \in Ids, LateSave(i) PROVE Held'
  BY <1>24 DEF LateSave, TypeOK, Made, Phases, Slots, KeptOwn, BackupOwn, KeptPublished,
      KeptIsUsed, OwnKeys, PublishedIsUsed
<1>25. ASSUME NEW i \in Ids, LoopEnds(i) PROVE Held'
  BY <1>25 DEF LoopEnds, TypeOK, Made, Phases, Slots, KeptOwn, BackupOwn, KeptPublished,
      KeptIsUsed, OwnKeys, PublishedIsUsed
<1>26. ASSUME NEW t \in Tokens, Expire(t) PROVE Held'
  BY <1>26 DEF Expire, Revoked, TypeOK, Made, Phases, Slots, KeptOwn, BackupOwn, KeptPublished,
      KeptIsUsed, OwnKeys, PublishedIsUsed
<1>27. CASE Crash
  BY <1>27 DEF Crash, Some, TypeOK, Made, Phases, Slots, KeptOwn, BackupOwn, KeptPublished,
      KeptIsUsed, OwnKeys, PublishedIsUsed
<1>28. CASE UNCHANGED vars
  BY <1>28 DEF vars, TypeOK, Made, Phases, Slots, KeptOwn, BackupOwn, KeptPublished, KeptIsUsed,
      OwnKeys, PublishedIsUsed
<1> QED BY <1>1, <1>2, <1>3, <1>4, <1>5, <1>6, <1>7, <1>8, <1>9, <1>10, <1>11, <1>12, <1>13, <1>14,
    <1>15, <1>16, <1>17, <1>18, <1>19, <1>20, <1>21, <1>22, <1>23, <1>24, <1>25, <1>26, <1>27,
    <1>28
  DEF Next, Step, Failure, RestoreOnline, RestoreOffline, RestoreOrMint, Restoring

------------------------------------------------------------------------------
\* The inductive invariant holds in every run.
THEOREM Invariance == Spec => []IInv
<1>1. Init => IInv
  <2> SUFFICES ASSUME Init PROVE IInv
    OBVIOUS
  <2> USE SessionBounds DEF Init, Tokens, Ids, NoClient, SignedIn
  <2>1. <<>> \in Seq(Users)
    BY EmptySeq
  <2>2. TypeOK
    <3>1. client \in [token : {0} \cup Tokens, id : {0} \cup Ids, online : BOOLEAN]
      OBVIOUS
    <3>2. /\ logins \in Seq(Users) /\ minted \in Seq(Users)
          /\ Len(logins) <= MaxLogins /\ Len(minted) <= MaxLogins + MaxFaults
      BY <2>1
    <3>3. /\ published \in [Tokens -> {0} \cup Ids] /\ backup \in [Users -> {0} \cup Ids]
          /\ alive \subseteq Tokens
      OBVIOUS
    <3>4. /\ keptSession \in {0} \cup Tokens /\ keptMls \in {0} \cup Ids /\ old \subseteq Ids
          /\ leftover \subseteq Ids /\ unpublished \subseteq Ids /\ offline \subseteq Ids
      OBVIOUS
    <3>6. launches \in 0..MaxLaunches /\ faults \in 0..MaxFaults
      OBVIOUS
    <3>7. signedOff \in BOOLEAN
      BY Zenon
    <3>5. /\ pc \in {"launch", "whoami", "out", "store", "mint", "publish"} \cup SignedIn
          /\ pc \in {"launch", "whoami", "out"} <=> client = NoClient
      OBVIOUS
    <3> QED BY <3>1, <3>2, <3>3, <3>4, <3>5, <3>6, <3>7 DEF TypeOK
  <2>3. Made /\ Counted /\ Phases /\ Slots
    BY DEF Made, Counted, Phases, Slots, Owed, Stray, Minted, LoggedIn
  <2>4. KeptOwn /\ BackupOwn /\ KeptPublished
    BY DEF KeptOwn, BackupOwn, KeptPublished
  <2>5. KeptIsUsed /\ OwnKeys /\ PublishedIsUsed
    BY DEF KeptIsUsed, OwnKeys, PublishedIsUsed
  <2> QED BY <2>2, <2>3, <2>4, <2>5 DEF IInv
<1>2. IInv /\ [Next]_vars => IInv'
  BY TypeStep, MadeStep, HeldStep DEF IInv, Held
<1> QED BY <1>1, <1>2, PTL DEF Spec

\* Every state has its types, and no run of logins and faults needs more identities than it is
\* given room for.
THEOREM Typed == Spec => []TypeOK
<1>1. IInv => TypeOK
  BY DEF IInv
<1> QED BY <1>1, Invariance, PTL

\* After logout no launch finds the session, nor an MLS state that did not come back behind it.
THEOREM LogoutIsFinal == Spec => []LogoutSticks
<1>1. IInv => LogoutSticks
  BY DEF IInv, Phases, Slots, Stray, LogoutSticks
<1> QED BY <1>1, Invariance, PTL

\* The keystore holds the identity in use, but for the exceptions KeptIsUsed names.
THEOREM RelaunchFindsIdentity == Spec => []KeptIsUsed
<1>1. IInv => KeptIsUsed
  BY DEF IInv
<1> QED BY <1>1, Invariance, PTL

\* Only an identity left behind by another session can be another account's.
THEOREM KeysAreOwn == Spec => []OwnKeys
<1>1. IInv => OwnKeys
  BY DEF IInv
<1> QED BY <1>1, Invariance, PTL

\* The server hands out KeyPackages of the identity in use, but for the exceptions PublishedIsUsed
\* names.
THEOREM KeysArePublished == Spec => []PublishedIsUsed
<1>1. IInv => PublishedIsUsed
  BY DEF IInv
<1> QED BY <1>1, Invariance, PTL

\* Only a login, a logout or a rejected token changes the saved session.
THEOREM SessionStays == Spec => SessionIsKept
<1> DEFINE Changes ==
      keptSession' # keptSession =>
        \/ pc = "store" /\ keptSession' = client.token
        \/ keptSession' = 0 /\ (pc = "wipe" \/ keptSession \notin alive)
<1>1. [Next]_vars => [Changes]_vars
  <2> USE DEF kept, server, history, Save, Mint, Fault
  <2>1. Step => Changes
    BY DEF Step, Launch, RestoreOnline, RestoreOrMint, UseKept, MintAtLaunch, NoIdentity, DropDead,
           Accepted, PutSession, MintAtLogin, Publish, WipeSession, Clear
  <2>2. Failure => Changes
    BY DEF Failure, LoginFails, MintFails, PublishFails, RestoreFails, RestoreFailsMinted,
           WipeFails, ClearFails, RestoreBackupUnsaved
  <2>3. RestoreOffline \/ Revoke \/ SaveDevice \/ Backup \/ RestoreBackup \/ Crash => Changes
    BY DEF RestoreOffline, RestoreOrMint, UseKept, MintAtLaunch, NoIdentity, Revoke, SaveDevice,
           Backup, RestoreBackup, Crash
  <2>4. (\E u \in Users : Authenticate(u)) \/ (\E t \in Tokens : Expire(t)) => Changes
    BY DEF Authenticate, Expire
  <2>5. (\E i \in Ids : LateSave(i) \/ LoopEnds(i)) => Changes
    BY DEF LateSave, LoopEnds
  <2> QED BY <2>1, <2>2, <2>3, <2>4, <2>5 DEF Next
<1> QED BY <1>1, PTL DEF Spec, SessionIsKept
==============================================================================
