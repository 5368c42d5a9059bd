---- MODULE UsageCredentialsProofs ----
(***************************************************************************)
(* The safety of UsageCredentials for any grants, identities and limit,    *)
(* and any number of faults; then that of the components it shares a run   *)
(* with: UsageCounters, AgentUpdate, Heartbeats and AgentInstall.          *)
(*                                                                         *)
(* The invariant says what a reconciliation knows of the rows while it is  *)
(* under way: nobody else creates, revokes or installs an identity, so     *)
(* what it wants and what it takes out are still those of the rows; the    *)
(* file it has written is the one it wants; and the file it would take     *)
(* back serves what clients were given and nothing that was removed. Of a  *)
(* download it says that it is alone, and that the room it counted is      *)
(* still there.                                                            *)
(***************************************************************************)
EXTENDS UsageCredentials, Sequences, FiniteSetTheorems, TLAPS

Stages == {"idle", "read", "write", "register", "apply", "remove", "verify", "undo"}
Syncs == [at : Stages, may : BOOLEAN, want : SUBSET Ids, gone : SUBSET Ids,
          before : Configs \cup {Nothing}, restart : BOOLEAN, written : BOOLEAN, owned : BOOLEAN]

\* A configuration that serves whoever has been verified, and nobody that was removed.
Serves(users) == (prepared => installed \ revoked \subseteq users) /\ removed \cap users = {}

\* The rows do not change under a reconciliation.
UnderWay ==
    sync.at # "idle" =>
        /\ download = NoDownload
        /\ sync.want = Created \ revoked /\ sync.gone = revoked \ removed

WrittenFile ==
    sync.at \in {"register", "apply", "remove", "verify"} => file = Config(sync.want, TRUE)

\* What a failed reconciliation may take back.
Restorable ==
    sync.at \in {"write", "register", "apply", "remove", "verify"} \/ sync.written =>
        sync.before \in Configs /\ Serves(sync.before.users)

AtRest == sync.at = "idle" => sync = NoSync

OneDownload ==
    /\ \A g, h \in Grants : download[g] # "none" /\ download[h] # "none" => g = h
    /\ \A g \in Grants : download[g] = "room" => ~Full

IInv ==
    /\ TypeOK
    /\ exported \subseteq installed
    /\ Serves(file.users) /\ Serves(runtime)
    /\ UnderWay /\ WrittenFile /\ Restorable /\ AtRest
    /\ OneDownload
    /\ IsFiniteSet(Created) /\ WithinLimit

-----------------------------------------------------------------------------
(* Types. *)

LEMMA Typing ==
    TypeOK <=>
        /\ grant \in [Ids -> Grants \cup {Nothing}]
        /\ lookup \subseteq Created /\ installed \subseteq Created
        /\ revoked \subseteq Created /\ removed \subseteq revoked
        /\ prepared \in BOOLEAN /\ valid \subseteq Grants
        /\ file \in Configs /\ manifest \in Configs /\ runtime \subseteq Ids
        /\ sync \in Syncs
        /\ download \in [Grants -> {"none", "room", "full"}]
        /\ exported \subseteq Ids /\ faults \in 0 .. MaxFaults
BY DEF TypeOK, Syncs, Stages

LEMMA TypingNext ==
    ASSUME /\ grant' \in [Ids -> Grants \cup {Nothing}]
           /\ lookup' \subseteq Created' /\ installed' \subseteq Created'
           /\ revoked' \subseteq Created' /\ removed' \subseteq revoked'
           /\ prepared' \in BOOLEAN /\ valid' \subseteq Grants
           /\ file' \in Configs /\ manifest' \in Configs /\ runtime' \subseteq Ids
           /\ sync' \in Syncs
           /\ download' \in [Grants -> {"none", "room", "full"}]
           /\ exported' \subseteq Ids /\ faults' \in 0 .. MaxFaults
    PROVE TypeOK'
BY DEF TypeOK, Syncs, Stages

LEMMA ConfigType ==
    ASSUME NEW users \in SUBSET Ids, NEW ready \in BOOLEAN
    PROVE /\ Config(users, ready) \in Configs
          /\ Config(users, ready).users = users /\ Config(users, ready).ready = ready
BY DEF Config, Configs

LEMMA ConfigUsers ==
    ASSUME NEW c \in Configs
    PROVE c.users \subseteq Ids /\ c.ready \in BOOLEAN
BY DEF Configs

LEMMA AtRestFields ==
    /\ NoSync \in Syncs /\ NoSync.at = "idle" /\ ~NoSync.written
    /\ NoDownload \in [Grants -> {"none", "room", "full"}]
    /\ \A g \in Grants : NoDownload[g] = "none"
BY DEF NoSync, NoDownload, Syncs, Stages

LEMMA CreatedIds == Created \subseteq Ids
BY DEF Created

\* A reconciliation moves from one stage to the next.
LEMMA Stage ==
    ASSUME NEW s \in Syncs, NEW at \in Stages
    PROVE LET t == [s EXCEPT !.at = at] IN
          /\ t \in Syncs /\ t.at = at /\ t.may = s.may /\ t.want = s.want /\ t.gone = s.gone
          /\ t.before = s.before /\ t.restart = s.restart /\ t.written = s.written /\ t.owned = s.owned
BY DEF Syncs

\* With fewer identities that are not removed, there is no less room.
LEMMA Fewer ==
    ASSUME NEW S, NEW T, IsFiniteSet(S), T \subseteq S, Cardinality(S) <= Limit
    PROVE IsFiniteSet(T) /\ Cardinality(T) <= Limit
<1>1. IsFiniteSet(T) /\ Cardinality(T) <= Cardinality(S)
    BY FS_Subset
<1>2. Cardinality(S) \in Nat /\ Cardinality(T) \in Nat
    BY <1>1, FS_CardinalityType
<1> QED BY <1>1, <1>2, CredentialAssumption

-----------------------------------------------------------------------------
(* What most steps have in common. *)

\* The rows and what the downloads counted stay as they are.
LEMMA SameRows ==
    ASSUME IInv, UNCHANGED <<grant, removed, download>>
    PROVE Created' = Created /\ OneDownload' /\ IsFiniteSet(Created)' /\ WithinLimit'
<1>1. Created' = Created
    BY DEF Created
<1>2. Full' = Full
    BY <1>1 DEF Full
<1>3. OneDownload'
    BY <1>2 DEF IInv, OneDownload
<1> QED BY <1>1, <1>3 DEF IInv, WithinLimit

\* A step of the reconciliation that leaves the rows and the downloads alone.
LEMMA SyncStep ==
    ASSUME IInv, UNCHANGED <<rows, valid, download, exported>>, faults' \in 0 .. MaxFaults,
           sync.at # "idle", sync' \in Syncs, sync'.at # "idle",
           sync'.want = sync.want, sync'.gone = sync.gone,
           file' \in Configs, manifest' \in Configs, runtime' \subseteq Ids,
           Serves(file'.users), Serves(runtime'),
           WrittenFile', Restorable'
    PROVE IInv'
<1>1. UNCHANGED <<grant, lookup, installed, revoked, removed, prepared, valid, download, exported>>
    BY DEF rows
<1>2. Created' = Created /\ OneDownload' /\ IsFiniteSet(Created)' /\ WithinLimit'
    BY <1>1, SameRows
<1>3. TypeOK'
    BY <1>1, <1>2, Typing, TypingNext DEF IInv
<1>4. (exported \subseteq installed)' /\ Serves(file.users)' /\ Serves(runtime)'
    BY <1>1 DEF IInv, Serves
<1>5. UnderWay' /\ AtRest'
    BY <1>1, <1>2 DEF IInv, UnderWay, AtRest
<1> QED BY <1>2, <1>3, <1>4, <1>5 DEF IInv

\* Nothing is being reconciled any more, and no identity was created.
LEMMA SyncEnds ==
    ASSUME IInv, UNCHANGED <<grant, lookup, valid, exported, revoked>>, faults' \in 0 .. MaxFaults,
           sync' = NoSync, installed \subseteq installed', installed' \subseteq Created,
           removed \subseteq removed', removed' \subseteq revoked, prepared' \in BOOLEAN,
           \/ download' = NoDownload
           \/ UNCHANGED <<download, removed>>,
           file' \in Configs, manifest' \in Configs, runtime' \subseteq Ids,
           Serves(file.users)', Serves(runtime)'
    PROVE IInv'
<1>1. Created' = Created
    BY DEF Created
<1>2. IsFiniteSet(Created)' /\ WithinLimit'
    <2>1. IsFiniteSet(Created) /\ WithinLimit
        BY DEF IInv
    <2>2. IsFiniteSet(Created \ removed)
        BY <2>1, FS_Subset
    <2>3. Created' \ removed' \subseteq Created \ removed
        BY <1>1
    <2> QED BY <1>1, <2>1, <2>2, <2>3, Fewer DEF WithinLimit
<1>3. OneDownload' /\ download' \in [Grants -> {"none", "room", "full"}]
    <2>1. CASE download' = NoDownload
        BY <2>1, AtRestFields DEF OneDownload
    <2>2. CASE UNCHANGED <<download, removed>>
        BY <2>2, SameRows, Typing DEF IInv
    <2> QED BY <2>1, <2>2
<1>4. TypeOK'
    BY <1>1, <1>3, AtRestFields, Typing, TypingNext DEF IInv
<1>5. UnderWay' /\ WrittenFile' /\ Restorable' /\ AtRest'
    BY AtRestFields DEF UnderWay, WrittenFile, Restorable, AtRest
<1>6. (exported \subseteq installed)'
    BY DEF IInv
<1> QED BY <1>2, <1>3, <1>4, <1>5, <1>6 DEF IInv

-----------------------------------------------------------------------------
LEMMA InitSafe == Init => IInv
<1> SUFFICES ASSUME Init PROVE IInv
    OBVIOUS
<1>1. Created = {}
    BY CredentialAssumption DEF Init, Created
<1>2. {} \in SUBSET Ids /\ FALSE \in BOOLEAN
    OBVIOUS
<1>3. file \in Configs /\ manifest \in Configs /\ file.users = {}
    BY <1>2, ConfigType DEF Init
<1>4. grant \in [Ids -> Grants \cup {Nothing}] /\ faults \in 0 .. MaxFaults
    BY CredentialAssumption DEF Init
<1>5. TypeOK
    BY <1>1, <1>3, <1>4, AtRestFields, Typing DEF Init
<1>6. Serves(file.users) /\ Serves(runtime)
    BY <1>3 DEF Init, Serves
<1>7. UnderWay /\ WrittenFile /\ Restorable /\ AtRest
    BY AtRestFields DEF Init, UnderWay, WrittenFile, Restorable, AtRest
<1>8. OneDownload
    BY AtRestFields DEF Init, OneDownload
<1>9. IsFiniteSet(Created) /\ WithinLimit
    BY <1>1, FS_EmptySet, CredentialAssumption DEF Init, WithinLimit
<1> QED BY <1>1, <1>5, <1>6, <1>7, <1>8, <1>9 DEF IInv, Init

-----------------------------------------------------------------------------
(* Downloads. *)

LEMMA RotateSafe ==
    ASSUME IInv, UNCHANGED <<rows, remote, sync, download, exported, faults>>, valid' \subseteq Grants
    PROVE IInv'
<1>1. UNCHANGED <<grant, lookup, installed, revoked, removed, prepared, file, manifest, runtime>>
    BY DEF rows, remote
<1>2. Created' = Created /\ OneDownload' /\ IsFiniteSet(Created)' /\ WithinLimit'
    BY <1>1, SameRows
<1>3. TypeOK'
    BY <1>1, <1>2, Typing, TypingNext DEF IInv
<1>4. (exported \subseteq installed)' /\ Serves(file.users)' /\ Serves(runtime)'
    BY <1>1 DEF IInv, Serves
<1>5. UnderWay' /\ WrittenFile' /\ AtRest'
    BY <1>1, <1>2 DEF IInv, UnderWay, WrittenFile, AtRest
<1>6. Restorable'
    BY <1>1 DEF IInv, Restorable, Serves
<1> QED BY <1>2, <1>3, <1>4, <1>5, <1>6 DEF IInv

\* A download under way excludes reconciliations.
LEMMA Alone ==
    ASSUME IInv, NEW g \in Grants, download[g] # "none"
    PROVE sync = NoSync
<1>1. download # NoDownload
    BY AtRestFields
<1> QED BY <1>1 DEF IInv, UnderWay, AtRest

\* What holds of any step while nothing is being reconciled that leaves the node alone.
LEMMA DownloadStep ==
    ASSUME IInv, sync = NoSync,
           UNCHANGED <<installed, revoked, removed, prepared, valid, remote, sync, faults>>,
           grant' \in [Ids -> Grants \cup {Nothing}], lookup' \subseteq Created', Created \subseteq Created',
           download' \in [Grants -> {"none", "room", "full"}],
           exported' \subseteq installed',
           OneDownload', IsFiniteSet(Created)', WithinLimit'
    PROVE IInv'
<1>1. UNCHANGED <<file, manifest, runtime>>
    BY DEF remote
<1>2. exported' \subseteq Ids
    BY CreatedIds, Typing DEF IInv
<1>3. TypeOK'
    BY <1>1, <1>2, Typing, TypingNext DEF IInv
<1>4. Serves(file.users)' /\ Serves(runtime)'
    BY <1>1 DEF IInv, Serves
<1>5. UnderWay' /\ WrittenFile' /\ Restorable' /\ AtRest'
    BY AtRestFields DEF UnderWay, WrittenFile, Restorable, AtRest
<1> QED BY <1>3, <1>4, <1>5 DEF IInv

LEMMA BeginSafe ==
    ASSUME IInv, NEW g \in Grants, DownloadBegin(g)
    PROVE IInv'
<1>1. /\ sync = NoSync /\ download = NoDownload
      /\ download' = [download EXCEPT ![g] = IF Full THEN "full" ELSE "room"]
      /\ UNCHANGED <<grant, lookup, installed, revoked, removed, prepared, valid, remote, sync, exported, faults>>
    BY DEF DownloadBegin, UsageLockFree, rows
<1>2. Created' = Created /\ Full' = Full /\ WithinLimit' /\ IsFiniteSet(Created)'
    BY <1>1 DEF Created, Full, IInv, WithinLimit
<1>3. download' \in [Grants -> {"none", "room", "full"}]
    BY <1>1, AtRestFields
<1>4. \A h \in Grants : download'[h] # "none" => h = g
    BY <1>1, AtRestFields
<1>5. \A h \in Grants : download'[h] = "room" => ~Full
    BY <1>1, <1>4, AtRestFields
<1>6. OneDownload'
    BY <1>2, <1>4, <1>5 DEF OneDownload
<1> QED BY <1>1, <1>2, <1>3, <1>6, DownloadStep, Typing DEF IInv

\* Whoever leaves the lock leaves nobody in it.
LEMMA Left ==
    ASSUME IInv, NEW g \in Grants, download[g] # "none", download' = [download EXCEPT ![g] = "none"]
    PROVE /\ download' \in [Grants -> {"none", "room", "full"}]
          /\ \A h \in Grants : download'[h] = "none"
<1>1. download \in [Grants -> {"none", "room", "full"}]
    BY Typing DEF IInv
<1>2. \A h \in Grants : download[h] # "none" => h = g
    BY DEF IInv, OneDownload
<1> QED BY <1>1, <1>2

LEMMA PublishSafe ==
    ASSUME IInv, NEW g \in Grants, Publish(g)
    PROVE IInv'
<1>1. /\ download[g] # "none" /\ download' = [download EXCEPT ![g] = "none"]
      /\ UNCHANGED <<grant, lookup, installed, revoked, removed, prepared, valid, remote, sync, faults>>
    BY DEF Publish, rows
<1>2. PICK i \in Found(g) \ revoked : exported' = IF Usable(i) THEN exported \cup {i} ELSE exported
    BY DEF Publish
<1>3. sync = NoSync
    BY <1>1, Alone
<1>4. exported' \subseteq installed
    BY <1>2 DEF IInv, Usable
<1>5. Created' = Created /\ IsFiniteSet(Created)' /\ WithinLimit'
    BY <1>1 DEF Created, IInv, WithinLimit
<1>6. OneDownload' /\ download' \in [Grants -> {"none", "room", "full"}]
    BY <1>1, Left DEF OneDownload
<1> QED BY <1>1, <1>3, <1>4, <1>5, <1>6, DownloadStep, Typing DEF IInv

\* The room that was counted is still there when the identity is created.
LEMMA CreateSafe ==
    ASSUME IInv, NEW g \in Grants, Create(g)
    PROVE IInv'
<1>1. /\ download[g] # "none" /\ download' = [download EXCEPT ![g] = "none"]
      /\ UNCHANGED <<installed, revoked, removed, prepared, valid, remote, sync, exported, faults>>
    BY DEF Create
<1>2. sync = NoSync
    BY <1>1, Alone
<1>3. OneDownload' /\ download' \in [Grants -> {"none", "room", "full"}]
    BY <1>1, Left DEF OneDownload
<1>4. grant \in [Ids -> Grants \cup {Nothing}] /\ lookup \subseteq Created /\ exported \subseteq installed
      /\ IsFiniteSet(Created) /\ WithinLimit
    BY Typing DEF IInv
<1>5. CASE UNCHANGED <<grant, lookup>>
    <2>1. Created' = Created /\ WithinLimit' /\ IsFiniteSet(Created)'
        BY <1>1, <1>4, <1>5 DEF Created, WithinLimit
    <2> QED BY <1>1, <1>2, <1>3, <1>4, <1>5, <2>1, DownloadStep
<1>6. ASSUME download[g] = "room", NEW i \in Ids \ Created,
             grant' = [grant EXCEPT ![i] = g], lookup' = (lookup \ Found(g)) \cup {i}
      PROVE IInv'
    <2>1. grant' \in [Ids -> Grants \cup {Nothing}] /\ g # Nothing
        BY <1>4, <1>6, CredentialAssumption
    <2>2. Created' = Created \cup {i}
        BY <1>4, <1>6, <2>1 DEF Created
    <2>3. IsFiniteSet(Created)'
        BY <1>4, <2>2, FS_AddElement
    <2>4. ~Full
        BY <1>6 DEF IInv, OneDownload
    <2>5. WithinLimit'
        <3> DEFINE left == Created \ removed
        <3>1. IsFiniteSet(left)
            BY <1>4, FS_Subset
        <3>2. (Created \ removed)' \subseteq left \cup {i}
            BY <1>1, <2>2
        <3>3. IsFiniteSet(left \cup {i}) /\ Cardinality(left \cup {i}) <= Cardinality(left) + 1
            <4>1. i \notin left
                BY <1>6
            <4> HIDE DEF left
            <4>2. Cardinality(left) \in Nat
                BY <3>1, FS_CardinalityType
            <4>3. IsFiniteSet(left \cup {i}) /\ Cardinality(left \cup {i}) = Cardinality(left) + 1
                BY <3>1, <4>1, FS_AddElement
            <4> QED BY <4>2, <4>3
        <3>4. Cardinality(left) \in Nat /\ Cardinality(left) < Limit
            BY <2>4, <3>1, FS_CardinalityType, CredentialAssumption DEF Full
        <3>5. Cardinality(left \cup {i}) \in Nat
            BY <3>3, FS_CardinalityType
        <3>6. Cardinality(left \cup {i}) <= Limit
            BY <3>3, <3>4, <3>5, CredentialAssumption
        <3> HIDE DEF left
        <3> QED BY <3>2, <3>3, <3>6, Fewer DEF WithinLimit
    <2>6. lookup' \subseteq Created'
        BY <1>4, <1>6, <2>2
    <2>7. exported' \subseteq installed'
        BY <1>1, <1>4
    <2> QED BY <1>1, <1>2, <1>3, <2>1, <2>2, <2>3, <2>5, <2>6, <2>7, DownloadStep
<1> QED BY <1>5, <1>6 DEF Create

-----------------------------------------------------------------------------
(* The reconciliation. *)

LEMMA SyncBeginSafe ==
    ASSUME IInv, NEW may \in BOOLEAN, SyncBegin(may)
    PROVE IInv'
<1>1. /\ sync = NoSync /\ download = NoDownload /\ revoked' = revoked \cup Invalid
      /\ sync' = [NoSync EXCEPT !.at = "read", !.may = may, !.want = Created \ revoked',
                               !.gone = Outstanding(revoked')]
      /\ UNCHANGED <<grant, lookup, installed, removed, prepared, valid, file, manifest, runtime,
                     download, exported, faults>>
    BY DEF SyncBegin, UsageLockFree, remote
<1>2. Created' = Created /\ OneDownload' /\ IsFiniteSet(Created)' /\ WithinLimit'
    BY <1>1, SameRows
<1>3. revoked' \subseteq Created /\ revoked \subseteq revoked'
    BY <1>1, Typing DEF IInv, Invalid
<1>4. Created \ revoked' \in SUBSET Ids /\ Outstanding(revoked') \in SUBSET Ids
    BY <1>3, CreatedIds DEF Outstanding
<1>5. /\ sync' \in Syncs /\ sync'.at = "read" /\ sync'.written = FALSE
      /\ sync'.want = Created \ revoked' /\ sync'.gone = Outstanding(revoked')
    <2> DEFINE want == Created \ revoked'
               gone == Outstanding(revoked')
    <2> HIDE DEF want, gone
    <2>1. want \in SUBSET Ids /\ gone \in SUBSET Ids
        BY <1>4 DEF want, gone
    <2>2. sync' = [NoSync EXCEPT !.at = "read", !.may = may, !.want = want, !.gone = gone]
        BY <1>1 DEF want, gone
    <2>3. sync' \in Syncs /\ sync'.at = "read" /\ sync'.written = FALSE
          /\ sync'.want = want /\ sync'.gone = gone
        BY <2>1, <2>2, AtRestFields DEF Syncs, Stages
    <2> QED BY <2>3 DEF want, gone
<1>6. TypeOK'
    BY <1>1, <1>2, <1>3, <1>5, Typing, TypingNext DEF IInv
<1>7. UnderWay'
    BY <1>1, <1>2, <1>5 DEF UnderWay, Outstanding
<1>8. WrittenFile' /\ Restorable' /\ AtRest'
    BY <1>5 DEF WrittenFile, Restorable, AtRest
<1>9. (exported \subseteq installed)' /\ Serves(file.users)' /\ Serves(runtime)'
    BY <1>1, <1>3 DEF IInv, Serves
<1> QED BY <1>2, <1>6, <1>7, <1>8, <1>9 DEF IInv

\* What everybody that is wanted is served by, and nobody that was removed.
LEMMA WantedServes ==
    ASSUME IInv, sync.at # "idle"
    PROVE /\ Serves(sync.want) /\ sync.want \in SUBSET Ids
          /\ Config(sync.want, TRUE) \in Configs /\ Config(sync.want, TRUE).users = sync.want
          /\ \A users : sync.want \subseteq users /\ removed \cap users = {} => Serves(users)
<1>1. sync.want = Created \ revoked /\ installed \subseteq Created /\ removed \subseteq revoked
    BY Typing DEF IInv, UnderWay
<1>2. sync.want \in SUBSET Ids /\ TRUE \in BOOLEAN
    BY <1>1, CreatedIds
<1>3. Config(sync.want, TRUE) \in Configs /\ Config(sync.want, TRUE).users = sync.want
    BY <1>2, ConfigType
<1> QED BY <1>1, <1>2, <1>3 DEF Serves

LEMMA ReadConfigSafe ==
    ASSUME IInv, ReadConfig
    PROVE IInv'
<1>1. /\ sync.at = "read"
      /\ UNCHANGED <<grant, lookup, installed, revoked, removed, valid, file, manifest, runtime,
                     download, exported, faults>>
    BY DEF ReadConfig, remote
<1>2. /\ sync \in Syncs /\ faults \in 0 .. MaxFaults /\ installed \subseteq Created /\ removed \subseteq revoked
      /\ prepared \in BOOLEAN /\ file \in Configs /\ manifest \in Configs /\ runtime \subseteq Ids
      /\ Serves(file.users) /\ Serves(runtime)
    BY Typing DEF IInv
<1>3. CASE sync' = NoSync /\ prepared' = (prepared /\ file # manifest)
    <2>1. prepared' \in BOOLEAN /\ (prepared' => prepared)
        BY <1>3
    <2>2. Serves(file.users)' /\ Serves(runtime)'
        BY <1>1, <1>2, <2>1 DEF Serves
    <2> QED BY <1>1, <1>2, <1>3, <2>1, <2>2, SyncEnds
<1>4. CASE /\ sync' = [sync EXCEPT !.at = "write", !.before = file, !.restart = ~file.ready]
           /\ UNCHANGED prepared
    <2> DEFINE restart == ~file.ready
    <2>1. restart \in BOOLEAN
        OBVIOUS
    <2>2. sync' = [sync EXCEPT !.at = "write", !.before = file, !.restart = restart]
        BY <1>4
    <2> HIDE DEF restart
    <2>3. /\ sync' \in Syncs /\ sync'.at = "write" /\ sync'.before = file
          /\ sync'.want = sync.want /\ sync'.gone = sync.gone
        BY <1>2, <2>1, <2>2 DEF Syncs, Stages
    <2>4. Serves(file.users)'
        BY <1>1, <1>2, <1>4 DEF Serves
    <2>5. WrittenFile' /\ Restorable'
        BY <1>1, <1>2, <2>3, <2>4 DEF WrittenFile, Restorable
    <2>6. UNCHANGED <<rows, valid, download, exported>>
        BY <1>1, <1>4 DEF rows
    <2> QED BY <1>1, <1>2, <2>3, <2>5, <2>6, SyncStep
<1> QED BY <1>3, <1>4 DEF ReadConfig

LEMMA ActivateSafe ==
    ASSUME IInv, Activate
    PROVE IInv'
<1>1. /\ sync.at = "write" /\ file' = Config(sync.want, TRUE)
      /\ UNCHANGED <<rows, valid, manifest, runtime, download, exported, faults>>
    BY DEF Activate
<1>2. /\ sync \in Syncs /\ faults \in 0 .. MaxFaults /\ manifest \in Configs /\ runtime \subseteq Ids
      /\ Serves(runtime) /\ sync.before \in Configs /\ Serves(sync.before.users)
    BY <1>1, Typing DEF IInv, Restorable
<1>3. file' \in Configs /\ Serves(file'.users)
    BY <1>1, WantedServes
<1>4. /\ sync' \in Syncs /\ sync'.at \in {"apply", "register"}
      /\ sync'.want = sync.want /\ sync'.gone = sync.gone /\ sync'.before = sync.before
    <2>1. CASE sync' = [sync EXCEPT !.at = "apply"]
        BY <1>2, <2>1, Stage DEF Stages
    <2>2. CASE sync' = [sync EXCEPT !.at = "register", !.written = TRUE]
        BY <1>2, <2>2 DEF Syncs, Stages
    <2> QED BY <2>1, <2>2 DEF Activate
<1>5. WrittenFile'
    BY <1>1, <1>4 DEF WrittenFile
<1>6. Restorable'
    BY <1>1, <1>2, <1>4 DEF Restorable, Serves, rows
<1> QED BY <1>1, <1>2, <1>3, <1>4, <1>5, <1>6, SyncStep

\* A step of the reconciliation from which its file can be taken back as before.
LEMMA StageSafe ==
    ASSUME IInv, NEW at \in Stages \ {"idle"},
           UNCHANGED <<rows, valid, download, exported>>, faults' \in 0 .. MaxFaults,
           sync.at \in {"write", "register", "apply", "remove", "verify"} \/ at = "undo", sync.at # "idle",
           \/ sync' = [sync EXCEPT !.at = at]
           \/ sync' = [sync EXCEPT !.at = at, !.owned = TRUE],
           at # "undo" => file' = Config(sync.want, TRUE),
           file' \in Configs, manifest' \in Configs, runtime' \subseteq Ids,
           Serves(file'.users), Serves(runtime')
    PROVE IInv'
<1>1. sync \in Syncs
    BY Typing DEF IInv
<1>2. /\ sync' \in Syncs /\ sync'.at = at /\ sync'.want = sync.want /\ sync'.gone = sync.gone
      /\ sync'.before = sync.before /\ sync'.written = sync.written
    BY <1>1 DEF Syncs
<1>3. WrittenFile'
    BY <1>2 DEF WrittenFile
<1>4. Restorable'
    <2>1. sync'.at \in {"write", "register", "apply", "remove", "verify"} \/ sync'.written
            => sync.before \in Configs /\ Serves(sync.before.users)
        BY <1>2 DEF IInv, Restorable
    <2> QED BY <1>2, <2>1 DEF Restorable, Serves, rows
<1> QED BY <1>2, <1>3, <1>4, SyncStep DEF Stages

LEMMA RegisterSafe ==
    ASSUME IInv, Register
    PROVE IInv'
<1>1. /\ sync.at = "register" /\ manifest' = file /\ sync' = [sync EXCEPT !.at = "apply", !.owned = TRUE]
      /\ UNCHANGED <<rows, valid, file, runtime, download, exported, faults>>
    BY DEF Register
<1>2. /\ file = Config(sync.want, TRUE) /\ file \in Configs /\ runtime \subseteq Ids
      /\ faults \in 0 .. MaxFaults /\ Serves(file.users) /\ Serves(runtime)
    BY <1>1, Typing DEF IInv, WrittenFile
<1> QED BY <1>1, <1>2, StageSafe DEF Stages

LEMMA ApplySafe ==
    ASSUME IInv, Apply
    PROVE IInv'
<1>1. /\ sync.at = "apply" /\ runtime' = IF sync.restart THEN file.users ELSE runtime \cup sync.want
      /\ sync' = [sync EXCEPT !.at = IF sync.restart THEN "verify" ELSE "remove"]
      /\ UNCHANGED <<rows, valid, file, manifest, download, exported, faults>>
    BY DEF Apply
<1>2. /\ file = Config(sync.want, TRUE) /\ file \in Configs /\ manifest \in Configs /\ runtime \subseteq Ids
      /\ faults \in 0 .. MaxFaults /\ Serves(file.users) /\ Serves(runtime)
    BY <1>1, Typing DEF IInv, WrittenFile
<1>3. file.users = sync.want /\ sync.want \subseteq Ids /\ Serves(sync.want)
    BY <1>1, <1>2, WantedServes
<1>4. runtime' \subseteq Ids /\ Serves(runtime')
    BY <1>1, <1>2, <1>3 DEF Serves
<1> QED BY <1>1, <1>2, <1>4, StageSafe DEF Stages

LEMMA RemoveUsersSafe ==
    ASSUME IInv, RemoveUsers
    PROVE IInv'
<1>1. /\ sync.at = "remove" /\ runtime' = runtime \cap sync.want
      /\ sync' = [sync EXCEPT !.at = "verify"]
      /\ UNCHANGED <<rows, valid, file, manifest, download, exported, faults>>
    BY DEF RemoveUsers
<1>2. /\ file = Config(sync.want, TRUE) /\ file \in Configs /\ manifest \in Configs /\ runtime \subseteq Ids
      /\ faults \in 0 .. MaxFaults /\ Serves(file.users) /\ Serves(runtime)
    BY <1>1, Typing DEF IInv, WrittenFile
<1>3. Serves(sync.want)
    BY <1>1, WantedServes
<1>4. runtime' \subseteq Ids /\ Serves(runtime')
    BY <1>1, <1>2, <1>3 DEF Serves
<1> QED BY <1>1, <1>2, <1>4, StageSafe DEF Stages

\* What the core was seen to serve is what the rows say from now on.
LEMMA CommitSafe ==
    ASSUME IInv, Commit
    PROVE IInv'
<1>1. /\ sync.at = "verify" /\ sync.want \subseteq runtime /\ sync.gone \cap runtime = {}
      /\ installed' = installed \cup sync.want /\ removed' = removed \cup sync.gone
      /\ prepared' = TRUE /\ sync' = NoSync
      /\ UNCHANGED <<grant, lookup, revoked, valid, file, manifest, runtime, download, exported, faults>>
    BY DEF Commit, remote
<1>2. /\ file = Config(sync.want, TRUE) /\ file \in Configs /\ manifest \in Configs /\ runtime \subseteq Ids
      /\ faults \in 0 .. MaxFaults /\ Serves(file.users) /\ Serves(runtime)
      /\ installed \subseteq Created /\ revoked \subseteq Created /\ removed \subseteq revoked
    BY <1>1, Typing DEF IInv, WrittenFile
<1>3. /\ sync.want = Created \ revoked /\ sync.gone = revoked \ removed
      /\ download = NoDownload /\ file.users = sync.want
    BY <1>1, <1>2, WantedServes DEF IInv, UnderWay
<1>4. Serves(file.users)' /\ Serves(runtime)'
    BY <1>1, <1>2, <1>3 DEF Serves
<1>5. installed' \subseteq Created /\ removed' \subseteq revoked
    BY <1>1, <1>2, <1>3
<1> QED BY <1>1, <1>2, <1>3, <1>4, <1>5, SyncEnds

LEMMA StepFailsSafe ==
    ASSUME IInv, StepFails
    PROVE IInv'
<1>1. /\ sync.at \notin {"idle", "undo"} /\ sync' = [sync EXCEPT !.at = "undo"]
      /\ faults < MaxFaults /\ faults' = faults + 1
      /\ UNCHANGED <<rows, valid, download, exported>>
    BY DEF StepFails, Fault
<1>2. /\ file \in Configs /\ manifest \in Configs /\ runtime \subseteq Ids
      /\ faults \in 0 .. MaxFaults /\ Serves(file.users) /\ Serves(runtime)
    BY Typing DEF IInv
<1>3. faults' \in 0 .. MaxFaults
    BY <1>1, <1>2, CredentialAssumption
<1>4. /\ file' \in Configs /\ manifest' \in Configs /\ runtime' \subseteq Ids
      /\ Serves(file'.users) /\ Serves(runtime')
    <2>1. /\ Config(sync.want, TRUE) \in Configs /\ Serves(Config(sync.want, TRUE).users)
          /\ Serves(sync.want)
        BY <1>1, WantedServes
    <2>2. file.users \subseteq Ids
        BY <1>2, ConfigUsers
    <2>3. CASE UNCHANGED remote
        BY <1>2, <2>3 DEF remote
    <2>4. CASE file' = Config(sync.want, TRUE) /\ UNCHANGED <<manifest, runtime>>
        BY <1>2, <2>1, <2>4
    <2>5. CASE manifest' = file /\ UNCHANGED <<file, runtime>>
        BY <1>2, <2>5
    <2>6. CASE /\ runtime' = file.users \cup (IF sync.restart THEN {} ELSE runtime)
               /\ UNCHANGED <<file, manifest>>
        BY <1>2, <2>2, <2>6 DEF Serves
    <2>7. CASE runtime' = runtime \cap sync.want /\ UNCHANGED <<file, manifest>>
        BY <1>2, <2>1, <2>7 DEF Serves
    <2> QED BY <2>3, <2>4, <2>5, <2>6, <2>7 DEF StepFails
<1> QED BY <1>1, <1>3, <1>4, StageSafe DEF Stages

LEMMA VerificationFailsSafe ==
    ASSUME IInv, VerificationFails
    PROVE IInv'
<1>1. /\ sync.at = "verify" /\ sync' = [sync EXCEPT !.at = "undo"]
      /\ UNCHANGED <<rows, valid, download, exported, faults, file, manifest, runtime>>
    BY DEF VerificationFails, remote
<1>2. /\ file \in Configs /\ manifest \in Configs /\ runtime \subseteq Ids
      /\ faults \in 0 .. MaxFaults /\ Serves(file.users) /\ Serves(runtime)
    BY Typing DEF IInv
<1> QED BY <1>1, <1>2, StageSafe DEF Stages

LEMMA UndoSafe ==
    ASSUME IInv, Undo
    PROVE IInv'
<1>1. /\ sync.at = "undo" /\ sync' = NoSync
      /\ UNCHANGED <<grant, lookup, installed, revoked, removed, valid, download, exported>>
    BY DEF Undo
<1>2. /\ file \in Configs /\ manifest \in Configs /\ runtime \subseteq Ids /\ prepared \in BOOLEAN
      /\ faults \in 0 .. MaxFaults /\ Serves(file.users) /\ Serves(runtime)
      /\ installed \subseteq Created /\ removed \subseteq revoked
    BY Typing DEF IInv
<1>3. /\ file' \in Configs /\ manifest' \in Configs /\ runtime' \subseteq Ids /\ prepared' \in BOOLEAN
      /\ faults' \in 0 .. MaxFaults /\ (prepared' => prepared)
      /\ Serves(file'.users) /\ Serves(runtime')
    <2>1. CASE ~TakesBack
        <3>1. UNCHANGED <<file, manifest, runtime, prepared, faults>>
            BY <2>1 DEF Undo, remote
        <3> QED BY <1>2, <3>1
    <2>2. CASE TakesBack
        <3>1. /\ sync.before \in Configs /\ Serves(sync.before.users)
              /\ sync.before.users \subseteq Ids /\ file.users \subseteq Ids
            BY <1>2, <2>2, ConfigUsers DEF IInv, Restorable, TakesBack
        <3>2. CASE /\ file' = sync.before
                   /\ manifest' = IF sync.owned THEN sync.before ELSE manifest
                   /\ runtime' = IF sync.restart THEN sync.before.users ELSE runtime
                   /\ UNCHANGED <<prepared, faults>>
            BY <1>2, <3>1, <3>2
        <3>3. CASE /\ Fault
                   /\ prepared' = FALSE
                   /\ file' \in {file, sync.before} /\ UNCHANGED manifest
                   /\ runtime' \in {runtime, file'.users}
            <4>1. faults' \in 0 .. MaxFaults
                BY <1>2, <3>3, CredentialAssumption DEF Fault
            <4>2. file' \in Configs /\ file'.users \subseteq Ids /\ Serves(file'.users)
                BY <1>2, <3>1, <3>3
            <4>3. runtime' \subseteq Ids /\ Serves(runtime')
                BY <1>2, <3>3, <4>2
            <4> QED BY <1>2, <3>3, <4>1, <4>2, <4>3
        <3> QED BY <2>2, <3>2, <3>3 DEF Undo
    <2> QED BY <2>1, <2>2
<1>4. Serves(file.users)' /\ Serves(runtime)'
    BY <1>1, <1>3 DEF Serves
<1> QED BY <1>1, <1>2, <1>3, <1>4, SyncEnds

-----------------------------------------------------------------------------
(* The node's other life. *)

LEMMA RedeploySafe ==
    ASSUME IInv, Redeploy
    PROVE IInv'
<1>1. /\ sync = NoSync /\ file' = Config(UsageUsers, prepared) /\ runtime' = file'.users
      /\ manifest' \in {manifest, file'} /\ UNCHANGED <<rows, valid, sync, download, exported>>
      /\ faults' = faults \/ (faults < MaxFaults /\ faults' = faults + 1)
    BY DEF Redeploy, Fault
<1>2. UNCHANGED <<grant, lookup, installed, revoked, removed, prepared>>
    BY <1>1 DEF rows
<1>3. /\ manifest \in Configs /\ prepared \in BOOLEAN /\ faults \in 0 .. MaxFaults
      /\ installed \subseteq Created /\ removed \subseteq revoked /\ Serves(file.users)
    BY Typing DEF IInv
<1>4. UsageUsers \in SUBSET Ids
    BY CreatedIds DEF UsageUsers
<1>5. file' \in Configs /\ file'.users = UsageUsers
    BY <1>1, <1>3, <1>4, ConfigType
<1>6. Serves(UsageUsers)
    BY <1>3 DEF Serves, UsageUsers
<1>7. faults' \in 0 .. MaxFaults
    BY <1>1, <1>3, CredentialAssumption
<1>8. Serves(file.users)' /\ Serves(runtime)'
    BY <1>1, <1>2, <1>5, <1>6 DEF Serves
<1> QED BY <1>1, <1>2, <1>3, <1>4, <1>5, <1>7, <1>8, SyncEnds

LEMMA CoreRestartSafe ==
    ASSUME IInv, CoreRestart
    PROVE IInv'
<1>1. /\ runtime' = file.users
      /\ UNCHANGED <<rows, valid, file, manifest, sync, download, exported, faults>>
    BY DEF CoreRestart
<1>2. UNCHANGED <<grant, lookup, installed, revoked, removed, prepared>>
    BY <1>1 DEF rows
<1>3. file \in Configs /\ file.users \subseteq Ids /\ Serves(file.users)
    BY Typing, ConfigUsers DEF IInv
<1>4. Created' = Created /\ OneDownload' /\ IsFiniteSet(Created)' /\ WithinLimit'
    BY <1>1, <1>2, SameRows
<1>5. TypeOK'
    BY <1>1, <1>2, <1>3, <1>4, Typing, TypingNext DEF IInv
<1>6. (exported \subseteq installed)' /\ Serves(file.users)' /\ Serves(runtime)'
    BY <1>1, <1>2, <1>3 DEF IInv, Serves
<1>7. UnderWay' /\ WrittenFile' /\ AtRest'
    BY <1>1, <1>2, <1>4 DEF IInv, UnderWay, WrittenFile, AtRest
<1>8. Restorable'
    BY <1>1, <1>2 DEF IInv, Restorable, Serves
<1> QED BY <1>4, <1>5, <1>6, <1>7, <1>8 DEF IInv

LEMMA PanelCrashSafe ==
    ASSUME IInv, PanelCrash
    PROVE IInv'
<1>1. /\ sync' = NoSync /\ download' = NoDownload /\ faults < MaxFaults /\ faults' = faults + 1
      /\ UNCHANGED <<rows, valid, file, manifest, runtime, exported>>
    BY DEF PanelCrash, Fault, remote
<1>2. UNCHANGED <<grant, lookup, installed, revoked, removed, prepared>>
    BY <1>1 DEF rows
<1>3. /\ file \in Configs /\ manifest \in Configs /\ runtime \subseteq Ids /\ prepared \in BOOLEAN
      /\ faults \in 0 .. MaxFaults /\ Serves(file.users) /\ Serves(runtime)
      /\ installed \subseteq Created /\ removed \subseteq revoked
    BY Typing DEF IInv
<1>4. faults' \in 0 .. MaxFaults
    BY <1>1, <1>3, CredentialAssumption
<1>5. Serves(file.users)' /\ Serves(runtime)'
    BY <1>1, <1>2, <1>3 DEF Serves
<1> QED BY <1>1, <1>2, <1>3, <1>4, <1>5, SyncEnds

-----------------------------------------------------------------------------
LEMMA StepSafe == IInv /\ [Next]_vars => IInv'
<1> SUFFICES ASSUME IInv, [Next]_vars PROVE IInv'
    OBVIOUS
<1>1. CASE Syncing
    BY <1>1, ReadConfigSafe, ActivateSafe, RegisterSafe, ApplySafe, RemoveUsersSafe, CommitSafe,
       VerificationFailsSafe, UndoSafe DEF Syncing
<1>2. CASE Downloading
    BY <1>2, CreateSafe, PublishSafe DEF Downloading
<1>3. ASSUME NEW g \in Grants, Rotate(g) \/ DownloadBegin(g)
      PROVE IInv'
    <2>1. CASE Rotate(g)
        <3>1. UNCHANGED <<rows, remote, sync, download, exported, faults>> /\ valid' \subseteq Grants
            BY <2>1, Typing DEF Rotate, IInv
        <3> QED BY <3>1, RotateSafe
    <2>2. CASE DownloadBegin(g)
        BY <2>2, BeginSafe
    <2> QED BY <1>3, <2>1, <2>2
<1>4. ASSUME NEW may \in BOOLEAN, SyncBegin(may)
      PROVE IInv'
    BY <1>4, SyncBeginSafe
<1>5. CASE Next
    BY <1>1, <1>2, <1>3, <1>4, <1>5, StepFailsSafe, RedeploySafe, CoreRestartSafe, PanelCrashSafe
       DEF Next
<1>6. CASE UNCHANGED vars
    <2>1. UNCHANGED <<rows, remote, sync, download, exported, faults>> /\ valid' \subseteq Grants
        BY <1>6, Typing DEF vars, IInv
    <2> QED BY <2>1, RotateSafe
<1> QED BY <1>5, <1>6

LEMMA InvSafe == IInv => IdentitiesSafe
BY DEF IInv, IdentitiesSafe, Serves, ExportedWorks, RemovedIsGone

(***************************************************************************)
(* Per-grant credentials are safe whatever fails: what a client was given  *)
(* works until somebody revokes it, an identity that was marked removed    *)
(* never comes back, and no order of downloads takes a node over its       *)
(* limit.                                                                  *)
(***************************************************************************)
THEOREM IdentitiesAreSafe == Spec => []IdentitiesSafe
<1>1. Init => IInv
    BY InitSafe
<1>2. IInv /\ [Next]_vars => IInv'
    BY StepSafe
<1> QED BY <1>1, <1>2, InvSafe, PTL DEF Spec

-----------------------------------------------------------------------------
(* Bytes are counted at most once, for any credentials and any bounds on     *)
(* time, bytes and samples. The invariant says that there is a history of    *)
(* what had been moved when each sample was read, with which every sample    *)
(* that is on its way, and every baseline of the panel, agrees.              *)
CONSTANTS Creds, Fresh, Drift, MaxTime, MaxBytes, MaxSamples
VARIABLES now, boot, counter, moved, probe, wire, ingest, enabled, node, row, bucket
U == INSTANCE UsageCounters

\* From counters a, read when fa had been moved, to counters b, read when fb had: whatever
\* the counters gained was moved in between.
Follows(a, fa, b, fb) == \A c \in Creds : fa[c] <= fb[c] /\ b[c] - a[c] <= fb[c] - fa[c]

\* What had been moved when each sample was read: it is in no message and in no table.
Histories == [1 .. MaxSamples -> U!Counts]
Counted == probe # Nothing /\ probe.counts # Nothing

Told(f, m) ==
    /\ \A s \in wire : Follows(s.counts, f[s.id], counter, moved)
    /\ \A s, t \in wire : s.id < t.id => Follows(s.counts, f[s.id], t.counts, f[t.id])
    /\ Counted => /\ Follows(probe.counts, m, counter, moved)
                  /\ \A s \in wire : Follows(s.counts, f[s.id], probe.counts, m)
    /\ \A c \in Creds : bucket[c] <= IF node.id = 0 THEN 0 ELSE f[node.id][c]

Wired ==
    /\ boot <= now /\ IsFiniteSet(wire)
    /\ \A s \in wire : s.id <= Cardinality(wire) /\ s.at <= now
    /\ \A s, t \in wire : (s.id = t.id => s = t) /\ (s.id < t.id => s.at <= t.at)
    /\ probe # Nothing => Cardinality(wire) < MaxSamples

\* The core counts no byte that was not moved.
Moved == \A c \in Creds : counter[c] <= moved[c]

\* What the panel has stored is of samples it was sent.
Accepted ==
    /\ node.id = 0 <=> node.at = Nothing
    /\ node.id # 0 => \E s \in wire : /\ s.id = node.id /\ s.at = node.at
                                      /\ \A c \in Creds : row[c].at = node.at => row[c].bytes = s.counts[c]
    /\ \A c \in Creds : row[c].at # Nothing => node.at # Nothing /\ row[c].at <= node.at

\* A batch was sent, and what it has read is still true.
Batch ==
    /\ ingest = U!NoBatch \/ ingest.sample \in wire
    /\ ingest.stage = "read" =>
         ~U!Superseded(ingest.sample) /\ ingest.seen = row /\ ingest.on = U!Observed

CountInv ==
    /\ U!TypeOK /\ Moved /\ Wired /\ Accepted /\ Batch
    /\ \E f \in Histories, m \in U!Counts : Told(f, m)

\* The instance has its own name for the cardinality of a set.
LEMMA Sizes == ASSUME NEW S PROVE U!Cardinality(S) = Cardinality(S)
  BY Zenon DEF U!Cardinality, Cardinality

LEMMA CountInit == ASSUME U!CounterAssumption PROVE U!Init => CountInv
<1> SUFFICES ASSUME U!Init PROVE CountInv
  OBVIOUS
<1> DEFINE z == [c \in Creds |-> 0]
           h == [i \in 1 .. MaxSamples |-> z]
<1>1. z \in U!Counts /\ h \in Histories /\ 0 \in U!Times
  BY DEF U!CounterAssumption, U!Counts, Histories, U!Times
<1>2. U!TypeOK
  BY <1>1 DEF U!CounterAssumption, U!Init, U!TypeOK, U!Rows, U!Times, U!Counts
<1>3. Wired
  BY FS_EmptySet DEF U!CounterAssumption, U!Init, Wired
<1>4. Accepted
  BY DEF U!CounterAssumption, U!Init, Accepted
<1>5. Batch
  BY DEF U!Init, Batch, U!NoBatch
<1>7. Moved
  BY DEF U!Init, Moved
<1>6. Told(h, z)
  BY DEF U!Init, Told, Counted
<1> QED BY <1>1, <1>2, <1>3, <1>4, <1>5, <1>6, <1>7 DEF CountInv

LEMMA Grows ==
  ASSUME NEW a \in U!Counts, NEW fa \in U!Counts, NEW b \in U!Counts, NEW fb \in U!Counts, NEW d \in U!Counts, NEW fd \in U!Counts,
         Follows(a, fa, b, fb), Follows(b, fb, d, fd)
  PROVE  Follows(a, fa, d, fd)
  BY DEF Follows, U!Counts

\* A move and a restart of the core.
LEMMA CoreFollows ==
  ASSUME U!CounterAssumption, U!TypeOK, Moved, (\E c \in Creds : U!Move(c)) \/ U!CoreRestart
  PROVE  /\ Follows(counter, moved, counter', moved')
         /\ counter' \in U!Counts /\ moved' \in U!Counts /\ Moved'
<1>1. counter \in U!Counts /\ moved \in U!Counts
  BY DEF U!TypeOK
<1>2. CASE U!CoreRestart
  <2>1. /\ counter' = [c \in Creds |-> 0] /\ moved' = moved
    BY <1>2 DEF U!CoreRestart
  <2> QED BY <1>1, <2>1 DEF U!CounterAssumption, Follows, U!Counts, Moved
<1>3. CASE \E c \in Creds : U!Move(c)
  <2>1. PICK c \in Creds : U!Move(c)
    BY <1>3
  <2>2. /\ counter' = [counter EXCEPT ![c] = @ + 1] /\ moved' = [moved EXCEPT ![c] = @ + 1] /\ moved[c] < MaxBytes
    BY <2>1 DEF U!Move
  <2> QED BY <1>1, <2>2 DEF U!CounterAssumption, Follows, U!Counts, Moved
<1> QED BY <1>2, <1>3

\* A step of the core or of its clock.
LEMMA CountCore ==
  ASSUME U!CounterAssumption, CountInv, (\E c \in Creds : U!Move(c)) \/ U!CoreRestart \/ U!Tick PROVE CountInv'
<1>1. /\ U!TypeOK /\ Moved /\ Wired /\ Accepted /\ Batch /\ Follows(counter, moved, counter, moved)
      /\ counter \in U!Counts /\ moved \in U!Counts /\ now \in U!Times /\ boot \in U!Times
  BY DEF CountInv, U!TypeOK, Follows, U!Counts, U!CounterAssumption
<1>2. UNCHANGED <<probe, wire, ingest, U!stored>> /\ now' \in U!Times /\ now' >= now /\ boot' \in U!Times /\ boot' <= now'
  BY <1>1 DEF U!Move, U!CoreRestart, U!Tick, U!Times, U!CounterAssumption, U!core, Wired
<1>3. Follows(counter, moved, counter', moved') /\ counter' \in U!Counts /\ moved' \in U!Counts /\ Moved'
  BY <1>1, CoreFollows DEF U!Tick, U!core, Follows, Moved
<1>4. U!TypeOK'
  BY <1>1, <1>2, <1>3 DEF U!TypeOK, U!stored
<1>5. Wired' /\ Accepted' /\ Batch'
  BY <1>1, <1>2 DEF Wired, Accepted, Batch, U!Superseded, U!Observed, U!stored, U!TypeOK, U!Samples, U!Times
<1>6. PICK f \in Histories, m \in U!Counts : Told(f, m)
  BY DEF CountInv
<1>7. Told(f, m)'
  <2>1. ASSUME NEW s \in wire PROVE Follows(s.counts, f[s.id], counter', moved')
    <3>1. s.counts \in U!Counts /\ f[s.id] \in U!Counts
      BY <1>1, <1>6 DEF U!TypeOK, U!Samples, Histories
    <3> QED BY <1>1, <1>3, <1>6, <3>1, Grows DEF Told
  <2>2. Counted' => Follows(probe'.counts, m, counter', moved')
    <3>1. Counted => probe.counts \in U!Counts
      BY <1>1 DEF U!TypeOK, Counted
    <3> QED BY <1>1, <1>2, <1>3, <1>6, <3>1, Grows DEF Told, Counted
  <2> QED BY <1>2, <1>6, <2>1, <2>2 DEF Told, Counted, U!stored
<1> QED BY <1>3, <1>4, <1>5, <1>6, <1>7 DEF CountInv

\* A query of the agent under way.
LEMMA CountProbe == ASSUME U!CounterAssumption, CountInv, U!ProbeBegin \/ U!ProbeRead PROVE CountInv'
<1>1. /\ U!TypeOK /\ Moved /\ Wired /\ Accepted /\ Batch /\ Follows(counter, moved, counter, moved)
      /\ counter \in U!Counts /\ moved \in U!Counts /\ now \in U!Times /\ boot \in U!Times
  BY DEF CountInv, U!TypeOK, Follows, U!Counts, U!CounterAssumption
<1>2. UNCHANGED <<now, U!core, wire, ingest, U!stored>>
  BY DEF U!ProbeBegin, U!ProbeRead
<1>3. /\ probe' \in [from : U!Times, counts : U!Counts \cup {Nothing}]
      /\ Cardinality(wire) < MaxSamples
      /\ Counted' => probe'.counts = counter
  <2>1. CASE U!ProbeBegin
    BY <1>1, <2>1, Sizes DEF U!ProbeBegin, Counted, U!Times, Wired, U!CounterAssumption
  <2>2. CASE U!ProbeRead
    BY <1>1, <2>2 DEF U!ProbeRead, Counted, U!TypeOK, Wired
  <2> QED BY <2>1, <2>2
<1>4. U!TypeOK'
  BY <1>1, <1>2, <1>3 DEF U!TypeOK, U!stored, U!core
<1>5. Moved' /\ Wired' /\ Accepted' /\ Batch'
  BY <1>1, <1>2, <1>3 DEF Moved, Wired, Accepted, Batch, U!Superseded, U!Observed, U!stored, U!core
<1>6. PICK f \in Histories, m \in U!Counts : Told(f, m)
  BY DEF CountInv
<1>7. PICK k \in U!Counts : k = moved
  BY <1>1
<1>8. Told(f, k)'
  BY <1>1, <1>2, <1>3, <1>6, <1>7 DEF Told, U!stored, U!core
<1> QED BY <1>4, <1>5, <1>6, <1>8 DEF CountInv

\* A sample is sent: it is the newest, and its counters were read when k had been moved.
LEMMA CountSample == ASSUME U!CounterAssumption, CountInv, U!ProbeEnd PROVE CountInv'
<1>1. /\ U!TypeOK /\ Moved /\ Wired /\ Accepted /\ Batch
      /\ counter \in U!Counts /\ moved \in U!Counts /\ now \in U!Times /\ boot \in U!Times
  BY DEF CountInv, U!TypeOK
<1>2. UNCHANGED <<now, U!core, ingest, U!stored>> /\ probe' = Nothing /\ probe # Nothing /\ ~Counted'
  BY DEF U!ProbeEnd, Counted
<1>3. PICK f \in Histories, m \in U!Counts : Told(f, m)
  BY DEF CountInv
<1>4. Moved' /\ MaxSamples \in Nat /\ Cardinality(wire) \in Nat /\ Cardinality(wire) < MaxSamples
  BY <1>1, <1>2, FS_CardinalityType DEF Moved, U!core, U!CounterAssumption, Wired
<1>5. CASE UNCHANGED wire
  <2>1. U!TypeOK' /\ Wired' /\ Accepted' /\ Batch'
    BY <1>1, <1>2, <1>5 DEF U!TypeOK, Wired, Accepted, Batch, U!Superseded, U!Observed, U!stored, U!core
  <2>2. Told(f, m)'
    BY <1>2, <1>3, <1>5 DEF Told, U!stored, U!core
  <2> QED BY <1>3, <1>4, <2>1, <2>2 DEF CountInv
<1>6. CASE /\ probe.counts # Nothing
           /\ wire' = wire \cup {[id |-> Cardinality(wire) + 1, at |-> now, uptime |-> now - boot, counts |-> probe.counts]}
  <2> DEFINE id == Cardinality(wire) + 1
             s == [id |-> id, at |-> now, uptime |-> now - boot, counts |-> probe.counts]
  <2>1. Counted /\ probe.counts \in U!Counts /\ id \in 1 .. MaxSamples
    BY <1>1, <1>2, <1>4, <1>6 DEF U!TypeOK, Counted
  <2>2. s \in U!Samples /\ s.id = id /\ s.at = now /\ s.counts = probe.counts
    BY <1>1, <2>1 DEF U!Samples, U!Times, Wired, U!CounterAssumption
  <2>3. wire' = wire \cup {s} /\ \A t \in wire : t.id # id /\ t.id < id /\ t.id \in 1 .. MaxSamples /\ t.at <= now
    BY <1>1, <1>4, <1>6 DEF Wired, U!TypeOK, U!Samples
  <2> HIDE DEF s, id
  <2>4. IsFiniteSet(wire') /\ Cardinality(wire') = id
    <3>1. s \notin wire
      BY <2>2, <2>3
    <3> QED BY <1>1, <2>3, <3>1, FS_AddElement DEF Wired, id
  <2>5. U!TypeOK'
    BY <1>1, <1>2, <2>2, <2>3 DEF U!TypeOK, U!stored, U!core
  <2>6. Wired'
    <3>1. \A t \in wire' : t.id <= id /\ t.at <= now
      BY <1>1, <1>4, <2>1, <2>2, <2>3 DEF U!Times
    <3>2. ASSUME NEW t \in wire', NEW u \in wire' PROVE (t.id = u.id => t = u) /\ (t.id < u.id => t.at <= u.at)
      <4>1. CASE t \in wire /\ u \in wire
        BY <1>1, <4>1 DEF Wired
      <4>2. CASE t = s /\ u = s
        BY <2>1, <2>2, <4>2
      <4>3. CASE t = s /\ u \in wire
        BY <2>1, <2>2, <2>3, <4>3
      <4>4. CASE t \in wire /\ u = s
        BY <2>1, <2>2, <2>3, <4>4
      <4> QED BY <2>3, <4>1, <4>2, <4>3, <4>4
    <3> QED BY <1>1, <1>2, <2>4, <3>1, <3>2 DEF Wired, U!core
  <2>7. Accepted'
    BY <1>1, <1>2, <2>3 DEF Accepted, U!stored
  <2>8. Batch'
    BY <1>1, <1>2, <2>3 DEF Batch, U!Superseded, U!Observed, U!stored
  <2>9. PICK g \in Histories : g[id] = m /\ \A t \in wire : g[t.id] = f[t.id]
    <3>1. [f EXCEPT ![id] = m] \in Histories
      BY <2>1 DEF Histories
    <3>2. [f EXCEPT ![id] = m][id] = m /\ \A t \in wire : [f EXCEPT ![id] = m][t.id] = f[t.id]
      BY <2>1, <2>3 DEF Histories
    <3> QED BY <3>1, <3>2
  <2>10. Told(g, m)'
    <3>1. \A t \in wire' : Follows(t.counts, g[t.id], counter, moved)
      BY <1>3, <2>1, <2>2, <2>3, <2>9 DEF Told
    <3>2. ASSUME NEW t \in wire', NEW u \in wire', t.id < u.id PROVE Follows(t.counts, g[t.id], u.counts, g[u.id])
      <4>1. CASE u \in wire
        <5>1. t \in wire
          BY <2>1, <2>2, <2>3, <3>2, <4>1
        <5> QED BY <1>3, <2>9, <3>2, <4>1, <5>1 DEF Told
      <4>2. CASE u = s
        <5>1. t \in wire
          BY <1>4, <2>1, <2>2, <2>3, <3>2, <4>2
        <5>2. Follows(t.counts, f[t.id], probe.counts, m)
          BY <1>3, <2>1, <5>1 DEF Told
        <5>3. g[t.id] = f[t.id] /\ g[u.id] = m /\ u.counts = probe.counts
          BY <2>2, <2>9, <4>2, <5>1
        <5> QED BY <5>2, <5>3
      <4> QED BY <2>3, <4>1, <4>2
    <3>3. node.id # 0 => g[node.id] = f[node.id]
      BY <1>1, <2>9 DEF Accepted
    <3>4. \A c \in Creds : bucket[c] <= IF node.id = 0 THEN 0 ELSE g[node.id][c]
      BY <1>3, <3>3 DEF Told
    <3> QED BY <1>2, <3>1, <3>2, <3>4 DEF Told, U!stored, U!core
  <2> QED BY <1>3, <1>4, <2>5, <2>6, <2>7, <2>8, <2>9, <2>10 DEF CountInv
<1> QED BY <1>5, <1>6, Sizes DEF U!ProbeEnd

\* The panel is sent a sample again, late or out of order; it looks at its tables; a toggle
\* or its own end.
LEMMA CountBatch ==
  ASSUME U!CounterAssumption, CountInv, U!Enqueue \/ U!IngestRead \/ U!PanelRestart \/ \E c \in Creds : U!Toggle(c)
  PROVE  CountInv'
<1>1. U!TypeOK /\ Moved /\ Wired /\ Accepted /\ Batch
  BY DEF CountInv
<1>2. UNCHANGED <<now, U!core, probe, wire, node, bucket>>
  BY DEF U!Enqueue, U!IngestRead, U!PanelRestart, U!Toggle, U!stored
<1>3. Moved' /\ Wired'
  BY <1>1, <1>2 DEF Moved, Wired, U!core
<1>4. PICK f \in Histories, m \in U!Counts : Told(f, m)
  BY DEF CountInv
<1>5. Told(f, m)'
  BY <1>2, <1>4 DEF Told, Counted, U!core
<1>6. CASE U!Enqueue
  <2>1. PICK s \in wire : ingest' = [sample |-> s, stage |-> "queued", on |-> {}, seen |-> Nothing]
    BY <1>6 DEF U!Enqueue
  <2>2. U!TypeOK' /\ Batch'
    BY <1>1, <1>2, <1>6, <2>1 DEF U!Enqueue, U!TypeOK, Batch, U!stored, U!core
  <2>3. Accepted'
    BY <1>1, <1>2, <1>6 DEF U!Enqueue, Accepted, U!stored
  <2> QED BY <1>3, <1>4, <1>5, <2>2, <2>3 DEF CountInv
<1>7. CASE U!IngestRead
  <2>1. Accepted'
    BY <1>1, <1>2, <1>7 DEF U!IngestRead, Accepted, U!stored
  <2>2. /\ ingest \in [sample : U!Samples, stage : {"queued", "read"}, on : SUBSET Creds, seen : U!Rows \cup {Nothing}]
        /\ ingest.sample \in wire /\ row \in U!Rows
    BY <1>1, <1>7 DEF U!IngestRead, U!TypeOK, Batch, U!NoBatch
  <2>3. UNCHANGED <<enabled, row, node>>
    BY <1>7 DEF U!IngestRead, U!stored
  <2>4. CASE U!Superseded(ingest.sample)
    <3>1. ingest' = U!NoBatch
      BY <1>7, <2>4 DEF U!IngestRead
    <3>2. U!TypeOK'
      BY <1>1, <1>2, <2>3, <3>1 DEF U!TypeOK, U!core
    <3>3. Batch'
      BY <3>1 DEF Batch, U!NoBatch
    <3> QED BY <1>3, <1>4, <1>5, <2>1, <3>2, <3>3 DEF CountInv
  <2>5. CASE ~U!Superseded(ingest.sample)
    <3>1. ingest' = [ingest EXCEPT !.stage = "read", !.on = U!Observed, !.seen = row]
      BY <1>7, <2>5 DEF U!IngestRead
    <3>2. /\ ingest'.sample = ingest.sample /\ ingest'.seen = row /\ ingest'.on = U!Observed
          /\ ingest' \in [sample : U!Samples, stage : {"queued", "read"}, on : SUBSET Creds, seen : U!Rows \cup {Nothing}]
      BY <2>2, <3>1 DEF U!Observed
    <3>3. Batch'
      BY <1>2, <2>2, <2>3, <2>5, <3>2 DEF Batch, U!Superseded, U!Observed
    <3>4. U!TypeOK'
      BY <1>1, <1>2, <2>3, <3>2 DEF U!TypeOK, U!core
    <3> QED BY <1>3, <1>4, <1>5, <2>1, <3>3, <3>4 DEF CountInv
  <2> QED BY <2>4, <2>5
<1>8. CASE U!PanelRestart
  <2>1. U!TypeOK' /\ Batch' /\ Accepted'
    BY <1>1, <1>2, <1>8 DEF U!PanelRestart, U!TypeOK, Batch, U!NoBatch, Accepted, U!stored, U!core
  <2> QED BY <1>3, <1>4, <1>5, <2>1 DEF CountInv
<1>9. ASSUME NEW c \in Creds, U!Toggle(c) PROVE CountInv'
  <2>1. /\ ingest.stage # "read" /\ ingest' = ingest /\ row' = [row EXCEPT ![c].at = Nothing]
        /\ enabled' = [enabled EXCEPT ![c] = ~@]
    BY <1>9 DEF U!Toggle, U!SampleLockFree, U!Forget
  <2>2. row \in U!Rows /\ enabled \in [Creds -> BOOLEAN]
    BY <1>1 DEF U!TypeOK
  <2>3. /\ row' \in U!Rows /\ row'[c].at = Nothing /\ enabled' \in [Creds -> BOOLEAN]
        /\ \A d \in Creds \ {c} : row'[d] = row[d]
    BY <2>1, <2>2 DEF U!Rows
  <2>4. U!TypeOK'
    BY <1>1, <1>2, <2>1, <2>3 DEF U!TypeOK, U!core
  <2>5. Batch'
    BY <1>1, <1>2, <2>1 DEF Batch
  <2>6. Accepted'
    <3>1. \A d \in Creds : row'[d].at # Nothing => row'[d] = row[d]
      BY <2>3
    <3>2. node.id = 0 <=> node.at = Nothing
      BY <1>1 DEF Accepted
    <3>3. node.id # 0 => \E s \in wire : /\ s.id = node.id /\ s.at = node.at
                                        /\ \A d \in Creds : row'[d].at = node.at => row'[d].bytes = s.counts[d]
      BY <1>1, <3>1, <3>2 DEF Accepted
    <3>4. \A d \in Creds : row'[d].at # Nothing => node.at # Nothing /\ row'[d].at <= node.at
      BY <1>1, <3>1 DEF Accepted
    <3> QED BY <1>2, <3>2, <3>3, <3>4 DEF Accepted
  <2> QED BY <1>3, <1>4, <1>5, <2>4, <2>5, <2>6 DEF CountInv
<1> QED BY <1>6, <1>7, <1>8, <1>9

\* What a batch adds was moved between the two samples.
LEMMA CountCommit == ASSUME U!CounterAssumption, CountInv, U!IngestCommit PROVE CountInv'
<1>1. U!TypeOK /\ Moved /\ Wired /\ Accepted /\ Batch
  BY DEF CountInv
<1>2. PICK f \in Histories, m \in U!Counts : Told(f, m)
  BY DEF CountInv
<1>3. PICK s \in wire : s = ingest.sample
  BY <1>1 DEF U!IngestCommit, Batch, U!NoBatch
<1>4. /\ s \in U!Samples /\ s.counts \in U!Counts /\ s.id \in 1 .. MaxSamples /\ s.at \in U!Times /\ s.uptime \in U!Times
      /\ f[s.id] \in U!Counts /\ row \in U!Rows /\ bucket \in U!Counts
  BY <1>1, <1>2 DEF U!TypeOK, U!Samples, Histories
<1>5. /\ s.id # node.id /\ (node.at = Nothing \/ ~(s.at <= node.at)) /\ ingest.seen = row
      /\ ingest.on = U!Observed
  BY <1>1, <1>3 DEF U!IngestCommit, Batch, U!Superseded
<1>6. /\ node' = [at |-> s.at, uptime |-> s.uptime, id |-> s.id]
      /\ row' = [c \in Creds |-> IF c \in ingest.on THEN [at |-> s.at, bytes |-> s.counts[c]] ELSE row[c]]
      /\ bucket' = [c \in Creds |-> bucket[c] + IF c \in ingest.on THEN U!Delta(s, c) ELSE 0]
      /\ ingest' = U!NoBatch /\ UNCHANGED <<now, U!core, probe, wire, enabled>>
  BY <1>3 DEF U!IngestCommit
<1>7. /\ node.at \in U!Times \cup {Nothing} /\ node.id \in 0 .. MaxSamples
      /\ \A c \in Creds : row[c].at \in U!Times \cup {Nothing} /\ row[c].bytes \in 0 .. MaxBytes
  BY <1>1 DEF U!TypeOK, U!Rows
<1>8. ASSUME NEW c \in Creds
      PROVE  bucket'[c] \in Nat /\ bucket'[c] <= f[s.id][c]
  <2>1. bucket'[c] = bucket[c] + IF c \in ingest.on THEN U!Delta(s, c) ELSE 0
    BY <1>6
  <2>2. /\ bucket[c] \in Nat /\ f[s.id][c] \in Nat /\ s.counts[c] \in Nat
        /\ bucket[c] <= IF node.id = 0 THEN 0 ELSE f[node.id][c]
    BY <1>2, <1>4 DEF U!Counts, Told, U!CounterAssumption
  <2>3. CASE node.id = 0
    <3>1. U!Delta(s, c) = 0
      BY <1>1, <1>5, <2>3 DEF U!Delta, U!Baseline, Accepted
    <3> QED BY <2>1, <2>2, <2>3, <3>1
  <2>4. CASE node.id # 0
    <3>1. PICK t \in wire : /\ t.id = node.id /\ t.at = node.at
                            /\ row[c].at = node.at => row[c].bytes = t.counts[c]
      BY <1>1, <2>4 DEF Accepted
    <3>2. t.at \in U!Times /\ t.id \in 1 .. MaxSamples /\ t.counts \in U!Counts /\ t.at # Nothing
      BY <1>1 DEF U!TypeOK, U!Samples, U!Times, U!CounterAssumption
    <3>3. t.id < s.id
      <4>1. t.at < s.at
        BY <1>4, <1>5, <3>1, <3>2 DEF U!Times, U!CounterAssumption
      <4>2. ~(s.id < t.id)
        BY <1>1, <1>4, <3>2, <4>1 DEF Wired, U!Times, U!CounterAssumption
      <4> QED BY <1>4, <1>5, <3>1, <3>2, <4>2 DEF U!CounterAssumption
    <3>4. Follows(t.counts, f[t.id], s.counts, f[s.id])
      BY <1>2, <3>3 DEF Told
    <3>5. f[t.id][c] <= f[s.id][c] /\ s.counts[c] - t.counts[c] <= f[s.id][c] - f[t.id][c]
      BY <3>4 DEF Follows
    <3>6. f[t.id][c] \in Nat /\ t.counts[c] \in Nat
      BY <1>2, <3>2 DEF Histories, U!Counts, U!CounterAssumption
    <3>7. U!Delta(s, c) = 0 \/ (U!Delta(s, c) = s.counts[c] - t.counts[c] /\ t.counts[c] <= s.counts[c])
      <4>1. CASE U!Baseline(s, c) \/ U!Seconds(s) \notin 1 .. Fresh \/ s.counts[c] < ingest.seen[c].bytes
        BY <4>1 DEF U!Delta
      <4>2. CASE ~U!Baseline(s, c) /\ ~(s.counts[c] < ingest.seen[c].bytes)
        <5>1. ingest.seen[c].bytes = t.counts[c]
          BY <1>5, <3>1, <4>2 DEF U!Baseline
        <5> QED BY <2>2, <3>6, <4>2, <5>1 DEF U!Delta
      <4> QED BY <4>1, <4>2
    <3> QED BY <2>1, <2>2, <2>4, <3>1, <3>5, <3>6, <3>7
  <2> QED BY <2>3, <2>4
<1>9. Told(f, m)'
  <2>1. \A c \in Creds : bucket'[c] <= IF node'.id = 0 THEN 0 ELSE f[node'.id][c]
    BY <1>4, <1>6, <1>8
  <2> QED BY <1>2, <1>6, <2>1 DEF Told, Counted, U!core
<1>10. bucket' \in U!Counts
  <2>1. \A c \in Creds : f[s.id][c] \in 0 .. MaxBytes
    BY <1>4 DEF U!Counts
  <2>2. \A c \in Creds : bucket'[c] \in 0 .. MaxBytes
    BY <1>8, <2>1 DEF U!CounterAssumption
  <2>3. bucket' = [c \in Creds |-> bucket'[c]]
    BY <1>6
  <2> QED BY <2>2, <2>3 DEF U!Counts
<1>11. row' \in U!Rows
  BY <1>4, <1>6 DEF U!Rows, U!Counts
<1>12. U!TypeOK'
  BY <1>1, <1>4, <1>6, <1>10, <1>11 DEF U!TypeOK, U!core
<1>13. Batch' /\ Moved' /\ Wired'
  BY <1>1, <1>6 DEF Batch, U!NoBatch, Moved, Wired, U!core
<1>14. Accepted'
  <2>1. s.at # Nothing /\ s.id # 0
    BY <1>4 DEF U!Times, U!CounterAssumption
  <2>2. \A c \in Creds : row[c].at # Nothing => row[c].at < s.at
    BY <1>1, <1>4, <1>5, <1>7 DEF Accepted, U!Times, U!CounterAssumption
  <2>3. \A c \in Creds : \/ row'[c] = [at |-> s.at, bytes |-> s.counts[c]]
                         \/ row'[c] = row[c]
    BY <1>6
  <2>4. ASSUME NEW c \in Creds
        PROVE  /\ row'[c].at = s.at => row'[c].bytes = s.counts[c]
               /\ row'[c].at # Nothing => row'[c].at <= s.at
    <3>1. CASE row'[c] = [at |-> s.at, bytes |-> s.counts[c]]
      BY <1>4, <3>1 DEF U!Times
    <3>2. CASE row'[c] = row[c]
      <4>1. row[c].at \in U!Times \/ row[c].at = Nothing
        BY <1>7
      <4>2. CASE row[c].at = Nothing
        BY <2>1, <3>2, <4>2
      <4>3. CASE row[c].at \in U!Times /\ row[c].at # Nothing
        BY <1>4, <2>2, <3>2, <4>3 DEF U!Times, U!CounterAssumption
      <4> QED BY <4>1, <4>2, <4>3
    <3> QED BY <2>3, <3>1, <3>2
  <2> QED BY <1>6, <2>1, <2>4 DEF Accepted
<1> QED BY <1>2, <1>9, <1>12, <1>13, <1>14 DEF CountInv

LEMMA CountNext == ASSUME U!CounterAssumption PROVE CountInv /\ [U!Next]_(U!vars) => CountInv'
<1>1. ASSUME CountInv, UNCHANGED U!vars PROVE CountInv'
  <2>1. /\ UNCHANGED <<now, boot, counter, moved, probe, wire, ingest, enabled, node, row, bucket>>
    BY <1>1 DEF U!vars, U!core, U!stored
  <2>2. U!TypeOK' /\ Moved' /\ Wired' /\ Accepted' /\ Batch'
    BY <1>1, <2>1 DEF CountInv, U!TypeOK, Moved, Wired, Accepted, Batch, U!Superseded, U!Observed
  <2>3. PICK f \in Histories, m \in U!Counts : Told(f, m)
    BY <1>1 DEF CountInv
  <2>4. Told(f, m)'
    BY <2>1, <2>3 DEF Told, Counted
  <2> QED BY <2>2, <2>3, <2>4 DEF CountInv
<1> QED BY <1>1, CountCore, CountProbe, CountSample, CountBatch, CountCommit DEF U!Next

\* However samples are lost, repeated, delayed and reordered, no byte is recorded twice.
THEOREM BytesCountedOnce == ASSUME U!CounterAssumption PROVE U!Spec => []U!NeverOvercounted
<1>1. CountInv => U!NeverOvercounted
  <2> SUFFICES ASSUME CountInv, NEW c \in Creds PROVE bucket[c] <= moved[c]
    BY DEF U!NeverOvercounted
  <2>1. PICK f \in Histories, m \in U!Counts : Told(f, m)
    BY DEF CountInv
  <2>2. bucket[c] \in Nat /\ moved[c] \in Nat
    BY DEF CountInv, U!TypeOK, U!Counts
  <2>3. CASE node.id = 0
    BY <2>1, <2>2, <2>3 DEF Told
  <2>4. CASE node.id # 0
    <3>1. PICK s \in wire : s.id = node.id
      BY <2>4 DEF CountInv, Accepted
    <3>2. bucket[c] <= f[s.id][c] /\ f[s.id][c] <= moved[c]
      BY <2>1, <2>4, <3>1 DEF Told, Follows
    <3>3. f[s.id][c] \in Nat
      BY DEF CountInv, U!TypeOK, U!Samples, Histories, U!Counts
    <3> QED BY <2>2, <3>2, <3>3
  <2> QED BY <2>3, <2>4
<1> QED BY <1>1, CountInit, CountNext, PTL DEF U!Spec

\* A batch that read a subscription as observed commits before the pause or not at all.
THEOREM PausedStaysFrozen == ASSUME U!CounterAssumption PROVE U!Spec => [][U!PausedIsFrozen]_(U!vars)
<1>1. CountInv /\ [U!Next]_(U!vars) => [U!PausedIsFrozen]_(U!vars)
  <2> SUFFICES ASSUME CountInv, U!Next, NEW c \in Creds, ~enabled[c] PROVE bucket'[c] = bucket[c]
    BY DEF U!PausedIsFrozen
  <2>1. CASE U!IngestCommit
    <3>1. c \notin ingest.on /\ bucket \in U!Counts
      BY <2>1 DEF U!IngestCommit, CountInv, Batch, U!Observed, U!TypeOK
    <3>2. bucket'[c] = bucket[c] + 0
      BY <2>1, <3>1 DEF U!IngestCommit
    <3> QED BY <3>1, <3>2 DEF U!Counts
  <2>2. CASE ~U!IngestCommit
    BY <2>2 DEF U!Next, U!Tick, U!CoreRestart, U!ProbeBegin, U!ProbeRead, U!ProbeEnd, U!Enqueue, U!IngestRead, U!PanelRestart,
                U!Move, U!Toggle, U!stored
  <2> QED BY <2>1, <2>2
<1> QED BY <1>1, CountInit, CountNext, PTL DEF U!Spec

-----------------------------------------------------------------------------
(* An agent that is updated can always go back, and without a reboot it is   *)
(* always supervised, for any releases, handlers and number of faults.       *)
CONSTANTS MaxRelease, Broken, Handlers, CanReboot
VARIABLES exe, previous, timer, agent, update, latest, cache, pending, since, handling, proven, due
A == INSTANCE AgentUpdate

AgentReplacing == {"linked", "armed"}
AgentRestoring == timer = "restarting"
Live(h) == handling[h] # Nothing /\ handling[h].live

\* The agent's process, and the handlers that answer it.
Process ==
    /\ agent.at = "down" => update = A!Idle
    /\ agent.at # "down" => agent.ver \in A!Releases
    /\ agent.at # "down" => AgentRestoring \/ exe = agent.ver
    /\ agent.at \in {"confirm", "stop", "remove", "dispatch"} => agent.ver \in proven
    /\ agent.at \in {"stop", "remove"} => ~agent.sure
Listening ==
    /\ \A h \in Handlers : Live(h) => agent.at = "wait"
    /\ \A h, g \in Handlers : Live(h) /\ Live(g) => h = g

\* What lies beside the executable was acknowledged, and so was the executable when nothing
\* lies there, or when it was put back.
Beside ==
    /\ previous # Nothing => previous \in proven
    /\ previous = Nothing \/ AgentRestoring => exe \in proven

\* An update that has preserved the executable relies on nobody taking it away: the agent
\* has confirmed itself, or is about to be restarted.
Relied ==
    /\ update.at \in AgentReplacing => exe \in proven /\ (previous # Nothing \/ AgentRestoring) /\ (agent.sure \/ AgentRestoring)
    /\ update.at = "armed" => timer = "armed"
    /\ previous = Nothing /\ (update.at = "candidate" \/ agent.at \in {"stop", "remove", "dispatch"}) =>
         agent.sure \/ AgentRestoring

Watched == ~CanReboot /\ exe \notin proven => timer \in {"armed", "firing"}

AgentInv == A!TypeOK /\ Process /\ Listening /\ Beside /\ Relied /\ Watched

AgentStates == [ver : A!Releases \cup {Nothing}, sure : BOOLEAN, order : A!Releases \cup {Nothing},
           at : {"down", "send", "wait", "confirm", "stop", "remove", "dispatch"}]
UpdateStates == {A!Idle} \cup [at : {"candidate", "linked", "armed"}, target : A!Releases]
CacheStates == [Handlers -> [ver : A!Releases, pending : BOOLEAN, expired : BOOLEAN, live : BOOLEAN] \cup {Nothing}]

USE DEF AgentReplacing, AgentRestoring

LEMMA AgentInit == ASSUME A!ReleaseAssumption PROVE A!Init => AgentInv
<1> SUFFICES ASSUME A!Init PROVE AgentInv
  OBVIOUS
<1>1. 1 \in A!Releases /\ Nothing \notin A!Releases
  BY DEF A!ReleaseAssumption, A!Releases
<1>2. A!TypeOK
  <2>1. agent \in AgentStates /\ update \in UpdateStates /\ handling \in CacheStates /\ faults \in 0 .. MaxFaults
    BY <1>1 DEF A!Init, AgentStates, UpdateStates, CacheStates, A!Down, A!ReleaseAssumption
  <2> QED BY <1>1, <2>1 DEF A!Init, A!TypeOK, AgentStates, UpdateStates, CacheStates
<1>3. Process /\ Listening /\ Beside /\ Relied /\ Watched
  BY <1>1 DEF A!Init, Process, Listening, Live, Beside, Relied, Watched, A!Down, A!Idle
<1> QED BY <1>2, <1>3 DEF AgentInv

\* Handlers whose answer nobody waits for.
LEMMA DeafLive == ASSUME A!TypeOK PROVE
  /\ \A h \in Handlers : A!Deaf(handling)[h] = Nothing \/ ~A!Deaf(handling)[h].live
  /\ A!Deaf(handling) \in CacheStates
  BY DEF A!TypeOK, A!Deaf, CacheStates

LEMMA AgentTypeStep == ASSUME A!ReleaseAssumption PROVE AgentInv /\ [A!Next]_(A!vars) => A!TypeOK'
<1> SUFFICES ASSUME AgentInv, [A!Next]_(A!vars) PROVE A!TypeOK'
  OBVIOUS
<1>0. /\ A!TypeOK /\ Nothing \notin A!Releases /\ MaxFaults \in Nat
      /\ (agent.at # "down" => agent.ver \in A!Releases) /\ \A h \in Handlers : Live(h) => agent.at = "wait"
  BY DEF AgentInv, Process, Listening, A!ReleaseAssumption, A!Releases
<1>1. /\ agent \in AgentStates /\ update \in UpdateStates /\ handling \in CacheStates /\ proven \subseteq A!Releases
      /\ exe \in A!Releases /\ previous \in A!Releases \cup {Nothing} /\ cache \in A!Releases \cup {Nothing} /\ latest \in A!Releases
  BY <1>0 DEF A!TypeOK, AgentStates, UpdateStates, CacheStates
<1>2. A!Down \in AgentStates /\ A!Idle \in UpdateStates
  BY DEF A!Down, AgentStates, UpdateStates
<1>3. \A h \in Handlers, found \in A!Lookups :
        found \in A!Releases \cup {Nothing} /\ A!Commands(handling[h], found) \subseteq A!Releases \cup {Nothing}
  BY <1>1 DEF A!Lookups, A!Commands
<1>4. agent' \in AgentStates
  <2> USE <1>1, <1>2 DEF A!panel, A!machine
  <2>1. CASE agent' = agent \/ agent' = A!Down
    BY <2>1
  <2>2. ASSUME NEW h \in Handlers, A!Answer(h) PROVE agent' \in AgentStates
    <3>1. PICK found \in A!Lookups, order \in A!Releases \cup {Nothing} :
            agent' = agent \/ agent' = [agent EXCEPT !.at = "confirm", !.order = order]
      BY <1>3, <2>2 DEF A!Answer
    <3> QED BY <3>1 DEF AgentStates
  <2>3. CASE A!Boot
    BY <2>3 DEF A!Boot, AgentStates
  <2>5. CASE A!Confirm \/ A!Dispatch
    BY <2>5 DEF A!Confirm, A!Dispatch, AgentStates
  <2>6. CASE A!StopTimer
    BY <2>6 DEF A!StopTimer, AgentStates
  <2>7. CASE A!RemoveBackup
    BY <2>7 DEF A!RemoveBackup, AgentStates
  <2>4. CASE A!BeatTimesOut \/ A!PanelRestart \/ \E h \in Handlers : A!Beat(h)
    BY <2>4 DEF A!BeatTimesOut, A!PanelRestart, A!Beat, AgentStates
  <2> QED BY <2>1, <2>2, <2>3, <2>4, <2>5, <2>6, <2>7 DEF A!Next, A!Loop, A!Panel, A!Updating, A!Watchdog, A!vars, A!Publish, A!RequestUpdate, A!WindowPasses,
             A!Reject, A!Preserve, A!ArmRollback, A!Replace, A!ReplaceFails, A!TimerFires, A!Restore, A!RestartAgent, A!AgentCrash, A!Reboot
<1>5. update' \in UpdateStates
  <2>1. CASE update' = update \/ update' = A!Idle
    BY <1>1, <1>2, <2>1
  <2>2. CASE A!Dispatch
    BY <1>1, <1>2, <2>2 DEF A!Dispatch, A!Told, UpdateStates
  <2>3. CASE A!Preserve \/ A!ArmRollback
    <3>1. update.at \in {"candidate", "linked"} => update \in [at : {"candidate", "linked", "armed"}, target : A!Releases]
      BY <1>1 DEF UpdateStates, A!Idle
    <3> QED BY <1>2, <2>3, <3>1 DEF A!Preserve, A!ArmRollback, UpdateStates
  <2> QED BY <2>1, <2>2, <2>3 DEF A!Next, A!Loop, A!Panel, A!Updating, A!Watchdog, A!vars, A!Publish, A!RequestUpdate, A!WindowPasses, A!Beat, A!Answer,
             A!Boot, A!BeatTimesOut, A!Confirm, A!StopTimer, A!RemoveBackup, A!Reject, A!Replace, A!ReplaceFails, A!TimerFires, A!Restore,
             A!RestartAgent, A!AgentCrash, A!Reboot, A!PanelRestart
<1>6. handling' \in CacheStates
  <2>1. CASE handling' = handling \/ handling' = A!Deaf(handling)
    BY <1>0, <1>1, <2>1, DeafLive
  <2>2. ASSUME NEW h \in Handlers, A!Answer(h) \/ A!PanelRestart PROVE handling' \in CacheStates
    BY <1>1, <2>2 DEF A!Answer, A!PanelRestart, CacheStates
  <2>3. ASSUME NEW h \in Handlers, A!Beat(h) PROVE handling' \in CacheStates
    <3>1. agent.ver \in A!Releases /\ pending \in BOOLEAN /\ (pending /\ since = "expired") \in BOOLEAN
      BY <1>0, <2>3 DEF A!Beat, A!TypeOK
    <3> QED BY <1>1, <2>3, <3>1 DEF A!Beat, CacheStates
  <2>4. CASE A!PanelRestart
    BY <2>4 DEF A!PanelRestart, CacheStates
  <2> QED BY <2>1, <2>2, <2>3, <2>4 DEF A!Next, A!Loop, A!Panel, A!Updating, A!Watchdog, A!vars, A!Publish, A!RequestUpdate, A!WindowPasses,
             A!Boot, A!BeatTimesOut, A!Confirm, A!StopTimer, A!RemoveBackup, A!Dispatch, A!Reject, A!Preserve, A!ArmRollback, A!Replace,
             A!ReplaceFails, A!TimerFires, A!Restore, A!RestartAgent, A!AgentCrash, A!Reboot
<1>7. exe' \in A!Releases /\ previous' \in A!Releases \cup {Nothing} /\ timer' \in {"off", "armed", "firing", "restarting"}
  <2>1. CASE A!Replace
    <3>1. update.target \in A!Releases
      BY <1>1, <2>1 DEF A!Replace, UpdateStates, A!Idle
    <3> QED BY <1>0, <1>1, <2>1, <3>1 DEF A!Replace, A!TypeOK
  <2>2. CASE A!StopTimer \/ A!RemoveBackup \/ A!Preserve \/ A!ArmRollback \/ A!TimerFires \/ A!Restore \/ A!RestartAgent \/ A!Reboot
    BY <1>0, <1>1, <2>2 DEF A!StopTimer, A!RemoveBackup, A!Preserve, A!ArmRollback, A!TimerFires, A!Restore, A!RestartAgent, A!Reboot, A!TypeOK
  <2>3. CASE UNCHANGED A!machine
    BY <1>0, <2>3 DEF A!machine, A!TypeOK
  <2> QED BY <2>1, <2>2, <2>3 DEF A!Next, A!Loop, A!Panel, A!Updating, A!Watchdog, A!vars, A!machine, A!Publish, A!RequestUpdate, A!WindowPasses, A!Beat,
             A!Answer, A!Boot, A!BeatTimesOut, A!Confirm, A!Dispatch, A!Reject, A!ReplaceFails, A!AgentCrash, A!PanelRestart
<1>8. /\ latest' \in A!Releases /\ cache' \in A!Releases \cup {Nothing} /\ pending' \in BOOLEAN /\ due' \in BOOLEAN
      /\ since' \in {"none", "running", "expired"} /\ proven' \subseteq A!Releases /\ faults' \in 0 .. MaxFaults
  <2> USE <1>0, <1>1 DEF A!TypeOK
  <2>1. ASSUME NEW h \in Handlers, A!Answer(h) PROVE
          /\ latest' \in A!Releases /\ cache' \in A!Releases \cup {Nothing} /\ pending' \in BOOLEAN /\ due' \in BOOLEAN
          /\ since' \in {"none", "running", "expired"} /\ proven' \subseteq A!Releases /\ faults' \in 0 .. MaxFaults
    <3>1. PICK found \in A!Lookups : /\ cache' = found /\ pending' = (pending /\ ~A!Clears(handling[h], found))
                                   /\ since' = IF A!Clears(handling[h], found) THEN "none" ELSE since
      BY <2>1 DEF A!Answer
    <3>2. due' = (due /\ pending') /\ UNCHANGED <<latest, faults>>
      BY <2>1 DEF A!Answer
    <3>3. cache' \in A!Releases \cup {Nothing} /\ pending' \in BOOLEAN /\ due' \in BOOLEAN
      BY <1>3, <3>1, <3>2
    <3>4. since' \in {"none", "running", "expired"}
      BY <3>1
    <3>5. proven' \subseteq A!Releases
      BY <2>1 DEF A!Answer, Live
    <3> QED BY <3>2, <3>3, <3>4, <3>5
  <2>2. CASE A!Publish \/ A!RequestUpdate \/ A!WindowPasses
    <3>1. latest' \in A!Releases
      BY <2>2 DEF A!Publish, A!RequestUpdate, A!WindowPasses, A!Releases, A!ReleaseAssumption
    <3>2. pending' \in BOOLEAN /\ due' \in BOOLEAN
      BY <2>2, Zenon DEF A!Publish, A!RequestUpdate, A!WindowPasses
    <3>3. since' \in {"none", "running", "expired"} /\ UNCHANGED <<cache, proven, faults>>
      BY <2>2 DEF A!Publish, A!RequestUpdate, A!WindowPasses
    <3> QED BY <3>1, <3>2, <3>3
  <2>3. CASE A!PanelRestart \/ A!AgentCrash \/ A!Reboot
    BY <2>3 DEF A!PanelRestart, A!AgentCrash, A!Reboot, A!Fault, A!panel
  <2>4. ASSUME NEW h \in Handlers, A!Beat(h) PROVE
          /\ latest' \in A!Releases /\ cache' \in A!Releases \cup {Nothing} /\ pending' \in BOOLEAN /\ due' \in BOOLEAN
          /\ since' \in {"none", "running", "expired"} /\ proven' \subseteq A!Releases /\ faults' \in 0 .. MaxFaults
    <3>1. since' \in {"none", "running", since} /\ UNCHANGED <<latest, cache, pending, due, proven, faults>>
      BY <2>4 DEF A!Beat
    <3> QED BY <3>1
  <2>5. CASE UNCHANGED <<A!panel, proven, faults>>
    BY <2>5 DEF A!panel
  <2> QED BY <2>1, <2>2, <2>3, <2>4, <2>5 DEF A!Next, A!Loop, A!Panel, A!Updating, A!Watchdog, A!vars, A!panel, A!Boot, A!BeatTimesOut, A!Confirm,
             A!StopTimer, A!RemoveBackup, A!Dispatch, A!Reject, A!Preserve, A!ArmRollback, A!Replace, A!ReplaceFails, A!TimerFires, A!Restore,
             A!RestartAgent
<1> QED BY <1>4, <1>5, <1>6, <1>7, <1>8 DEF A!TypeOK, AgentStates, UpdateStates, CacheStates

AgentRest == Process /\ Listening /\ Beside /\ Relied /\ Watched

LEMMA AgentStep == ASSUME A!ReleaseAssumption PROVE AgentInv /\ [A!Next]_(A!vars) => AgentRest'
<1> SUFFICES ASSUME AgentInv, [A!Next]_(A!vars) PROVE AgentRest'
  OBVIOUS
<1>0. A!TypeOK /\ AgentRest /\ Nothing \notin A!Releases
  BY DEF AgentInv, AgentRest, A!ReleaseAssumption, A!Releases
<1>a. /\ agent \in [ver : A!Releases \cup {Nothing}, sure : BOOLEAN, order : A!Releases \cup {Nothing},
                    at : {"down", "send", "wait", "confirm", "stop", "remove", "dispatch"}]
      /\ update = A!Idle \/ update \in [at : {"candidate", "linked", "armed"}, target : A!Releases]
      /\ exe \in A!Releases /\ previous \in A!Releases \cup {Nothing}
      /\ proven \subseteq A!Releases /\ A!Idle.at = "idle" /\ A!Down.at = "down" /\ CanReboot \in BOOLEAN
  BY <1>0 DEF A!TypeOK, A!Idle, A!Down, A!ReleaseAssumption
<1>b. \A h \in Handlers : A!Deaf(handling)[h] = Nothing \/ ~A!Deaf(handling)[h].live
  BY <1>0, DeafLive
<1> USE <1>0, <1>a DEF A!machine, A!panel, AgentRest, Process, Listening, Live, Beside, Relied, Watched
<1>1. CASE A!Publish \/ A!RequestUpdate \/ A!WindowPasses
  BY <1>1 DEF A!Publish, A!RequestUpdate, A!WindowPasses
<1>2. ASSUME NEW h \in Handlers, A!Beat(h) PROVE AgentRest'
  BY <1>2 DEF A!Beat, A!TypeOK
<1>3. ASSUME NEW h \in Handlers, A!Answer(h) PROVE AgentRest'
  <2>1. UNCHANGED <<exe, previous, timer, update>> /\ handling[h] # Nothing /\ handling' = [handling EXCEPT ![h] = Nothing]
    BY <1>3 DEF A!Answer
  <2>2. \/ ~handling[h].live /\ UNCHANGED <<agent, proven>>
        \/ /\ handling[h].live /\ agent.at = "wait" /\ agent'.at = "confirm" /\ agent'.ver = agent.ver /\ agent'.sure = agent.sure
           /\ proven' = proven \cup {agent.ver}
    BY <1>3 DEF A!Answer
  <2> QED BY <2>1, <2>2 DEF A!TypeOK
<1>4. CASE A!Boot
  <2>1. agent' = [ver |-> exe, at |-> "send", sure |-> FALSE, order |-> Nothing] /\ update = A!Idle
        /\ UNCHANGED <<exe, previous, timer, update, handling, proven>> /\ agent.at = "down"
    BY <1>4 DEF A!Boot
  <2> QED BY <2>1
<1>15. CASE A!Confirm
  <2>1. /\ UNCHANGED <<exe, previous, timer, update, handling, proven>> /\ agent.at = "confirm" /\ agent'.ver = agent.ver
        /\ \/ agent'.at = "dispatch" /\ agent'.sure = TRUE
           \/ agent'.at = "stop" /\ agent'.sure = agent.sure /\ ~agent.sure /\ previous # Nothing
    BY <1>15 DEF A!Confirm
  <2> QED BY <2>1
<1>5. CASE A!BeatTimesOut
  BY <1>5, <1>b DEF A!BeatTimesOut
<1>6. CASE A!StopTimer
  BY <1>6 DEF A!StopTimer
<1>7. CASE A!RemoveBackup
  BY <1>7 DEF A!RemoveBackup
<1>8. CASE A!Dispatch
  BY <1>8 DEF A!Dispatch, A!Told
<1>9. CASE A!Reject \/ A!Preserve \/ A!ArmRollback \/ A!ReplaceFails
  BY <1>9 DEF A!Reject, A!Preserve, A!ArmRollback, A!ReplaceFails
<1>10. CASE A!Replace
  BY <1>10, <1>b DEF A!Replace
<1>11. CASE A!TimerFires \/ A!Restore
  BY <1>11 DEF A!TimerFires, A!Restore
<1>12. CASE A!RestartAgent \/ A!AgentCrash \/ A!Reboot
  BY <1>12, <1>b DEF A!RestartAgent, A!AgentCrash, A!Reboot
<1>13. CASE A!PanelRestart
  BY <1>13 DEF A!PanelRestart
<1>14. CASE UNCHANGED A!vars
  BY <1>14 DEF A!vars
<1> QED BY <1>1, <1>2, <1>3, <1>4, <1>5, <1>6, <1>7, <1>8, <1>9, <1>10, <1>11, <1>12, <1>13, <1>14, <1>15
        DEF A!Next, A!Loop, A!Panel, A!Updating, A!Watchdog

LEMMA AgentInvariance == ASSUME A!ReleaseAssumption PROVE A!Spec => []AgentInv
<1>1. AgentInv /\ [A!Next]_(A!vars) => AgentInv'
  BY AgentTypeStep, AgentStep DEF AgentInv, AgentRest
<1> QED BY AgentInit, <1>1, PTL DEF A!Spec

\* Until a release has proven itself the host keeps the way back to one that has.
THEOREM WayBackExists == ASSUME A!ReleaseAssumption PROVE A!Spec => [](A!TypeOK /\ A!Recoverable)
<1>1. AgentInv => A!TypeOK /\ A!Recoverable
  BY DEF AgentInv, Beside, A!Recoverable
<1> QED BY <1>1, AgentInvariance, PTL

\* As long as the machine stays up, a release that no acknowledged heartbeat vouches for is
\* under the rollback timer: the transient unit of the timer does not outlive a boot.
THEOREM AlwaysSupervised == ASSUME A!ReleaseAssumption, ~CanReboot PROVE A!Spec => []A!Supervised
<1>1. AgentInv => A!Supervised
  BY DEF AgentInv, Watched, A!Supervised
<1> QED BY <1>1, AgentInvariance, PTL

-----------------------------------------------------------------------------
(* The rates of a server count its traffic once, and once more at most for   *)
(* each request that arrives after a newer one; and a deleted server stays   *)
(* deleted, for any bounds on traffic, requests and handlers. The invariant  *)
(* says that there is a history of what had gone through the machine when    *)
(* each request that is in its order was composed, which puts the baseline   *)
(* before those of them that may still be sampled. An overtaken request that *)
(* takes the baseline back may put it at the beginning of that history.      *)
CONSTANTS Services, MaxTraffic, MaxAgain, MaxWire, MaxHandlers
VARIABLES status, seen, hosted, last, total, traffic, service, handlers, base, counted, again
H == INSTANCE Heartbeats

\* A counter that was read as b when fb had gone through the machine, after one that was
\* read as a at fa.
ReadAfter(a, fa, b, fb) == fa <= fb /\ (a <= b => b - a <= fb - fa)

\* The same after the baseline, which says nothing when it is old.
ReadAbove(f, b, fb) == f <= fb /\ (base.old \/ ReadAfter(base.bytes, f, b, fb))

Unsampled(i) == handlers[i].step = "lookup" /\ ~handlers[i].late

\* Requests that no newer one has overtaken.
Prompt(j) == ~wire[j].behind
InOrder(j) == ~handlers[j].behind

\* What had gone through the machine when each request that is still known was composed: one
\* history for the handlers, one for the wire, the last payload and the baseline.
Composed(hs, ws, l, f) ==
    /\ hs \in Seq(Nat) /\ Len(hs) = Len(handlers) /\ ws \in Seq(Nat) /\ Len(ws) = Len(wire) /\ l \in Nat /\ f \in Nat
    /\ ReadAfter(last.bytes, l, total, traffic) /\ ReadAbove(f, last.bytes, l) /\ counted <= f + again
    /\ last.bytes <= l
Bounded ==
    /\ \A j \in 1 .. Len(wire) : wire[j].bytes <= traffic
    /\ \A j \in 1 .. Len(handlers) : handlers[j].bytes <= traffic
OnWire(ws, l, f) ==
    \A j \in 1 .. Len(wire) : Prompt(j) =>
        /\ ReadAfter(wire[j].bytes, ws[j], last.bytes, l) /\ ReadAbove(f, wire[j].bytes, ws[j]) /\ wire[j].bytes <= ws[j]
        /\ \A i \in 1 .. Len(wire) : i < j /\ Prompt(i) => ReadAfter(wire[i].bytes, ws[i], wire[j].bytes, ws[j])
AtHandlers(hs, ws, l, f) ==
    \A j \in 1 .. Len(handlers) : InOrder(j) =>
        /\ ReadAfter(handlers[j].bytes, hs[j], last.bytes, l) /\ handlers[j].bytes <= hs[j]
        /\ Unsampled(j) => ReadAbove(f, handlers[j].bytes, hs[j])
        /\ \A i \in 1 .. Len(handlers) : i < j /\ InOrder(i) => ReadAfter(handlers[i].bytes, hs[i], handlers[j].bytes, hs[j])
        /\ \A i \in 1 .. Len(wire) : Prompt(i) => ReadAfter(handlers[j].bytes, hs[j], wire[i].bytes, ws[i])

Known(hs, ws, l, f) == Composed(hs, ws, l, f) /\ Bounded /\ OnWire(ws, l, f) /\ AtHandlers(hs, ws, l, f)
BeatHistories == \E hs, ws \in Seq(Nat), l, f \in Nat : Known(hs, ws, l, f)
BeatInv == H!TypeOK /\ BeatHistories

LEMMA Shifted == \A i, k \in Int : (i + 1) + (k - (i - 1)) - 1 = k + 1
OBVIOUS

LEMMA Within ==
  \A a, b, c, f, g, m \in Nat : c <= f + g /\ f <= m => c <= m + g /\ (b - a <= m - f => c + (b - a) <= m + g)
OBVIOUS

LEMMA RemoveFacts ==
  ASSUME NEW S, NEW s \in Seq(S), NEW i \in DOMAIN s
  PROVE  /\ H!RemoveAt(s, i) \in Seq(S) /\ Len(H!RemoveAt(s, i)) = Len(s) - 1
         /\ \A k \in 1 .. i - 1 : H!RemoveAt(s, i)[k] = s[k]
         /\ \A k \in i .. Len(s) - 1 : H!RemoveAt(s, i)[k] = s[k + 1]
<1>1. i \in 1 .. Len(s) /\ Len(s) \in Nat
  OBVIOUS
<1>2. PICK a, b : a = SubSeq(s, 1, i - 1) /\ b = SubSeq(s, i + 1, Len(s))
  OBVIOUS
<1>3. a \in Seq(S) /\ Len(a) = i - 1 /\ \A k \in 1 .. i - 1 : a[k] = s[k]
  BY <1>1, <1>2
<1>4. b \in Seq(S) /\ Len(b) = Len(s) - i /\ \A k \in 1 .. Len(s) - i : b[k] = s[(i + 1) + k - 1]
  BY <1>1, <1>2
<1>5. /\ a \o b \in Seq(S) /\ Len(a \o b) = Len(a) + Len(b)
      /\ \A k \in 1 .. Len(a) + Len(b) : (a \o b)[k] = IF k <= Len(a) THEN a[k] ELSE b[k - Len(a)]
  <2>1. a \in Seq(S) /\ b \in Seq(S)
    BY <1>3, <1>4
  <2> QED BY <2>1
<1>n. Len(a) = i - 1 /\ Len(b) = Len(s) - i /\ Len(a) + Len(b) = Len(s) - 1
  <2>1. Len(a) = i - 1 /\ Len(b) = Len(s) - i
    BY <1>3, <1>4
  <2> QED BY <1>1, <2>1
<1>6. ASSUME NEW k \in 1 .. i - 1 PROVE (a \o b)[k] = s[k]
  <2>1. k <= Len(a) /\ k \in 1 .. Len(a) + Len(b)
    BY <1>1, <1>n
  <2>2. (a \o b)[k] = a[k]
    BY <1>5, <2>1
  <2> QED BY <1>3, <2>2
<1>7. ASSUME NEW k \in i .. Len(s) - 1 PROVE (a \o b)[k] = s[k + 1]
  <2>1. PICK m \in 1 .. Len(s) - i : m = k - (i - 1)
    BY <1>1
  <2>2. ~(k <= Len(a)) /\ k - Len(a) = m /\ k \in 1 .. Len(a) + Len(b)
    <3>1. ~(k <= i - 1) /\ k - (i - 1) = m /\ k \in 1 .. Len(s) - 1
      BY <1>1, <2>1
    <3> QED BY <1>n, <3>1
  <2>3. (a \o b)[k] = b[m]
    BY <1>5, <2>2
  <2>4. b[m] = s[(i + 1) + m - 1]
    BY <1>4
  <2>5. (i + 1) + m - 1 = k + 1
    <3>1. i \in Int /\ k \in Int /\ m = k - (i - 1)
      BY <1>1, <2>1
    <3> QED BY <3>1, Shifted
  <2> QED BY <2>3, <2>4, <2>5
<1>8. Len(a \o b) = Len(s) - 1
  BY <1>5, <1>n
<1> QED BY <1>2, <1>5, <1>6, <1>7, <1>8 DEF H!RemoveAt

LEMMA ReadAfterChain ==
  ASSUME NEW a \in Nat, NEW fa \in Nat, NEW b \in Nat, NEW fb \in Nat, NEW c \in Nat, NEW fc \in Nat,
         ReadAfter(a, fa, b, fb), ReadAfter(b, fb, c, fc)
  PROVE  ReadAfter(a, fa, c, fc)
BY DEF ReadAfter

LEMMA ReadAboveChain ==
  ASSUME NEW f \in Nat, NEW b \in Nat, NEW fb \in Nat, NEW c \in Nat, NEW fc \in Nat, base.bytes \in Nat,
         ReadAbove(f, b, fb), ReadAfter(b, fb, c, fc)
  PROVE  ReadAbove(f, c, fc)
BY ReadAfterChain DEF ReadAbove, ReadAfter

LEMMA BeatInit == ASSUME H!HeartbeatAssumption PROVE H!Init => BeatInv
<1> SUFFICES ASSUME H!Init PROVE BeatInv
  OBVIOUS
<1>1. H!TypeOK
  BY DEF H!Init, H!TypeOK, H!HeartbeatAssumption, H!Payload, H!NoBase, H!NotReported
<1>2. Known(<<>>, <<>>, 0, 0)
  BY DEF H!Init, Known, Composed, Bounded, OnWire, AtHandlers, ReadAfter, ReadAbove, H!NoBase
<1>3. BeatHistories
  <2>1. <<>> \in Seq(Nat) /\ 0 \in Nat
    OBVIOUS
  <2> QED BY <1>2, <2>1, Zenon DEF BeatHistories
<1> QED BY <1>1, <1>3 DEF BeatInv

\* What the types say of the requests.
LEMMA BeatTypes ==
  ASSUME H!HeartbeatAssumption, H!TypeOK
  PROVE  /\ wire \in Seq(H!Request) /\ handlers \in Seq(H!Handler) /\ last \in H!Payload /\ last.bytes \in Nat
         /\ Len(wire) \in Nat /\ Len(handlers) \in Nat /\ total \in Nat /\ traffic \in Nat /\ counted \in Nat
         /\ again \in Nat /\ total <= traffic
         /\ DOMAIN wire = 1 .. Len(wire) /\ DOMAIN handlers = 1 .. Len(handlers)
         /\ \A j \in 1 .. Len(wire) : wire[j] \in H!Request /\ wire[j].bytes \in Nat
         /\ \A j \in 1 .. Len(handlers) : handlers[j] \in H!Handler /\ handlers[j].bytes \in Nat
         /\ base \in [bytes : 0 .. MaxTraffic, old : BOOLEAN] /\ base.bytes \in Nat /\ MaxTraffic \in Nat
<1>1. wire \in Seq(H!Request) /\ handlers \in Seq(H!Handler) /\ last \in H!Payload /\ MaxTraffic \in Nat
  BY DEF H!TypeOK, H!HeartbeatAssumption
<1>2. /\ \A j \in 1 .. Len(wire) : wire[j] \in H!Request
      /\ \A j \in 1 .. Len(handlers) : handlers[j] \in H!Handler
  BY <1>1
<1>3. /\ \A p \in H!Payload : p.bytes \in 0 .. MaxTraffic
      /\ \A p \in H!Request : p.bytes \in 0 .. MaxTraffic
      /\ \A h \in H!Handler : h.bytes \in 0 .. MaxTraffic
  BY DEF H!Payload, H!Request, H!Handler
<1>4. 0 .. MaxTraffic \subseteq Nat
  BY <1>1
<1> QED BY <1>1, <1>2, <1>3, <1>4 DEF H!TypeOK

LEMMA Resized ==
  ASSUME H!HeartbeatAssumption, H!TypeOK, NEW s \in [1 .. Len(handlers) -> H!Handler]
  PROVE  s \in Seq(H!Handler) /\ Len(s) = Len(handlers)
<1>1. Len(handlers) \in Nat
  BY BeatTypes
<1> QED BY <1>1

\* What the step leaves of the wire when a request arrives.
LEMMA OvertakenFacts ==
  ASSUME H!HeartbeatAssumption, H!TypeOK, NEW k \in 1 .. Len(wire)
  PROVE  /\ H!Overtaken(k) \in Seq(H!Request) /\ Len(H!Overtaken(k)) = Len(wire)
         /\ \A j \in 1 .. Len(wire) :
               /\ H!Overtaken(k)[j].bytes = wire[j].bytes
               /\ H!Overtaken(k)[j].behind <=> wire[j].behind \/ (j < k /\ wire[j].bytes # wire[k].bytes)
         /\ wire[k] \in H!Request /\ H!Started(wire[k]) \in H!Handler
<1>1. /\ DOMAIN wire = 1 .. Len(wire) /\ Len(wire) \in Nat /\ wire \in Seq(H!Request)
      /\ \A j \in 1 .. Len(wire) : wire[j] \in H!Request
  BY BeatTypes
<1>2. ASSUME NEW j \in 1 .. Len(wire)
      PROVE  /\ H!Overtaken(k)[j] \in H!Request
             /\ H!Overtaken(k)[j].bytes = wire[j].bytes
             /\ H!Overtaken(k)[j].behind <=> wire[j].behind \/ (j < k /\ wire[j].bytes # wire[k].bytes)
  <2>1. wire[j] \in [bytes : 0 .. MaxTraffic, svc : Services \cup {H!NotReported}, behind : BOOLEAN]
    BY <1>1 DEF H!Request
  <2>2. H!Overtaken(k)[j] = [wire[j] EXCEPT !.behind = @ \/ (j < k /\ wire[j].bytes # wire[k].bytes)]
    BY <1>1 DEF H!Overtaken
  <2> QED BY <2>1, <2>2 DEF H!Request
<1>3. H!Overtaken(k) \in [1 .. Len(wire) -> H!Request]
  <2>1. H!Overtaken(k) = [j \in 1 .. Len(wire) |-> H!Overtaken(k)[j]]
    BY <1>1 DEF H!Overtaken
  <2> QED BY <1>2, <2>1
<1>4. H!Overtaken(k) \in Seq(H!Request) /\ Len(H!Overtaken(k)) = Len(wire)
  BY <1>1, <1>3
<1>5. wire[k] \in H!Request /\ H!Started(wire[k]) \in H!Handler
  BY <1>1 DEF H!Request, H!Handler, H!Started
<1> QED BY <1>2, <1>4, <1>5

LEMMA BeatTypeStep == ASSUME H!HeartbeatAssumption PROVE H!TypeOK /\ [H!Next]_(H!vars) => H!TypeOK'
<1> SUFFICES ASSUME H!TypeOK, [H!Next]_(H!vars) PROVE H!TypeOK'
  OBVIOUS
<1>0. /\ wire \in Seq(H!Request) /\ handlers \in Seq(H!Handler) /\ DOMAIN wire = 1 .. Len(wire) /\ DOMAIN handlers = 1 .. Len(handlers)
      /\ \A j \in 1 .. Len(wire) : wire[j] \in H!Request
      /\ \A j \in 1 .. Len(handlers) : handlers[j] \in H!Handler
  BY BeatTypes
<1>1. /\ total' \in 0 .. traffic' /\ traffic' \in 0 .. MaxTraffic /\ service' \in Services \cup {H!NotReported}
      /\ agent' \in {"down", "sleep", "first", "second"} /\ last' \in H!Payload
  <2>0. /\ total \in 0 .. traffic /\ traffic \in 0 .. MaxTraffic /\ service \in Services \cup {H!NotReported} /\ MaxTraffic \in Nat
        /\ agent \in {"down", "sleep", "first", "second"} /\ last \in H!Payload
    BY DEF H!TypeOK, H!HeartbeatAssumption
  <2>1. CASE H!Traffic
    BY <2>0, <2>1 DEF H!Traffic, H!rows
  <2>2. CASE H!ServiceChanges
    BY <2>0, <2>2 DEF H!ServiceChanges, H!rows
  <2>3. CASE H!Ends
    BY <2>0, <2>3 DEF H!Ends, H!rows
  <2>4. CASE H!Post
    <3>1. H!Collected \in H!Payload
      <4>1. total \in 0 .. MaxTraffic
        BY <2>0
      <4> QED BY <2>0, <4>1 DEF H!Collected, H!Payload
    <3> QED BY <2>0, <2>4, <3>1 DEF H!Post, H!machine
  <2>5. UNCHANGED H!machine /\ UNCHANGED last /\ agent' \in {agent, "sleep", "second"} =>
            /\ total' \in 0 .. traffic' /\ traffic' \in 0 .. MaxTraffic /\ service' \in Services \cup {H!NotReported}
            /\ agent' \in {"down", "sleep", "first", "second"} /\ last' \in H!Payload
    BY <2>0 DEF H!machine
  <2>6. CASE H!Starts \/ H!Fallback \/ H!GiveUp
    BY <2>5, <2>6 DEF H!Starts, H!Fallback, H!GiveUp
  <2>7. CASE H!Arrive \/ H!Lose \/ H!Restart \/ H!LongGap \/ H!TwoMinutes \/ H!markStaleServersOffline \/ H!Deploy \/ H!Rehost \/ H!Retire
    BY <2>5, <2>7 DEF H!Arrive, H!Lose, H!Restart, H!LongGap, H!TwoMinutes, H!markStaleServersOffline, H!Deploy, H!Rehost, H!Retire
  <2>8. ASSUME NEW i, H!Handle(i) PROVE UNCHANGED H!machine /\ UNCHANGED last /\ agent' \in {agent, "sleep", "second"}
    BY <2>8 DEF H!Handle, H!Sample, H!Store, H!Observe
  <2>9. CASE UNCHANGED H!vars
    BY <2>5, <2>9 DEF H!vars, H!machine
  <2> QED BY <2>1, <2>2, <2>3, <2>4, <2>5, <2>6, <2>7, <2>8, <2>9 DEF H!Next, H!Agent, H!Panel
<1>2. /\ status' \in {"UNKNOWN", "ONLINE", "OFFLINE", "GONE"} \cup H!Retiring /\ seen' \in {"never", "fresh", "stale"}
      /\ (status' \in {"ONLINE", "OFFLINE"} => seen' # "never") /\ hosted' \in BOOLEAN
  BY DEF H!Next, H!Agent, H!Panel, H!Traffic, H!ServiceChanges, H!Ends, H!Starts, H!Post, H!Fallback, H!GiveUp, H!Arrive, H!Lose,
         H!Handle, H!Sample, H!Store, H!Observe,
         H!Restart, H!LongGap, H!TwoMinutes, H!markStaleServersOffline, H!Deploy, H!Rehost, H!Retire, H!TypeOK, H!rows, H!rates, H!vars,
         H!Retiring, H!LastSeen
<1>3. node' \in Services \cup {"INACTIVE"}
  <2>1. ASSUME NEW i \in 1 .. Len(handlers), H!Observe(i) PROVE node' \in Services \cup {"INACTIVE"}
    BY <1>0, <2>1 DEF H!Observe, H!Reports, H!Handler, H!TypeOK
  <2> QED BY <1>0, <2>1 DEF H!Next, H!Agent, H!Panel, H!Traffic, H!ServiceChanges, H!Ends, H!Starts, H!Post, H!Fallback, H!GiveUp,
         H!Arrive, H!Lose, H!Handle, H!Sample,
             H!Store, H!Restart, H!LongGap, H!TwoMinutes, H!markStaleServersOffline, H!Deploy, H!Rehost, H!Retire, H!TypeOK, H!rows, H!rates, H!vars
<1>4. wire' \in Seq(H!Request) /\ Len(wire') <= MaxWire
  <2>1. ASSUME NEW p \in H!Payload, H!Put(p) PROVE wire' \in Seq(H!Request) /\ Len(wire') <= MaxWire
    <3>1. H!Sent(p) \in H!Request
      BY DEF H!Sent, H!Payload, H!Request
    <3> QED BY <2>1, <3>1 DEF H!Put, H!HeartbeatAssumption, H!TypeOK
  <2>2. CASE H!Post \/ H!Fallback
    <3>1. H!Collected \in H!Payload /\ last \in H!Payload
      BY DEF H!Collected, H!Payload, H!TypeOK, H!HeartbeatAssumption
    <3>2. H!Put(H!Collected) \/ H!Put(last) \/ wire' = wire
      BY <2>2 DEF H!Post, H!Fallback
    <3> QED BY <2>1, <3>1, <3>2 DEF H!TypeOK
  <2>3. CASE H!Arrive
    <3>1. PICK k \in 1 .. Len(wire) : wire' = H!RemoveAt(H!Overtaken(k), k)
      BY <1>0, <2>3, Zenon DEF H!Arrive
    <3>2. H!Overtaken(k) \in Seq(H!Request) /\ Len(H!Overtaken(k)) = Len(wire)
      BY OvertakenFacts
    <3>3. H!RemoveAt(H!Overtaken(k), k) \in Seq(H!Request) /\ Len(H!RemoveAt(H!Overtaken(k), k)) = Len(wire) - 1
      <4>1. k \in DOMAIN H!Overtaken(k)
        BY <3>2
      <4> QED BY <3>2, <4>1, RemoveFacts
    <3> QED BY <1>0, <3>1, <3>3 DEF H!TypeOK, H!HeartbeatAssumption
  <2>4. CASE H!Lose
    <3>1. PICK k \in DOMAIN wire : wire' = H!RemoveAt(wire, k)
      BY <2>4, Zenon DEF H!Lose
    <3>2. H!RemoveAt(wire, k) \in Seq(H!Request) /\ Len(H!RemoveAt(wire, k)) = Len(wire) - 1
      BY <1>0, RemoveFacts
    <3> QED BY <3>1, <3>2 DEF H!TypeOK, H!HeartbeatAssumption
  <2> QED BY <2>2, <2>3, <2>4 DEF H!Next, H!Agent, H!Panel, H!Traffic, H!ServiceChanges, H!Ends, H!Starts, H!GiveUp, H!Handle,
         H!Sample, H!Store, H!Observe,
             H!Restart, H!LongGap, H!TwoMinutes, H!markStaleServersOffline, H!Deploy, H!Rehost, H!Retire, H!TypeOK, H!rates, H!vars
<1>5. handlers' \in Seq(H!Handler) /\ Len(handlers') <= MaxHandlers
  <2>1. ASSUME NEW i \in 1 .. Len(handlers), H!Without(i) PROVE handlers' \in Seq(H!Handler) /\ Len(handlers') <= MaxHandlers
    <3>1. H!RemoveAt(handlers, i) \in Seq(H!Handler) /\ Len(H!RemoveAt(handlers, i)) = Len(handlers) - 1
      BY <1>0, RemoveFacts
    <3>2. Len(handlers) \in Nat /\ Len(handlers) <= MaxHandlers /\ MaxHandlers \in Nat
      BY <1>0 DEF H!TypeOK, H!HeartbeatAssumption
    <3>3. Len(handlers) - 1 <= MaxHandlers
      BY <3>2
    <3> QED BY <2>1, <3>1, <3>3, Zenon DEF H!Without
  <2>2. ASSUME NEW i \in 1 .. Len(handlers), H!Sample(i) PROVE handlers' \in Seq(H!Handler) /\ Len(handlers') <= MaxHandlers
    <3>1. CASE H!Without(i)
      BY <2>1, <3>1
    <3>2. CASE handlers' = [k \in DOMAIN handlers |->
                   IF k = i THEN [handlers[k] EXCEPT !.step = "sampled"]
                   ELSE IF k < i THEN [handlers[k] EXCEPT !.late = TRUE] ELSE handlers[k]]
      <4>1. \A k \in 1 .. Len(handlers) : /\ [handlers[k] EXCEPT !.step = "sampled"] \in H!Handler
                                         /\ [handlers[k] EXCEPT !.late = TRUE] \in H!Handler
        BY <1>0 DEF H!Handler
      <4>2. handlers' \in [1 .. Len(handlers) -> H!Handler]
        BY <1>0, <3>2, <4>1
      <4> QED BY <4>2, Resized DEF H!TypeOK
    <3> QED BY <2>2, <3>1, <3>2 DEF H!Sample
  <2>3. ASSUME NEW i \in 1 .. Len(handlers), H!Store(i) PROVE handlers' \in Seq(H!Handler) /\ Len(handlers') <= MaxHandlers
    <3>1. CASE H!Without(i)
      BY <2>1, <3>1
    <3>2. CASE H!To(i, "stored")
      <4>1. [handlers[i] EXCEPT !.step = "stored"] \in H!Handler
        BY <1>0 DEF H!Handler
      <4>2. handlers' \in [1 .. Len(handlers) -> H!Handler]
        BY <1>0, <3>2, <4>1 DEF H!To
      <4> QED BY <4>2, Resized DEF H!TypeOK
    <3> QED BY <2>3, <3>1, <3>2 DEF H!Store
  <2>4. CASE H!Arrive
    <3>1. PICK k \in 1 .. Len(wire) : handlers' = Append(handlers, H!Started(wire[k]))
      BY <1>0, <2>4, Zenon DEF H!Arrive
    <3>2. H!Started(wire[k]) \in H!Handler
      BY OvertakenFacts
    <3> QED BY <1>0, <2>4, <3>1, <3>2 DEF H!Arrive, H!TypeOK, H!HeartbeatAssumption
  <2>5. CASE H!Restart
    BY <2>5 DEF H!Restart, H!HeartbeatAssumption
  <2> QED BY <1>0, <2>1, <2>2, <2>3, <2>4, <2>5 DEF H!Next, H!Agent, H!Panel, H!Traffic, H!ServiceChanges, H!Ends, H!Starts, H!Post,
         H!Fallback, H!GiveUp, H!Handle,
             H!Observe, H!Lose, H!LongGap, H!TwoMinutes, H!markStaleServersOffline, H!Deploy, H!Rehost, H!Retire, H!TypeOK, H!rates, H!vars
<1>6. base' \in [bytes : 0 .. MaxTraffic, old : BOOLEAN] /\ counted' \in Nat /\ again' \in Nat
  <2>1. ASSUME NEW i \in 1 .. Len(handlers), H!Sample(i)
        PROVE  base' \in [bytes : 0 .. MaxTraffic, old : BOOLEAN] /\ counted' \in Nat /\ again' \in Nat
    <3>1. handlers[i] \in H!Handler
      BY <1>0
    <3>2. handlers[i].bytes \in 0 .. MaxTraffic /\ base.bytes \in 0 .. MaxTraffic /\ MaxTraffic \in Nat /\ counted \in Nat
      BY <3>1 DEF H!Handler, H!TypeOK, H!HeartbeatAssumption
    <3>3. H!Diff(handlers[i]) \in Nat
      BY <3>2 DEF H!Diff
    <3>a. again' \in {again, again + traffic} /\ again \in Nat /\ traffic \in Nat
      BY <2>1 DEF H!Sample, H!rates, H!TypeOK, H!HeartbeatAssumption
    <3>4. \/ UNCHANGED <<base, counted>>
          \/ counted' = counted + H!Diff(handlers[i]) /\ (base' = base \/ base' = [bytes |-> handlers[i].bytes, old |-> FALSE])
      BY <2>1 DEF H!Sample, H!rates
    <3>5. [bytes |-> handlers[i].bytes, old |-> FALSE] \in [bytes : 0 .. MaxTraffic, old : BOOLEAN]
      BY <3>2
    <3>6. counted + H!Diff(handlers[i]) \in Nat /\ base \in [bytes : 0 .. MaxTraffic, old : BOOLEAN]
      BY <3>2, <3>3 DEF H!TypeOK
    <3>7. again' \in Nat
      BY <3>a
    <3>8. base' \in [bytes : 0 .. MaxTraffic, old : BOOLEAN] /\ counted' \in Nat
      BY <3>2, <3>4, <3>5, <3>6
    <3> QED BY <3>7, <3>8
  <2>2. CASE H!Restart \/ H!LongGap
    <3>1. base' = H!NoBase \/ base' = [base EXCEPT !.old = TRUE]
      BY <2>2 DEF H!Restart, H!LongGap
    <3>2. H!NoBase \in [bytes : 0 .. MaxTraffic, old : BOOLEAN] /\ [base EXCEPT !.old = TRUE] \in [bytes : 0 .. MaxTraffic, old : BOOLEAN]
      <4>1. 0 \in 0 .. MaxTraffic /\ TRUE \in BOOLEAN
        BY DEF H!HeartbeatAssumption
      <4>2. base \in [bytes : 0 .. MaxTraffic, old : BOOLEAN]
        BY DEF H!TypeOK
      <4> QED BY <4>1, <4>2 DEF H!NoBase
    <3>3. UNCHANGED <<counted, again>>
      BY <2>2 DEF H!Restart, H!LongGap
    <3> QED BY <3>1, <3>2, <3>3 DEF H!TypeOK
  <2>3. \/ UNCHANGED <<base, counted, again>> \/ H!Restart \/ H!LongGap \/ \E i \in 1 .. Len(handlers) : H!Sample(i)
    BY <1>0 DEF H!Next, H!Agent, H!Panel, H!Traffic, H!ServiceChanges, H!Ends, H!Starts, H!Post, H!Fallback, H!GiveUp, H!Arrive,
           H!Lose, H!Handle, H!Store,
             H!Observe, H!TwoMinutes, H!markStaleServersOffline, H!Deploy, H!Rehost, H!Retire, H!rates, H!vars
  <2> QED BY <2>1, <2>2, <2>3 DEF H!TypeOK
<1> QED BY <1>1, <1>2, <1>3, <1>4, <1>5, <1>6 DEF H!TypeOK

-----------------------------------------------------------------------------

\* What the histories are numbers of.
LEMMA BeatHistoryTypes ==
  ASSUME NEW hs \in Seq(Nat), NEW ws \in Seq(Nat), NEW l \in Nat, NEW f \in Nat, Known(hs, ws, l, f)
  PROVE  /\ Len(hs) = Len(handlers) /\ Len(ws) = Len(wire)
         /\ \A j \in 1 .. Len(handlers) : hs[j] \in Nat
         /\ \A j \in 1 .. Len(wire) : ws[j] \in Nat
<1>1. Len(hs) = Len(handlers) /\ Len(ws) = Len(wire)
  BY DEF Known, Composed
<1>2. /\ \A j \in 1 .. Len(hs) : hs[j] \in Nat
      /\ \A j \in 1 .. Len(ws) : ws[j] \in Nat
  OBVIOUS
<1> QED BY <1>1, <1>2

\* Steps that neither compose a request nor move one.
LEMMA BeatStill ==
  ASSUME H!HeartbeatAssumption, BeatInv, UNCHANGED <<last, wire, handlers, counted, again>>,
         base' \in {base, [base EXCEPT !.old = TRUE]},
         \/ UNCHANGED <<total, traffic>>
         \/ total' = total + 1 /\ traffic' = traffic + 1
         \/ total' = 0 /\ UNCHANGED traffic
  PROVE  BeatHistories'
<1>1. PICK hs \in Seq(Nat), ws \in Seq(Nat), l \in Nat, f \in Nat : Known(hs, ws, l, f)
  BY DEF BeatInv, BeatHistories
<1>2. last.bytes \in Nat /\ total \in Nat /\ traffic \in Nat /\ base \in [bytes : 0 .. MaxTraffic, old : BOOLEAN]
  BY BeatTypes DEF BeatInv
<1>3. base'.bytes = base.bytes /\ (base.old => base'.old)
  BY <1>2
<1>4. ReadAfter(last'.bytes, l, total', traffic')
  <2>1. ReadAfter(last.bytes, l, total, traffic)
    BY <1>1 DEF Known, Composed
  <2>2. \A b \in Nat : total' = total + 1 /\ traffic' = traffic + 1 /\ ReadAfter(b, l, total, traffic) => ReadAfter(b, l, total', traffic')
    BY <1>2, SMTT(20) DEF ReadAfter
  <2>3. \A b \in Nat : total' = 0 /\ traffic' = traffic /\ ReadAfter(b, l, total, traffic) => ReadAfter(b, l, total', traffic')
    BY <1>2 DEF ReadAfter
  <2> QED BY <1>2, <2>1, <2>2, <2>3
<1>5. Bounded'
  <2>1. \A b \in Nat : b <= traffic => b <= traffic'
    BY <1>2
  <2>2. /\ \A j \in 1 .. Len(wire) : wire[j].bytes \in Nat
        /\ \A j \in 1 .. Len(handlers) : handlers[j].bytes \in Nat
    BY BeatTypes DEF BeatInv
  <2> QED BY <1>1, <2>1, <2>2 DEF Known, Bounded
<1>6. Known(hs, ws, l, f)'
  BY <1>1, <1>3, <1>4, <1>5 DEF Known, Composed, OnWire, AtHandlers, ReadAbove, Unsampled, Prompt, InOrder
<1> QED BY <1>6 DEF BeatHistories

\* A payload on its way: a new one, or the last once more.
LEMMA BeatSent ==
  ASSUME H!HeartbeatAssumption, BeatInv, UNCHANGED <<total, traffic, handlers, base, counted, again>>,
         H!Put(last'), last' = H!Collected \/ last' = last
  PROVE  BeatHistories'
<1>1. PICK hs \in Seq(Nat), ws \in Seq(Nat), l \in Nat, f \in Nat : Known(hs, ws, l, f)
  BY DEF BeatInv, BeatHistories
<1>2. /\ last.bytes \in Nat /\ total \in Nat /\ traffic \in Nat /\ Len(wire) \in Nat /\ wire \in Seq(H!Request) /\ base.bytes \in Nat
      /\ total <= traffic
      /\ \A j \in 1 .. Len(wire) : wire[j].bytes \in Nat
      /\ \A j \in 1 .. Len(handlers) : handlers[j].bytes \in Nat
  BY BeatTypes DEF BeatInv
<1>3. PICK m \in Nat : m = IF last' = last THEN l ELSE traffic
  BY <1>2
<1>4. /\ last'.bytes \in Nat /\ ReadAfter(last.bytes, l, last'.bytes, m) /\ ReadAfter(last'.bytes, m, total, traffic)
      /\ last'.bytes <= m /\ last'.bytes <= traffic
  <2>1. /\ ReadAfter(last.bytes, l, last.bytes, l) /\ ReadAfter(total, traffic, total, traffic)
        /\ last.bytes <= l /\ l <= traffic /\ last.bytes <= traffic
    BY <1>1, <1>2 DEF Known, Composed, ReadAfter
  <2> QED BY <1>1, <1>2, <1>3, <2>1 DEF H!Collected, Known, Composed
<1>5. /\ Len(wire') = Len(wire) + 1
      /\ \A j \in 1 .. Len(wire) : wire'[j] = wire[j]
      /\ wire'[Len(wire) + 1].bytes = last'.bytes
  <2>1. wire' = Append(wire, H!Sent(last')) /\ H!Sent(last').bytes = last'.bytes
    BY DEF H!Put, H!Sent
  <2> QED BY <1>2, <2>1
<1>6. PICK vs \in Seq(Nat) : vs = Append(ws, m)
  <2>1. Append(ws, m) \in Seq(Nat)
    OBVIOUS
  <2> QED BY <2>1
<1>7. /\ Len(vs) = Len(wire') /\ vs[Len(wire) + 1] = m
      /\ \A j \in 1 .. Len(wire) : vs[j] = ws[j] /\ ws[j] \in Nat
      /\ \A j \in 1 .. Len(handlers) : hs[j] \in Nat
  BY <1>1, <1>2, <1>5, <1>6, BeatHistoryTypes, SMTT(20)
<1>8. /\ \A j \in 1 .. Len(wire) : Prompt(j) => ReadAfter(wire[j].bytes, ws[j], last'.bytes, m)
      /\ \A j \in 1 .. Len(handlers) : InOrder(j) => ReadAfter(handlers[j].bytes, hs[j], last'.bytes, m)
      /\ ReadAbove(f, last'.bytes, m)
  <2>1. /\ \A j \in 1 .. Len(wire) : Prompt(j) => ReadAfter(wire[j].bytes, ws[j], last.bytes, l)
        /\ \A j \in 1 .. Len(handlers) : InOrder(j) => ReadAfter(handlers[j].bytes, hs[j], last.bytes, l)
        /\ ReadAbove(f, last.bytes, l)
    BY <1>1 DEF Known, Composed, OnWire, AtHandlers
  <2>2. ReadAbove(f, last'.bytes, m)
    BY <2>1, <1>2, <1>4, ReadAboveChain
  <2>3. ASSUME NEW b \in Nat, NEW fb \in Nat, ReadAfter(b, fb, last.bytes, l) PROVE ReadAfter(b, fb, last'.bytes, m)
    BY <2>3, <1>2, <1>4, ReadAfterChain
  <2> QED BY <2>1, <2>2, <2>3, <1>2, <1>7
<1>9. ReadAfter(last'.bytes, m, last'.bytes, m)
  BY <1>4 DEF ReadAfter
<1>10. /\ \A j \in 1 .. Len(wire') : j \in 1 .. Len(wire) \/ j = Len(wire) + 1
       /\ \A j \in 1 .. Len(wire) : ~(Len(wire) + 1 < j)
  <2>1. Len(wire') = Len(wire) + 1 /\ Len(wire) \in Nat
    BY <1>2, <1>5
  <2> QED BY <2>1
<1>11. OnWire(vs, m, f)'
  <2>1. OnWire(ws, l, f)
    BY <1>1 DEF Known
  <2>2. \A b \in Nat, fb \in Nat : ReadAbove(f, b, fb) => ReadAbove(f, b, fb)'
    BY DEF ReadAbove
  <2>3. ASSUME NEW j \in 1 .. Len(wire'), Prompt(j)'
        PROVE  /\ ReadAfter(wire'[j].bytes, vs[j], last'.bytes, m) /\ ReadAbove(f, wire[j].bytes, vs[j])'
               /\ wire'[j].bytes <= vs[j]
    <3>1. CASE j \in 1 .. Len(wire)
      BY <1>2, <1>5, <1>7, <1>8, <2>1, <2>2, <2>3, <3>1 DEF OnWire, Prompt
    <3>2. CASE j = Len(wire) + 1
      BY <1>4, <1>5, <1>7, <1>8, <1>9, <2>2, <3>2
    <3> QED BY <1>10, <3>1, <3>2
  <2>4. ASSUME NEW i \in 1 .. Len(wire'), NEW j \in 1 .. Len(wire'), i < j, Prompt(i)', Prompt(j)'
        PROVE  ReadAfter(wire'[i].bytes, vs[i], wire'[j].bytes, vs[j])
    <3>1. i \in 1 .. Len(wire)
      BY <1>2, <1>5, <1>10, <2>4
    <3>2. CASE j \in 1 .. Len(wire)
      BY <1>5, <1>7, <2>1, <2>4, <3>1, <3>2 DEF OnWire, Prompt
    <3>3. CASE j = Len(wire) + 1
      BY <1>5, <1>7, <1>8, <2>4, <3>1, <3>3 DEF Prompt
    <3> QED BY <1>10, <3>2, <3>3
  <2> QED BY <2>3, <2>4 DEF OnWire
<1>12. AtHandlers(hs, vs, m, f)'
  BY <1>1, <1>5, <1>7, <1>8, <1>10 DEF Known, AtHandlers, ReadAbove, Unsampled, Prompt, InOrder
<1>13. Composed(hs, vs, m, f)'
  BY <1>1, <1>4, <1>7, <1>8 DEF Known, Composed, ReadAbove
<1>14. Bounded'
  BY <1>1, <1>4, <1>5, <1>10 DEF Known, Bounded
<1> QED BY <1>11, <1>12, <1>13, <1>14 DEF Known, BeatHistories

\* What is left on the wire, and at the handlers, has its history from the places g and h: its
\* own, or that of a copy.
WireLeft(ws, vs, g) ==
    /\ vs \in Seq(Nat) /\ Len(vs) = Len(wire')
    /\ \A j \in 1 .. Len(wire') : g[j] \in 1 .. Len(wire) /\ vs[j] = ws[g[j]]
    /\ \A j \in 1 .. Len(wire') : Prompt(j)' => Prompt(g[j]) /\ wire'[j].bytes = wire[g[j]].bytes
    /\ \A j \in 1 .. Len(wire') : \E i \in 1 .. Len(wire) : wire'[j].bytes = wire[i].bytes
    /\ \A j \in 1 .. Len(wire') : \A i \in 1 .. Len(wire') : i < j /\ Prompt(i)' /\ Prompt(j)' => g[i] <= g[j]
HandlersLeft(hs, us, h) ==
    /\ us \in Seq(Nat) /\ Len(us) = Len(handlers')
    /\ \A j \in 1 .. Len(handlers') : h[j] \in 1 .. Len(handlers) /\ us[j] = hs[h[j]]
    /\ \A j \in 1 .. Len(handlers') : handlers'[j].bytes = handlers[h[j]].bytes /\ (Unsampled(j)' => Unsampled(h[j]))
    /\ \A j \in 1 .. Len(handlers') : InOrder(j)' => InOrder(h[j])
    /\ \A j \in 1 .. Len(handlers') : \A i \in 1 .. Len(handlers') : i < j => h[i] < h[j]

\* Requests on the wire that are left are ordered as before.
LEMMA WireStays ==
  ASSUME H!HeartbeatAssumption, BeatInv, UNCHANGED <<last, base>>,
         NEW ws \in Seq(Nat), NEW l \in Nat, NEW f \in Nat, OnWire(ws, l, f), Len(ws) = Len(wire),
         NEW vs, NEW g, WireLeft(ws, vs, g)
  PROVE  OnWire(vs, l, f)'
<1>1. \A b, fb : ReadAbove(f, b, fb) => ReadAbove(f, b, fb)'
  BY DEF ReadAbove
<1>2. /\ Len(wire) \in Nat /\ \A j \in 1 .. Len(wire) : wire[j].bytes \in Nat
      /\ \A j \in 1 .. Len(wire) : ws[j] \in Nat
  <2>1. \A j \in 1 .. Len(ws) : ws[j] \in Nat
    OBVIOUS
  <2> QED BY <2>1, BeatTypes DEF BeatInv
<1>3. ASSUME NEW j \in 1 .. Len(wire'), Prompt(j)'
      PROVE  /\ ReadAfter(wire'[j].bytes, vs[j], last'.bytes, l) /\ ReadAbove(f, wire[j].bytes, vs[j])'
             /\ wire'[j].bytes <= vs[j]
  <2>1. g[j] \in 1 .. Len(wire) /\ Prompt(g[j]) /\ wire'[j].bytes = wire[g[j]].bytes /\ vs[j] = ws[g[j]]
    BY <1>3 DEF WireLeft
  <2>2. ReadAbove(f, wire[g[j]].bytes, ws[g[j]])
    BY <2>1 DEF OnWire
  <2>3. ReadAbove(f, wire[j].bytes, vs[j])'
    BY <2>1, <2>2 DEF ReadAbove
  <2> QED BY <2>1, <2>3 DEF OnWire
<1>4. ASSUME NEW j \in 1 .. Len(wire'), NEW i \in 1 .. Len(wire'), i < j, Prompt(i)', Prompt(j)'
      PROVE  ReadAfter(wire'[i].bytes, vs[i], wire'[j].bytes, vs[j])
  <2>1. /\ g[i] \in 1 .. Len(wire) /\ g[j] \in 1 .. Len(wire) /\ Prompt(g[i]) /\ Prompt(g[j]) /\ g[i] <= g[j]
        /\ wire'[i].bytes = wire[g[i]].bytes /\ vs[i] = ws[g[i]] /\ wire'[j].bytes = wire[g[j]].bytes /\ vs[j] = ws[g[j]]
    BY <1>4 DEF WireLeft
  <2>2. CASE g[i] = g[j]
    BY <1>2, <2>1, <2>2 DEF ReadAfter
  <2>3. CASE g[i] < g[j]
    BY <2>1, <2>3 DEF OnWire
  <2> QED BY <1>2, <2>1, <2>2, <2>3
<1> QED BY <1>3, <1>4 DEF OnWire

LEMMA BoundedLeft ==
  ASSUME UNCHANGED traffic, Bounded, NEW ws, NEW vs, NEW g, WireLeft(ws, vs, g)
  PROVE  \A j \in 1 .. Len(wire') : wire'[j].bytes <= traffic'
BY DEF Bounded, WireLeft

\* Requests that are left keep their order and their histories.
LEMMA BeatLeft ==
  ASSUME H!HeartbeatAssumption, BeatInv, UNCHANGED <<last, total, traffic, base, counted, again>>,
         NEW hs \in Seq(Nat), NEW ws \in Seq(Nat), NEW l \in Nat, NEW f \in Nat, Known(hs, ws, l, f),
         NEW vs, NEW g, WireLeft(ws, vs, g), NEW us, NEW h, HandlersLeft(hs, us, h)
  PROVE  BeatHistories'
<1>1. \A b, fb : ReadAbove(f, b, fb) => ReadAbove(f, b, fb)'
  BY DEF ReadAbove
<1>2. Composed(us, vs, l, f)'
  BY <1>1 DEF Known, Composed, WireLeft, HandlersLeft
<1>3. OnWire(vs, l, f)'
  <2>1. OnWire(ws, l, f) /\ Len(ws) = Len(wire)
    BY DEF Known, Composed
  <2> QED BY <2>1, WireStays
<1>4. AtHandlers(us, vs, l, f)'
  <2>1. AtHandlers(hs, ws, l, f)
    BY DEF Known
  <2>2. ASSUME NEW j \in 1 .. Len(handlers'), InOrder(j)'
        PROVE  /\ ReadAfter(handlers'[j].bytes, us[j], last'.bytes, l) /\ (Unsampled(j)' => ReadAbove(f, handlers[j].bytes, us[j])')
               /\ handlers'[j].bytes <= us[j]
    <3>1. ReadAbove(f, handlers[h[j]].bytes, hs[h[j]]) => ReadAbove(f, handlers[j].bytes, us[j])'
      BY <1>1 DEF HandlersLeft
    <3>2. h[j] \in 1 .. Len(handlers) /\ InOrder(h[j])
      BY <2>2 DEF HandlersLeft
    <3> QED BY <2>1, <3>1, <3>2 DEF AtHandlers, HandlersLeft
  <2>3. ASSUME NEW j \in 1 .. Len(handlers'), NEW i \in 1 .. Len(handlers'), i < j, InOrder(i)', InOrder(j)'
        PROVE  ReadAfter(handlers'[i].bytes, us[i], handlers'[j].bytes, us[j])
    <3>1. h[i] < h[j] /\ h[i] \in 1 .. Len(handlers) /\ h[j] \in 1 .. Len(handlers) /\ InOrder(h[i]) /\ InOrder(h[j])
      BY <2>3 DEF HandlersLeft
    <3> QED BY <2>1, <3>1 DEF AtHandlers, HandlersLeft
  <2>4. ASSUME NEW j \in 1 .. Len(handlers'), NEW i \in 1 .. Len(wire'), InOrder(j)', Prompt(i)'
        PROVE  ReadAfter(handlers'[j].bytes, us[j], wire'[i].bytes, vs[i])
    <3>1. h[j] \in 1 .. Len(handlers) /\ us[j] = hs[h[j]] /\ handlers'[j].bytes = handlers[h[j]].bytes /\ InOrder(h[j])
      BY <2>4 DEF HandlersLeft
    <3>2. g[i] \in 1 .. Len(wire) /\ wire'[i].bytes = wire[g[i]].bytes /\ vs[i] = ws[g[i]] /\ Prompt(g[i])
      BY <2>4 DEF WireLeft
    <3>3. ReadAfter(handlers[h[j]].bytes, hs[h[j]], wire[g[i]].bytes, ws[g[i]])
      BY <2>1, <3>1, <3>2 DEF AtHandlers
    <3> QED BY <3>1, <3>2, <3>3
  <2> QED BY <2>2, <2>3, <2>4 DEF AtHandlers
<1>5. Bounded'
  <2>1. Bounded
    BY DEF Known
  <2>2. \A j \in 1 .. Len(wire') : wire'[j].bytes <= traffic'
    BY <2>1, BoundedLeft
  <2> QED BY <2>1, <2>2 DEF Bounded, HandlersLeft
<1> QED BY <1>2, <1>3, <1>4, <1>5 DEF Known, BeatHistories, WireLeft, HandlersLeft

\* The place that an element of a sequence had before the one at place i was taken out.
OldPlace(i, n) == [k \in 1 .. n |-> IF k < i THEN k ELSE k + 1]

LEMMA RemovedPlaces ==
  ASSUME NEW S, NEW s \in Seq(S), NEW T, NEW t \in Seq(T), Len(t) = Len(s), NEW i \in 1 .. Len(s)
  PROVE  /\ H!RemoveAt(t, i) \in Seq(T) /\ Len(H!RemoveAt(t, i)) = Len(H!RemoveAt(s, i))
         /\ \A j \in 1 .. Len(H!RemoveAt(s, i)) : /\ OldPlace(i, Len(s))[j] \in 1 .. Len(s)
                                              /\ H!RemoveAt(s, i)[j] = s[OldPlace(i, Len(s))[j]]
                                              /\ H!RemoveAt(t, i)[j] = t[OldPlace(i, Len(s))[j]]
         /\ \A j \in 1 .. Len(H!RemoveAt(s, i)) : \A k \in 1 .. Len(H!RemoveAt(s, i)) :
               k < j => OldPlace(i, Len(s))[k] < OldPlace(i, Len(s))[j]
<1>1. i \in DOMAIN s /\ i \in DOMAIN t /\ Len(s) \in Nat
  OBVIOUS
<1>2. /\ H!RemoveAt(s, i) \in Seq(S) /\ Len(H!RemoveAt(s, i)) = Len(s) - 1
      /\ \A k \in 1 .. i - 1 : H!RemoveAt(s, i)[k] = s[k]
      /\ \A k \in i .. Len(s) - 1 : H!RemoveAt(s, i)[k] = s[k + 1]
  BY <1>1, RemoveFacts
<1>3. /\ H!RemoveAt(t, i) \in Seq(T) /\ Len(H!RemoveAt(t, i)) = Len(s) - 1
      /\ \A k \in 1 .. i - 1 : H!RemoveAt(t, i)[k] = t[k]
      /\ \A k \in i .. Len(s) - 1 : H!RemoveAt(t, i)[k] = t[k + 1]
  BY <1>1, RemoveFacts
<1>4. ASSUME NEW j \in 1 .. Len(s) - 1
      PROVE  /\ OldPlace(i, Len(s))[j] \in 1 .. Len(s)
             /\ \/ j \in 1 .. i - 1 /\ OldPlace(i, Len(s))[j] = j
                \/ j \in i .. Len(s) - 1 /\ OldPlace(i, Len(s))[j] = j + 1
  BY <1>1 DEF OldPlace
<1>5. ASSUME NEW j \in 1 .. Len(s) - 1
      PROVE  H!RemoveAt(s, i)[j] = s[OldPlace(i, Len(s))[j]] /\ H!RemoveAt(t, i)[j] = t[OldPlace(i, Len(s))[j]]
  BY <1>2, <1>3, <1>4
<1>6. ASSUME NEW j \in 1 .. Len(s) - 1, NEW k \in 1 .. Len(s) - 1, k < j
      PROVE  OldPlace(i, Len(s))[k] < OldPlace(i, Len(s))[j]
  BY <1>1, <1>6 DEF OldPlace
<1> QED BY <1>2, <1>3, <1>4, <1>5, <1>6

LEMMA BeatLost == ASSUME H!HeartbeatAssumption, BeatInv, H!Lose PROVE BeatHistories'
<1>1. PICK hs \in Seq(Nat), ws \in Seq(Nat), l \in Nat, f \in Nat : Known(hs, ws, l, f)
  BY DEF BeatInv, BeatHistories
<1>2. wire \in Seq(H!Request) /\ Len(wire) \in Nat /\ DOMAIN wire = 1 .. Len(wire) /\ Len(handlers) \in Nat
  BY BeatTypes DEF BeatInv
<1>3. PICK i \in 1 .. Len(wire) : wire' = H!RemoveAt(wire, i)
  BY <1>2 DEF H!Lose
<1>4. PICK vs : vs = H!RemoveAt(ws, i)
  OBVIOUS
<1>5. Len(ws) = Len(wire) /\ Len(hs) = Len(handlers)
  BY <1>1, BeatHistoryTypes
<1>6. PICK g, h : g = OldPlace(i, Len(wire)) /\ h = [j \in 1 .. Len(handlers) |-> j]
  OBVIOUS
<1>7. WireLeft(ws, vs, g)
  <2>1. /\ vs \in Seq(Nat) /\ Len(vs) = Len(wire')
        /\ \A j \in 1 .. Len(wire') : g[j] \in 1 .. Len(wire) /\ wire'[j] = wire[g[j]] /\ vs[j] = ws[g[j]]
        /\ \A j \in 1 .. Len(wire') : \A k \in 1 .. Len(wire') : k < j => g[k] < g[j]
    <3>1. /\ H!RemoveAt(ws, i) \in Seq(Nat) /\ Len(H!RemoveAt(ws, i)) = Len(H!RemoveAt(wire, i))
          /\ \A j \in 1 .. Len(H!RemoveAt(wire, i)) : /\ OldPlace(i, Len(wire))[j] \in 1 .. Len(wire)
                                                   /\ H!RemoveAt(wire, i)[j] = wire[OldPlace(i, Len(wire))[j]]
                                                   /\ H!RemoveAt(ws, i)[j] = ws[OldPlace(i, Len(wire))[j]]
          /\ \A j \in 1 .. Len(H!RemoveAt(wire, i)) : \A k \in 1 .. Len(H!RemoveAt(wire, i)) :
                k < j => OldPlace(i, Len(wire))[k] < OldPlace(i, Len(wire))[j]
      BY <1>2, <1>5, RemovedPlaces
    <3> QED BY <1>3, <1>4, <1>6, <3>1
  <2>2. \A j \in 1 .. Len(wire') : wire'[j].bytes = wire[g[j]].bytes /\ (Prompt(j)' => Prompt(g[j]))
    BY <2>1 DEF Prompt
  <2>3. ASSUME NEW j \in 1 .. Len(wire'), NEW k \in 1 .. Len(wire'), k < j PROVE g[k] <= g[j]
    <3>1. g[k] < g[j] /\ g[k] \in 1 .. Len(wire) /\ g[j] \in 1 .. Len(wire)
      BY <2>1, <2>3
    <3> QED BY <3>1
  <2> QED BY <2>1, <2>2, <2>3 DEF WireLeft
<1>8. UNCHANGED <<last, total, traffic, base, counted, again, handlers>>
  BY DEF H!Lose, H!machine, H!rates
<1>9. HandlersLeft(hs, hs, h)
  BY <1>2, <1>5, <1>6, <1>8 DEF HandlersLeft, Unsampled, InOrder
<1> QED BY <1>1, <1>7, <1>8, <1>9, BeatLeft

LEMMA BeatHandled ==
  ASSUME H!HeartbeatAssumption, BeatInv, UNCHANGED <<last, total, traffic, base, counted, again, wire>>,
         NEW i \in 1 .. Len(handlers), H!Without(i) \/ H!To(i, "stored")
  PROVE  BeatHistories'
<1>1. PICK hs \in Seq(Nat), ws \in Seq(Nat), l \in Nat, f \in Nat : Known(hs, ws, l, f)
  BY DEF BeatInv, BeatHistories
<1>2. handlers \in Seq(H!Handler) /\ Len(handlers) \in Nat /\ DOMAIN handlers = 1 .. Len(handlers) /\ Len(wire) \in Nat
      /\ \A j \in 1 .. Len(handlers) : handlers[j] \in H!Handler
  BY BeatTypes DEF BeatInv
<1>3. Len(ws) = Len(wire) /\ Len(hs) = Len(handlers)
  BY <1>1, BeatHistoryTypes
<1>4. PICK g : g = [j \in 1 .. Len(wire) |-> j]
  OBVIOUS
<1>5. WireLeft(ws, ws, g)
  BY <1>2, <1>3, <1>4 DEF WireLeft, Prompt
<1>6. CASE H!Without(i)
  <2>1. PICK us, h : us = H!RemoveAt(hs, i) /\ h = OldPlace(i, Len(handlers))
    OBVIOUS
  <2>2. /\ us \in Seq(Nat) /\ Len(us) = Len(handlers')
        /\ \A j \in 1 .. Len(handlers') : h[j] \in 1 .. Len(handlers) /\ handlers'[j] = handlers[h[j]] /\ us[j] = hs[h[j]]
        /\ \A j \in 1 .. Len(handlers') : \A k \in 1 .. Len(handlers') : k < j => h[k] < h[j]
    <3>1. /\ H!RemoveAt(hs, i) \in Seq(Nat) /\ Len(H!RemoveAt(hs, i)) = Len(H!RemoveAt(handlers, i))
          /\ \A j \in 1 .. Len(H!RemoveAt(handlers, i)) : /\ OldPlace(i, Len(handlers))[j] \in 1 .. Len(handlers)
                                                       /\ H!RemoveAt(handlers, i)[j] = handlers[OldPlace(i, Len(handlers))[j]]
                                                       /\ H!RemoveAt(hs, i)[j] = hs[OldPlace(i, Len(handlers))[j]]
          /\ \A j \in 1 .. Len(H!RemoveAt(handlers, i)) : \A k \in 1 .. Len(H!RemoveAt(handlers, i)) :
                k < j => OldPlace(i, Len(handlers))[k] < OldPlace(i, Len(handlers))[j]
      BY <1>2, <1>3, RemovedPlaces
    <3> QED BY <1>6, <2>1, <3>1 DEF H!Without
  <2>3. HandlersLeft(hs, us, h)
    BY <2>2 DEF HandlersLeft, Unsampled, InOrder
  <2> QED BY <1>1, <1>5, <2>3, BeatLeft
<1>7. CASE H!To(i, "stored")
  <2>1. PICK h : h = [j \in 1 .. Len(handlers) |-> j]
    OBVIOUS
  <2>2. /\ Len(handlers') = Len(handlers)
        /\ \A j \in 1 .. Len(handlers) : handlers'[j].bytes = handlers[j].bytes /\ (Unsampled(j)' => Unsampled(j))
        /\ \A j \in 1 .. Len(handlers) : InOrder(j)' => InOrder(j)
    <3>1. handlers' \in [1 .. Len(handlers) -> H!Handler]
      BY <1>2, <1>7 DEF H!To, H!Handler
    <3>2. Len(handlers') = Len(handlers)
      BY <3>1, Resized DEF BeatInv
    <3>3. /\ \A j \in 1 .. Len(handlers) : handlers'[j].bytes = handlers[j].bytes /\ (Unsampled(j)' => Unsampled(j))
          /\ \A j \in 1 .. Len(handlers) : InOrder(j)' => InOrder(j)
      BY <1>2, <1>7 DEF H!To, H!Handler, Unsampled, InOrder
    <3> QED BY <3>2, <3>3
  <2>3. HandlersLeft(hs, hs, h)
    BY <1>2, <1>3, <2>1, <2>2 DEF HandlersLeft
  <2> QED BY <1>1, <1>5, <2>3, BeatLeft
<1> QED BY <1>6, <1>7

\* A copy of the request that arrives gets its history, if that is in its order.
FromCopy(k) ==
    [i \in 1 .. Len(wire') |->
        IF Prompt(k) /\ OldPlace(k, Len(wire))[i] < k THEN k ELSE OldPlace(k, Len(wire))[i]]

WireArrived(ws, vs, g, k) ==
    /\ \A i \in 1 .. Len(wire') : Prompt(i)' => wire'[i].bytes = wire[g[i]].bytes /\ (Prompt(k) => k <= g[i])
    /\ vs \in Seq(Nat) /\ Len(vs) = Len(wire')
    /\ \A i \in 1 .. Len(wire') : g[i] \in 1 .. Len(wire) /\ vs[i] = ws[g[i]] /\ (Prompt(i)' => Prompt(g[i]))
    /\ \A j \in 1 .. Len(wire') : \A i \in 1 .. Len(wire') : i < j => g[i] <= g[j]
    /\ \A i \in 1 .. Len(wire') : \E j \in 1 .. Len(wire) : wire'[i].bytes = wire[j].bytes

LEMMA WireArrives ==
  ASSUME H!HeartbeatAssumption, BeatInv, NEW ws \in Seq(Nat), Len(ws) = Len(wire),
         NEW k \in 1 .. Len(wire), wire' = H!RemoveAt(H!Overtaken(k), k),
         NEW g, g = FromCopy(k), NEW vs, vs = [i \in 1 .. Len(wire') |-> ws[g[i]]]
  PROVE  WireArrived(ws, vs, g, k)
<1>1. /\ H!Overtaken(k) \in Seq(H!Request) /\ Len(H!Overtaken(k)) = Len(wire) /\ Len(wire) \in Nat
      /\ \A j \in 1 .. Len(wire) :
            /\ H!Overtaken(k)[j].bytes = wire[j].bytes
            /\ H!Overtaken(k)[j].behind <=> wire[j].behind \/ (j < k /\ wire[j].bytes # wire[k].bytes)
  BY OvertakenFacts, BeatTypes DEF BeatInv
<1>o. PICK o : o = H!Overtaken(k)
  OBVIOUS
<1>2. PICK p : p = OldPlace(k, Len(wire))
  OBVIOUS
<1>3. /\ Len(wire') = Len(wire) - 1
      /\ \A i \in 1 .. Len(wire') : p[i] \in 1 .. Len(wire) /\ p[i] # k /\ wire'[i] = o[p[i]]
      /\ \A j \in 1 .. Len(wire') : \A i \in 1 .. Len(wire') : i < j => p[i] < p[j]
  <2>1. o \in Seq(H!Request) /\ k \in DOMAIN o /\ Len(o) = Len(wire)
    BY <1>1, <1>o
  <2>a. /\ Len(H!RemoveAt(o, k)) = Len(o) - 1
        /\ \A i \in 1 .. k - 1 : H!RemoveAt(o, k)[i] = o[i]
        /\ \A i \in k .. Len(o) - 1 : H!RemoveAt(o, k)[i] = o[i + 1]
    BY <2>1, RemoveFacts
  <2>b. wire' = H!RemoveAt(o, k)
    BY <1>o
  <2>2. /\ Len(wire') = Len(wire) - 1
        /\ \A i \in 1 .. k - 1 : wire'[i] = o[i]
        /\ \A i \in k .. Len(wire) - 1 : wire'[i] = o[i + 1]
    BY <2>1, <2>a, <2>b
  <2>3. ASSUME NEW i \in 1 .. Len(wire) - 1
        PROVE  /\ p[i] \in 1 .. Len(wire) /\ p[i] # k
               /\ \/ i \in 1 .. k - 1 /\ p[i] = i
                  \/ i \in k .. Len(wire) - 1 /\ p[i] = i + 1
    BY <1>1, <1>2 DEF OldPlace
  <2>4. ASSUME NEW j \in 1 .. Len(wire) - 1, NEW i \in 1 .. Len(wire) - 1, i < j
        PROVE  p[i] < p[j]
    BY <1>1, <1>2, <2>4 DEF OldPlace
  <2> QED BY <2>2, <2>3, <2>4
<1>4. \A i \in 1 .. Len(wire') : g[i] = IF Prompt(k) /\ p[i] < k THEN k ELSE p[i]
  BY <1>2 DEF FromCopy
<1>5. ASSUME NEW i \in 1 .. Len(wire')
      PROVE  /\ g[i] \in 1 .. Len(wire)
             /\ Prompt(i)' => wire'[i].bytes = wire[g[i]].bytes /\ Prompt(g[i]) /\ (Prompt(k) => k <= g[i])
             /\ wire'[i].bytes = wire[p[i]].bytes
  <2>1. /\ p[i] \in 1 .. Len(wire) /\ p[i] # k /\ g[i] = IF Prompt(k) /\ p[i] < k THEN k ELSE p[i]
        /\ wire'[i].bytes = wire[p[i]].bytes
        /\ wire'[i].behind <=> wire[p[i]].behind \/ (p[i] < k /\ wire[p[i]].bytes # wire[k].bytes)
    <3>1. wire'[i] = o[p[i]] /\ p[i] \in 1 .. Len(wire) /\ p[i] # k /\ g[i] = IF Prompt(k) /\ p[i] < k THEN k ELSE p[i]
      BY <1>3, <1>4
    <3>2. /\ o[p[i]].bytes = wire[p[i]].bytes
          /\ o[p[i]].behind <=> wire[p[i]].behind \/ (p[i] < k /\ wire[p[i]].bytes # wire[k].bytes)
      BY <1>1, <1>o, <3>1
    <3> QED BY <3>1, <3>2
  <2>2. CASE Prompt(k) /\ p[i] < k
    BY <2>1, <2>2 DEF Prompt
  <2>3. CASE ~(Prompt(k) /\ p[i] < k)
    BY <1>1, <2>1, <2>3 DEF Prompt
  <2> QED BY <2>2, <2>3
<1>6. ASSUME NEW j \in 1 .. Len(wire'), NEW i \in 1 .. Len(wire'), i < j PROVE g[i] <= g[j]
  <2>1. p[i] < p[j] /\ p[i] \in 1 .. Len(wire) /\ p[j] \in 1 .. Len(wire)
    BY <1>3, <1>6
  <2>2. CASE Prompt(k)
    <3>1. /\ g[i] = IF p[i] < k THEN k ELSE p[i]
          /\ g[j] = IF p[j] < k THEN k ELSE p[j]
      BY <1>4, <2>2
    <3> QED BY <1>1, <2>1, <3>1
  <2>3. CASE ~Prompt(k)
    <3>1. g[i] = p[i] /\ g[j] = p[j]
      BY <1>4, <2>3
    <3> QED BY <1>1, <2>1, <3>1
  <2> QED BY <2>2, <2>3
<1>7. vs \in Seq(Nat) /\ Len(vs) = Len(wire') /\ \A i \in 1 .. Len(wire') : vs[i] = ws[g[i]]
  <2>1. \A j \in 1 .. Len(wire) : ws[j] \in Nat
    OBVIOUS
  <2>2. vs \in [1 .. Len(wire') -> Nat] /\ Len(wire') \in Nat
    BY <1>1, <1>3, <1>5, <2>1
  <2> QED BY <2>2
<1>8. \A i \in 1 .. Len(wire') : \E j \in 1 .. Len(wire) : wire'[i].bytes = wire[j].bytes
  BY <1>3, <1>5
<1> QED BY <1>5, <1>6, <1>7, <1>8 DEF WireArrived

LEMMA BeatArrives == ASSUME H!HeartbeatAssumption, BeatInv, H!Arrive PROVE BeatHistories'
<1>1. PICK hs \in Seq(Nat), ws \in Seq(Nat), l \in Nat, f \in Nat : Known(hs, ws, l, f)
  BY DEF BeatInv, BeatHistories
<1>2. /\ handlers \in Seq(H!Handler) /\ Len(handlers) \in Nat /\ Len(wire) \in Nat /\ DOMAIN wire = 1 .. Len(wire)
      /\ \A j \in 1 .. Len(wire) : wire[j] \in H!Request /\ wire[j].bytes \in Nat
      /\ UNCHANGED <<last, total, traffic, base, counted, again>>
  BY BeatTypes DEF BeatInv, H!Arrive, H!machine, H!rates
<1>3. PICK k \in 1 .. Len(wire) : handlers' = Append(handlers, H!Started(wire[k])) /\ wire' = H!RemoveAt(H!Overtaken(k), k)
  BY <1>2 DEF H!Arrive
<1>4. /\ Len(ws) = Len(wire) /\ Len(hs) = Len(handlers)
      /\ \A j \in 1 .. Len(wire) : ws[j] \in Nat
  BY <1>1, <1>2, BeatHistoryTypes
<1>5. PICK n \in Nat : n = Len(handlers)
  BY <1>2
<1>6. PICK g : g = FromCopy(k)
  OBVIOUS
<1>7. PICK vs, us : vs = [i \in 1 .. Len(wire') |-> ws[g[i]]] /\ us = Append(hs, ws[k])
  OBVIOUS
<1>a. WireArrived(ws, vs, g, k)
  BY <1>3, <1>4, <1>6, <1>7, WireArrives
<1>8. /\ \A i \in 1 .. Len(wire') : Prompt(i)' => wire'[i].bytes = wire[g[i]].bytes /\ (Prompt(k) => k <= g[i])
      /\ vs \in Seq(Nat) /\ Len(vs) = Len(wire')
      /\ \A i \in 1 .. Len(wire') : g[i] \in 1 .. Len(wire) /\ vs[i] = ws[g[i]] /\ (Prompt(i)' => Prompt(g[i]))
      /\ \A j \in 1 .. Len(wire') : \A i \in 1 .. Len(wire') : i < j => g[i] <= g[j]
      /\ \A i \in 1 .. Len(wire') : \E j \in 1 .. Len(wire) : wire'[i].bytes = wire[j].bytes
  BY <1>a DEF WireArrived
<1>9. WireLeft(ws, vs, g)
  <2>1. \A i \in 1 .. Len(wire') : wire'[i].bytes = wire[g[i]].bytes \/ ~Prompt(i)'
    BY <1>8
  <2> QED BY <1>8, <2>1 DEF WireLeft
<1>10. /\ us \in Seq(Nat) /\ Len(us) = n + 1 /\ Len(handlers') = n + 1
       /\ \A j \in 1 .. n : us[j] = hs[j] /\ handlers'[j] = handlers[j]
       /\ us[n + 1] = ws[k] /\ handlers'[n + 1].bytes = wire[k].bytes /\ (InOrder(n + 1)' <=> Prompt(k))
  <2>1. us \in Seq(Nat) /\ Len(us) = n + 1 /\ us[n + 1] = ws[k] /\ \A j \in 1 .. n : us[j] = hs[j]
    BY <1>4, <1>5, <1>7
  <2>2. PICK x : x = H!Started(wire[k])
    OBVIOUS
  <2>3. x \in H!Handler /\ x.bytes = wire[k].bytes /\ x.behind = wire[k].behind
    BY <2>2, OvertakenFacts DEF BeatInv, H!Started
  <2>4. Len(handlers') = n + 1 /\ handlers'[n + 1] = x /\ \A j \in 1 .. n : handlers'[j] = handlers[j]
    BY <1>2, <1>3, <1>5, <2>2, <2>3
  <2> QED BY <2>1, <2>3, <2>4 DEF InOrder, Prompt
<1>11. /\ \A j \in 1 .. n + 1 : j \in 1 .. n \/ j = n + 1
       /\ \A j \in 1 .. n + 1, i \in 1 .. n + 1 : i < j => i \in 1 .. n
  BY <1>5
<1>12. \A b, fb : ReadAbove(f, b, fb) => ReadAbove(f, b, fb)'
  BY <1>2 DEF ReadAbove
<1>13. Composed(hs, ws, l, f) /\ Bounded /\ OnWire(ws, l, f) /\ AtHandlers(hs, ws, l, f)
  BY <1>1 DEF Known
<1>14. Composed(us, vs, l, f)'
  BY <1>2, <1>8, <1>10, <1>12, <1>13 DEF Composed
<1>15. OnWire(vs, l, f)'
  BY <1>2, <1>4, <1>9, <1>13, WireStays
<1>16. AtHandlers(us, vs, l, f)'
  <2>1. ASSUME NEW j \in 1 .. n + 1, InOrder(j)'
        PROVE  /\ ReadAfter(handlers'[j].bytes, us[j], last'.bytes, l) /\ (Unsampled(j)' => ReadAbove(f, handlers[j].bytes, us[j])')
               /\ handlers'[j].bytes <= us[j]
    <3>1. CASE j \in 1 .. n
      <4>1. ReadAbove(f, handlers[j].bytes, hs[j]) => ReadAbove(f, handlers[j].bytes, us[j])'
        BY <1>10, <1>12, <3>1
      <4> QED BY <1>2, <1>5, <1>10, <1>13, <2>1, <3>1, <4>1 DEF AtHandlers, Unsampled, InOrder
    <3>2. CASE j = n + 1
      <4>1. ReadAbove(f, wire[k].bytes, ws[k]) => ReadAbove(f, handlers[j].bytes, us[j])'
        BY <1>10, <1>12, <3>2
      <4> QED BY <1>2, <1>10, <1>13, <2>1, <3>2, <4>1 DEF OnWire
    <3> QED BY <1>11, <3>1, <3>2
  <2>2. ASSUME NEW j \in 1 .. n + 1, NEW i \in 1 .. n + 1, i < j, InOrder(i)', InOrder(j)'
        PROVE  ReadAfter(handlers'[i].bytes, us[i], handlers'[j].bytes, us[j])
    <3>1. i \in 1 .. n /\ InOrder(i)
      BY <1>10, <1>11, <2>2 DEF InOrder
    <3>2. CASE j \in 1 .. n
      BY <1>5, <1>10, <1>13, <2>2, <3>1, <3>2 DEF AtHandlers, InOrder
    <3>3. CASE j = n + 1
      BY <1>5, <1>10, <1>13, <2>2, <3>1, <3>3 DEF AtHandlers
    <3> QED BY <1>11, <3>2, <3>3
  <2>3. ASSUME NEW j \in 1 .. n + 1, NEW i \in 1 .. Len(wire'), InOrder(j)', Prompt(i)'
        PROVE  ReadAfter(handlers'[j].bytes, us[j], wire'[i].bytes, vs[i])
    <3>0. g[i] \in 1 .. Len(wire) /\ Prompt(g[i]) /\ wire'[i].bytes = wire[g[i]].bytes /\ vs[i] = ws[g[i]]
      BY <1>8, <2>3
    <3>1. CASE j \in 1 .. n
      <4>1. InOrder(j) /\ us[j] = hs[j] /\ handlers'[j] = handlers[j]
        BY <1>10, <2>3, <3>1 DEF InOrder
      <4> QED BY <1>5, <1>13, <3>0, <3>1, <4>1 DEF AtHandlers
    <3>2. CASE j = n + 1
      <4>1. Prompt(k) /\ k <= g[i] /\ us[j] = ws[k] /\ handlers'[j].bytes = wire[k].bytes
        BY <1>8, <1>10, <2>3, <3>2
      <4>2. CASE k = g[i]
        BY <1>2, <1>4, <3>0, <4>1, <4>2 DEF ReadAfter
      <4>3. CASE k < g[i]
        BY <1>13, <3>0, <4>1, <4>3 DEF OnWire
      <4> QED BY <1>2, <3>0, <4>1, <4>2, <4>3
    <3> QED BY <1>11, <3>1, <3>2
  <2> QED BY <1>10, <2>1, <2>2, <2>3 DEF AtHandlers
<1>17. Bounded'
  <2>1. ASSUME NEW i \in 1 .. Len(wire') PROVE wire'[i].bytes <= traffic'
    BY <1>2, <1>8, <1>13 DEF Bounded
  <2>2. ASSUME NEW j \in 1 .. n + 1 PROVE handlers'[j].bytes <= traffic'
    BY <1>2, <1>5, <1>10, <1>11, <1>13 DEF Bounded
  <2> QED BY <1>10, <2>1, <2>2 DEF Bounded
<1> QED BY <1>8, <1>10, <1>14, <1>15, <1>16, <1>17 DEF Known, BeatHistories

\* A new process knows of no baseline.
LEMMA BeatRestart == ASSUME H!HeartbeatAssumption, BeatInv, H!Restart PROVE BeatHistories'
<1>1. PICK hs \in Seq(Nat), ws \in Seq(Nat), l \in Nat, f \in Nat : Known(hs, ws, l, f)
  BY DEF BeatInv, BeatHistories
<1>2. UNCHANGED <<last, total, traffic, wire, counted, again>> /\ handlers' = <<>> /\ base'.old
  BY DEF H!Restart, H!machine, H!NoBase
<1>3. \A b, fb : ReadAbove(f, b, fb) => ReadAbove(f, b, fb)'
  BY <1>2 DEF ReadAbove
<1>4. PICK us : us = <<>>
  OBVIOUS
<1>5. us \in Seq(Nat) /\ Len(us) = Len(handlers') /\ Len(handlers') = 0
  BY <1>2, <1>4
<1>6. Composed(us, ws, l, f)' /\ OnWire(ws, l, f)' /\ Bounded'
  BY <1>1, <1>2, <1>3, <1>5 DEF Known, Composed, OnWire, Bounded, Prompt
<1>7. AtHandlers(us, ws, l, f)'
  BY <1>5 DEF AtHandlers
<1> QED BY <1>5, <1>6, <1>7 DEF Known, BeatHistories

\* A request that a newer one has overtaken: the baseline goes back with it, or ahead to what
\* the machine had counted before it started anew.
LEMMA Backwards ==
  ASSUME NEW a \in Nat, NEW b \in Nat, NEW c \in Nat, NEW f \in Nat, NEW g \in Nat, NEW t \in Nat,
         c <= f + g, f <= t, b <= t
  PROVE  /\ c <= 0 + (g + t)
         /\ a <= b => c + (b - a) <= f + (g + t)
OBVIOUS

LEMMA OvertakenSampled ==
  ASSUME H!HeartbeatAssumption, BeatInv, NEW i \in 1 .. Len(handlers), H!Sample(i), status # "GONE",
         NEW hs \in Seq(Nat), NEW ws \in Seq(Nat), NEW l \in Nat, NEW f \in Nat, Known(hs, ws, l, f),
         ~H!Late(handlers[i]), ~InOrder(i), Len(handlers') = Len(handlers), Bounded',
         \A j \in 1 .. Len(handlers) : /\ handlers'[j].bytes = handlers[j].bytes /\ (Unsampled(j)' => Unsampled(j) /\ i < j)
                                       /\ InOrder(j)' <=> InOrder(j)
  PROVE  BeatHistories'
<1>1. /\ DOMAIN handlers = 1 .. Len(handlers)
      /\ \A j \in 1 .. Len(handlers) : handlers[j].bytes \in Nat
      /\ \A j \in 1 .. Len(wire) : wire[j].bytes \in Nat
      /\ base.bytes \in Nat /\ counted \in Nat /\ again \in Nat /\ traffic \in Nat /\ last.bytes \in Nat
  BY BeatTypes DEF BeatInv
<1>2. /\ \A j \in 1 .. Len(handlers) : hs[j] \in Nat
      /\ \A j \in 1 .. Len(wire) : ws[j] \in Nat
  BY BeatHistoryTypes
<1>3. Composed(hs, ws, l, f) /\ OnWire(ws, l, f) /\ AtHandlers(hs, ws, l, f) /\ Bounded
  BY DEF Known
<1>4. PICK b \in Nat, a \in Nat : b = handlers[i].bytes /\ a = base.bytes
  BY <1>1
<1>5. /\ UNCHANGED <<last, total, traffic, wire>>
      /\ counted' = counted + H!Diff(handlers[i]) /\ again' = again + traffic
      /\ base' = [bytes |-> b, old |-> FALSE]
  BY <1>4 DEF H!Sample, H!machine, InOrder
<1>6. b <= traffic /\ f <= traffic /\ counted <= f + again
  BY <1>1, <1>3, <1>4 DEF Bounded, Composed, ReadAbove, ReadAfter
<1>7. \/ H!Diff(handlers[i]) = 0 /\ (base.old \/ b <= a)
      \/ H!Diff(handlers[i]) = b - a /\ ~base.old /\ a <= b
  BY <1>4, SMTT(20) DEF H!Diff
<1>8. PICK m \in Nat :
          /\ counted' <= m + again'
          /\ \A c \in Nat, fc \in Nat : c <= fc /\ ReadAbove(f, c, fc) => ReadAbove(m, c, fc)'
  <2>1. CASE H!Diff(handlers[i]) = 0
    <3>1. counted' <= 0 + again'
      BY <1>1, <1>5, <1>6, <2>1, Backwards
    <3>2. \A c \in Nat, fc \in Nat : c <= fc => ReadAbove(0, c, fc)'
      BY <1>4, <1>5 DEF ReadAbove, ReadAfter
    <3> QED BY <3>1, <3>2
  <2>2. CASE H!Diff(handlers[i]) = b - a /\ ~base.old /\ a <= b
    <3>1. counted' = counted + (b - a)
      BY <1>5, <2>2, Zenon
    <3>2. counted' <= f + again'
      BY <1>1, <1>5, <1>6, <2>2, <3>1, Backwards
    <3>3. \A c \in Nat, fc \in Nat : ReadAbove(f, c, fc) => ReadAbove(f, c, fc)'
      <4>1. base'.bytes = b /\ base'.old = FALSE /\ base.bytes = a /\ ~base.old /\ a <= b
        BY <1>4, <1>5, <2>2
      <4>2. \A c, fc \in Nat : f <= fc /\ (a <= c => c - a <= fc - f) => (b <= c => c - b <= fc - f)
        BY <4>1
      <4> QED BY <4>1, <4>2 DEF ReadAbove, ReadAfter
    <3> QED BY <3>2, <3>3
  <2> QED BY <1>7, <2>1, <2>2
<1>9. Composed(hs, ws, l, m)'
  <2>1. ReadAbove(m, last.bytes, l)'
    BY <1>1, <1>3, <1>5, <1>8 DEF Composed, ReadAbove
  <2> QED BY <1>3, <1>5, <1>8, <2>1 DEF Composed
<1>10. OnWire(ws, l, m)'
  <2>1. ASSUME NEW j \in 1 .. Len(wire), Prompt(j) PROVE ReadAbove(m, wire[j].bytes, ws[j])'
    <3>1. ReadAbove(f, wire[j].bytes, ws[j]) /\ wire[j].bytes <= ws[j]
      BY <1>3, <2>1 DEF OnWire
    <3> QED BY <1>1, <1>2, <1>5, <1>8, <3>1 DEF ReadAbove
  <2> QED BY <1>3, <1>5, <2>1 DEF OnWire, Prompt
<1>11. AtHandlers(hs, ws, l, m)'
  <2>1. ASSUME NEW j \in 1 .. Len(handlers), InOrder(j), Unsampled(j)' PROVE ReadAbove(m, handlers[j].bytes, hs[j])'
    <3>1. ReadAbove(f, handlers[j].bytes, hs[j]) /\ handlers[j].bytes <= hs[j]
      BY <1>3, <2>1 DEF AtHandlers
    <3>2. handlers'[j].bytes = handlers[j].bytes
      OBVIOUS
    <3> QED BY <1>1, <1>2, <1>8, <3>1, <3>2 DEF ReadAbove
  <2> QED BY <1>3, <1>5, <2>1 DEF AtHandlers, Prompt
<1> QED BY <1>9, <1>10, <1>11 DEF Known, BeatHistories

\* A sample: the request may belong to a measurement that a later one has ended.
LEMMA BeatSampled ==
  ASSUME H!HeartbeatAssumption, BeatInv, NEW i \in 1 .. Len(handlers), H!Sample(i), status # "GONE"
  PROVE  BeatHistories'
<1>1. PICK hs \in Seq(Nat), ws \in Seq(Nat), l \in Nat, f \in Nat : Known(hs, ws, l, f)
  BY DEF BeatInv, BeatHistories
<1>2. /\ handlers \in Seq(H!Handler) /\ Len(handlers) \in Nat /\ DOMAIN handlers = 1 .. Len(handlers) /\ Len(wire) \in Nat
      /\ \A j \in 1 .. Len(handlers) : handlers[j] \in H!Handler /\ handlers[j].bytes \in Nat
      /\ base \in [bytes : 0 .. MaxTraffic, old : BOOLEAN] /\ base.bytes \in Nat /\ counted \in Nat
      /\ again \in Nat /\ traffic \in Nat
  BY BeatTypes DEF BeatInv
<1>3. /\ Len(ws) = Len(wire) /\ Len(hs) = Len(handlers)
      /\ \A j \in 1 .. Len(handlers) : hs[j] \in Nat
      /\ \A j \in 1 .. Len(wire) : ws[j] \in Nat
  BY <1>1, BeatHistoryTypes
<1>4. /\ UNCHANGED <<last, total, traffic, wire>>
      /\ handlers[i].step = "lookup"
      /\ counted' = counted + H!Diff(handlers[i])
      /\ again' = IF handlers[i].behind /\ ~H!Late(handlers[i]) THEN again + traffic ELSE again
      /\ base' = IF H!Late(handlers[i]) THEN base ELSE [bytes |-> handlers[i].bytes, old |-> FALSE]
      /\ handlers' = [k \in DOMAIN handlers |->
                   IF k = i THEN [handlers[k] EXCEPT !.step = "sampled"]
                   ELSE IF k < i THEN [handlers[k] EXCEPT !.late = TRUE] ELSE handlers[k]]
  BY DEF H!Sample, H!machine
<1>5. /\ Len(handlers') = Len(handlers)
      /\ \A j \in 1 .. Len(handlers) : /\ handlers'[j].bytes = handlers[j].bytes /\ (Unsampled(j)' => Unsampled(j) /\ i < j)
                                       /\ InOrder(j)' <=> InOrder(j)
  <2>1. \A k \in 1 .. Len(handlers) : /\ [handlers[k] EXCEPT !.step = "sampled"] \in H!Handler
                                     /\ [handlers[k] EXCEPT !.late = TRUE] \in H!Handler
    BY <1>2 DEF H!Handler
  <2>2. handlers' \in [1 .. Len(handlers) -> H!Handler]
    BY <1>2, <1>4, <2>1
  <2>3. Len(handlers') = Len(handlers)
    BY <2>2, Resized DEF BeatInv
  <2>4. ASSUME NEW j \in 1 .. Len(handlers)
        PROVE  /\ handlers'[j].bytes = handlers[j].bytes /\ (Unsampled(j)' => Unsampled(j) /\ i < j)
               /\ InOrder(j)' <=> InOrder(j)
    <3>1. handlers[j] \in [bytes : 0 .. MaxTraffic, svc : Services \cup {H!NotReported}, behind : BOOLEAN,
                          step : {"lookup", "sampled", "stored"}, late : BOOLEAN]
      BY <1>2 DEF H!Handler
    <3>2. CASE j = i
      BY <1>2, <1>4, <3>1, <3>2 DEF Unsampled, InOrder
    <3>3. CASE j \in 1 .. i - 1
      <4>1. handlers'[j] = [handlers[j] EXCEPT !.late = TRUE]
        BY <1>2, <1>4, <3>3
      <4> QED BY <3>1, <4>1 DEF Unsampled, InOrder
    <3>4. CASE j \in i + 1 .. Len(handlers)
      <4>1. handlers'[j] = handlers[j] /\ i < j
        BY <1>2, <1>4, <3>4
      <4> QED BY <4>1 DEF Unsampled, InOrder
    <3>5. j = i \/ j \in 1 .. i - 1 \/ j \in i + 1 .. Len(handlers)
      BY <1>2
    <3> QED BY <3>2, <3>3, <3>4, <3>5
  <2> QED BY <2>3, <2>4
<1>6. CASE H!Late(handlers[i])
  <2>1. UNCHANGED <<last, total, traffic, base, counted, again>>
    BY <1>2, <1>4, <1>6 DEF H!Diff
  <2>2. PICK g, h : g = [j \in 1 .. Len(wire) |-> j] /\ h = [j \in 1 .. Len(handlers) |-> j]
    OBVIOUS
  <2>3. WireLeft(ws, ws, g)
    BY <1>2, <1>3, <1>4, <2>2 DEF WireLeft, Prompt
  <2>4. HandlersLeft(hs, hs, h)
    BY <1>2, <1>3, <1>5, <2>2 DEF HandlersLeft
  <2> QED BY <1>1, <2>1, <2>3, <2>4, BeatLeft
<1>a. Bounded'
  BY <1>1, <1>4, <1>5 DEF Known, Bounded
<1>7. CASE ~H!Late(handlers[i]) /\ InOrder(i)
  <2>1. PICK m \in Nat, b \in Nat : m = hs[i] /\ b = handlers[i].bytes
    BY <1>2, <1>3
  <2>2. base'.bytes = b /\ base'.old = FALSE
    BY <1>4, <1>7, <2>1
  <2>3. Unsampled(i)
    BY <1>4, <1>7 DEF Unsampled, H!Late
  <2>4. Composed(hs, ws, l, f) /\ OnWire(ws, l, f) /\ AtHandlers(hs, ws, l, f)
    BY <1>1 DEF Known
  <2>5. /\ ReadAfter(b, m, last.bytes, l) /\ ReadAbove(f, b, m)
        /\ \A j \in 1 .. Len(handlers) : i < j /\ InOrder(j) => ReadAfter(b, m, handlers[j].bytes, hs[j])
        /\ \A j \in 1 .. Len(wire) : Prompt(j) => ReadAfter(b, m, wire[j].bytes, ws[j])
    BY <1>7, <2>1, <2>3, <2>4 DEF AtHandlers
  <2>a. again' = again
    BY <1>4, <1>7 DEF InOrder
  <2>6. counted' <= m + again'
    <3>1. counted <= f + again /\ f <= m /\ (base.old \/ (base.bytes <= b => b - base.bytes <= m - f))
      BY <2>4, <2>5 DEF Composed, ReadAbove, ReadAfter
    <3>2. PICK a \in Nat, c \in Nat : a = base.bytes /\ c = counted
      BY <1>2
    <3>3. CASE H!Diff(handlers[i]) = 0
      <4>1. counted' = c
        BY <1>4, <3>2, <3>3
      <4>2. c <= f + again /\ f <= m
        BY <3>1, <3>2
      <4> QED BY <1>2, <2>a, <4>1, <4>2, Within
    <3>4. CASE H!Diff(handlers[i]) = b - a /\ ~base.old /\ a <= b
      <4>1. counted' = c + (b - a)
        BY <1>4, <3>2, <3>4, Zenon
      <4>2. c <= f + again /\ f <= m /\ b - a <= m - f
        BY <3>1, <3>2, <3>4, Zenon
      <4> QED BY <1>2, <2>a, <4>1, <4>2, Within
    <3>5. \/ H!Diff(handlers[i]) = 0
          \/ H!Diff(handlers[i]) = b - a /\ ~base.old /\ a <= b
      BY <2>1, <3>2, SMTT(20) DEF H!Diff
    <3> QED BY <3>3, <3>4, <3>5
  <2>7. \A c \in Nat, fc \in Nat : ReadAfter(b, m, c, fc) => ReadAbove(m, c, fc)'
    BY <2>1, <2>2 DEF ReadAbove, ReadAfter
  <2>8. Composed(hs, ws, l, m)'
    <3>1. last.bytes \in Nat
      BY BeatTypes DEF BeatInv
    <3>2. ReadAbove(m, last.bytes, l)'
      <4>1. ReadAfter(b, m, last.bytes, l) => m <= l /\ ReadAfter(b, m, last.bytes, l)
        BY DEF ReadAfter
      <4> QED BY <1>4, <2>2, <2>5, <4>1 DEF ReadAbove
    <3> QED BY <1>3, <1>4, <1>5, <2>4, <2>6, <3>2 DEF Composed
  <2>9. OnWire(ws, l, m)'
    <3>1. ASSUME NEW j \in 1 .. Len(wire), Prompt(j) PROVE ReadAbove(m, wire[j].bytes, ws[j])'
      <4>1. ReadAfter(b, m, wire[j].bytes, ws[j]) /\ m <= ws[j]
        BY <2>5, <3>1 DEF ReadAfter
      <4> QED BY <1>4, <2>2, <4>1 DEF ReadAbove
    <3> QED BY <1>4, <2>4, <3>1 DEF OnWire, Prompt
  <2>10. AtHandlers(hs, ws, l, m)'
    <3>1. ASSUME NEW j \in 1 .. Len(handlers), InOrder(j), Unsampled(j)' PROVE ReadAbove(m, handlers[j].bytes, hs[j])'
      <4>1. ReadAfter(b, m, handlers[j].bytes, hs[j]) /\ m <= hs[j]
        BY <1>5, <2>5, <3>1 DEF ReadAfter
      <4> QED BY <1>5, <2>2, <4>1 DEF ReadAbove
    <3> QED BY <1>4, <1>5, <2>4, <3>1 DEF AtHandlers, Prompt
  <2> QED BY <1>a, <2>8, <2>9, <2>10 DEF Known, BeatHistories
<1>8. CASE ~H!Late(handlers[i]) /\ ~InOrder(i)
  BY <1>1, <1>5, <1>8, <1>a, OvertakenSampled
<1> QED BY <1>6, <1>7, <1>8

LEMMA BeatStep == ASSUME H!HeartbeatAssumption PROVE BeatInv /\ [H!Next]_(H!vars) => BeatInv'
<1> SUFFICES ASSUME BeatInv, [H!Next]_(H!vars) PROVE BeatInv'
  OBVIOUS
<1>1. H!TypeOK'
  BY BeatTypeStep DEF BeatInv
<1>0. DOMAIN handlers = 1 .. Len(handlers)
  BY BeatTypes DEF BeatInv
<1>2. BeatHistories'
  <2>1. CASE H!Traffic \/ H!ServiceChanges \/ H!Ends \/ H!Starts \/ H!GiveUp \/ H!TwoMinutes \/ H!markStaleServersOffline \/ H!Deploy \/ H!Rehost \/ H!Retire
             \/ H!LongGap \/ UNCHANGED H!vars
    <3>1. /\ UNCHANGED <<last, wire, handlers, counted, again>>
          /\ base' \in {base, [base EXCEPT !.old = TRUE]}
      BY <2>1 DEF H!Traffic, H!ServiceChanges, H!Ends, H!Starts, H!GiveUp, H!TwoMinutes, H!markStaleServersOffline, H!Deploy, H!Rehost,
             H!Retire, H!LongGap, H!rates, H!vars
    <3>2. \/ UNCHANGED <<total, traffic>>
          \/ total' = total + 1 /\ traffic' = traffic + 1
          \/ total' = 0 /\ UNCHANGED traffic
      BY <2>1 DEF H!Traffic, H!ServiceChanges, H!Ends, H!Starts, H!GiveUp, H!TwoMinutes, H!markStaleServersOffline, H!Deploy, H!Rehost,
             H!Retire, H!LongGap, H!rates, H!vars,
         H!machine
    <3> QED BY <3>1, <3>2, BeatStill
  <2>2. CASE H!Post
    <3>1. /\ UNCHANGED <<total, traffic, handlers, base, counted, again>>
          /\ H!Put(last') /\ last' = H!Collected
      BY <2>2 DEF H!Post, H!machine, H!rates
    <3> QED BY <3>1, BeatSent
  <2>3. CASE H!Fallback
    <3>1. UNCHANGED <<last, total, traffic, handlers, base, counted, again>> /\ (H!Put(last) \/ UNCHANGED wire)
      BY <2>3 DEF H!Fallback, H!machine, H!rates
    <3>2. CASE H!Put(last)
      <4>1. H!Put(last') /\ last' = last
        BY <3>1, <3>2 DEF H!Put, H!Sent
      <4> QED BY <3>1, <4>1, BeatSent
    <3>3. CASE UNCHANGED wire
      BY <3>1, <3>3, BeatStill
    <3> QED BY <3>1, <3>2, <3>3
  <2>4. ASSUME NEW i \in 1 .. MaxHandlers, H!Handle(i) PROVE BeatHistories'
    <3>1. i \in 1 .. Len(handlers) /\ (H!Sample(i) \/ H!Store(i) \/ H!Observe(i))
      BY <1>0, <2>4 DEF H!Handle
    <3>2. CASE H!Store(i) \/ H!Observe(i)
      <4>1. UNCHANGED <<last, total, traffic, base, counted, again, wire>> /\ (H!Without(i) \/ H!To(i, "stored"))
        BY <3>2 DEF H!Store, H!Observe, H!machine, H!rates
      <4> QED BY <3>1, <4>1, BeatHandled
    <3>3. CASE H!Sample(i) /\ status = "GONE"
      <4>1. UNCHANGED <<last, total, traffic, base, counted, again, wire>> /\ H!Without(i)
        BY <3>3 DEF H!Sample, H!machine, H!rates
      <4> QED BY <3>1, <4>1, BeatHandled
    <3> QED BY <3>1, <3>2, <3>3, BeatSampled
  <2> QED BY <2>1, <2>2, <2>3, <2>4, BeatLost, BeatArrives, BeatRestart DEF H!Next, H!Agent, H!Panel
<1> QED BY <1>1, <1>2 DEF BeatInv

LEMMA BeatFacts == ASSUME H!HeartbeatAssumption PROVE BeatInv => H!NoOvercount
<1> SUFFICES ASSUME BeatInv PROVE H!NoOvercount
  OBVIOUS
<1>1. PICK hs \in Seq(Nat), ws \in Seq(Nat), l \in Nat, f \in Nat : Known(hs, ws, l, f)
  BY DEF BeatInv, BeatHistories
<1>2. counted <= f + again /\ f <= l /\ l <= traffic
  BY <1>1 DEF Known, Composed, ReadAfter, ReadAbove
<1>3. counted \in Nat /\ traffic \in Nat /\ again \in Nat
  BY BeatTypes DEF BeatInv
<1> QED BY <1>2, <1>3 DEF H!NoOvercount

\* The rates of a server never amount to more than its traffic, whatever is sent again, lost
\* or handled at the same time, and what had gone through it when a request was sampled that
\* arrived after a newer one, once more.
THEOREM TrafficCountedOnce == ASSUME H!HeartbeatAssumption PROVE H!Spec => [](H!TypeOK /\ H!NoOvercount)
<1>1. BeatInv => H!TypeOK /\ H!NoOvercount
  BY BeatFacts DEF BeatInv
<1> QED BY BeatInit, BeatStep, <1>1, PTL DEF H!Spec

LEMMA BeatRetired == ASSUME H!TypeOK, [H!Next]_(H!vars) PROVE H!RetiredStays
<1>1. CASE UNCHANGED status
  BY <1>1 DEF H!RetiredStays, H!Retired
<1>2. ASSUME NEW i, H!Store(i) PROVE H!RetiredStays
  BY <1>2 DEF H!Store, H!Updatable, H!RetiredStays, H!Retired
<1>3. CASE H!markStaleServersOffline \/ H!Retire
  BY <1>3 DEF H!markStaleServersOffline, H!Retire, H!RetiredStays, H!Retired, H!Retiring
<1> QED BY <1>1, <1>2, <1>3 DEF H!Next, H!Agent, H!Panel, H!Traffic, H!ServiceChanges, H!Ends, H!Starts, H!Post, H!Fallback, H!GiveUp,
       H!Arrive, H!Lose, H!Handle,
       H!Sample, H!Observe, H!Restart, H!LongGap, H!TwoMinutes, H!Deploy, H!Rehost, H!rows, H!vars

\* No heartbeat, late or not, brings back a server that is being deleted.
THEOREM DeletedStays == ASSUME H!HeartbeatAssumption PROVE H!Spec => [][H!RetiredStays]_(H!vars)
<1>1. H!TypeOK /\ [H!Next]_(H!vars) => [H!RetiredStays]_(H!vars)
  BY BeatRetired
<1>2. BeatInv => H!TypeOK
  BY DEF BeatInv
<1> QED BY BeatInit, BeatStep, <1>1, <1>2, PTL DEF H!Spec

-----------------------------------------------------------------------------
(* An agent that runs is whole, and success is reported of the version that  *)
(* was to be installed, for any installations and number of faults. The      *)
(* invariant says what a session has established by each of its steps, and   *)
(* that a file that is still written to is no executable.                    *)
CONSTANTS Sessions, Manual
VARIABLES at, upgrade, outcome, binary, writers, config, unit
I == INSTANCE AgentInstall

Passed == {"writing", "config", "unit", "enable", "start", "verify"}

\* What a session has established by the time it gets to a step.
Established ==
    \A s \in Sessions :
        /\ at[s] = "detect" => s \notin Manual
        /\ at[s] = "enable" => unit
        /\ at[s] = "start" => enabled
        /\ s \in upgrade => enabled
        /\ at[s] \in Passed => binary \notin {"old", "none"}

\* What is written is no executable yet, and only an enabled service has an agent.
OpenWhileWritten == writers # {} => binary \in {"partial", "shared"}
AgentOwned == agent # "stopped" => enabled

InstallInv == I!TypeOK /\ Established /\ OpenWhileWritten /\ AgentOwned /\ I!RunningIsWhole

LEMMA InstallInit == ASSUME I!InstallAssumption PROVE I!Init => InstallInv
BY DEF I!InstallAssumption, I!Init, InstallInv, I!TypeOK, I!Steps, Established, OpenWhileWritten, AgentOwned, I!RunningIsWhole, Passed

\* The typing of a step that takes one session somewhere.
LEMMA SessionMoved ==
  ASSUME I!TypeOK, NEW s \in Sessions, NEW step \in I!Steps, I!To(s, step)
  PROVE  at' \in [Sessions -> I!Steps] /\ at'[s] = step /\ \A r \in Sessions \ {s} : at'[r] = at[r]
BY DEF I!TypeOK, I!To

LEMMA SessionEnded ==
  ASSUME I!TypeOK, NEW s \in Sessions, NEW result \in {"ok", "failed"}, I!End(s, result)
  PROVE  /\ I!To(s, "idle")
         /\ outcome' \in [Sessions -> {"none", "ok", "failed"}] /\ outcome'[s] = result
         /\ \A r \in Sessions \ {s} : outcome'[r] = outcome[r]
BY DEF I!TypeOK, I!End

\* Downloads only ever leave something that is not the old executable.
LEMMA WrittenFiles ==
  ASSUME I!TypeOK, OpenWhileWritten, NEW s \in writers
  PROVE  /\ I!Written(s) \subseteq {"partial", "shared", "new"} /\ binary \in {"partial", "shared"}
         /\ \A b \in {binary} \cup I!Written(s) : writers \ {s} # {} => b \in {"partial", "shared"}
BY DEF I!Written, OpenWhileWritten, I!TypeOK

LEMMA InstallStep == ASSUME I!InstallAssumption PROVE InstallInv /\ [I!Next]_(I!vars) => InstallInv'
<1> SUFFICES ASSUME InstallInv, [I!Next]_(I!vars) PROVE InstallInv'
  OBVIOUS
<1>0. I!TypeOK /\ Established /\ OpenWhileWritten /\ AgentOwned /\ I!RunningIsWhole /\ MaxFaults \in Nat /\ Manual \subseteq Sessions
  BY DEF InstallInv, I!InstallAssumption
<1>f. /\ UNCHANGED faults => faults' \in 0 .. MaxFaults
      /\ I!Fault => faults' \in 0 .. MaxFaults
  BY <1>0 DEF I!TypeOK, I!Fault
<1>1. ASSUME NEW s \in Sessions, I!Begin(s) PROVE InstallInv'
  <2>1. PICK step \in {"release", "detect"} : I!To(s, step) /\ (step = "detect" => s \notin Manual)
    BY <1>1 DEF I!Begin
  <2>2. step \in I!Steps
    BY DEF I!Steps
  <2>3. at' \in [Sessions -> I!Steps] /\ at'[s] = step /\ \A r \in Sessions \ {s} : at'[r] = at[r]
    BY <1>0, <2>1, <2>2, SessionMoved
  <2>4. outcome' \in [Sessions -> {"none", "ok", "failed"}] /\ upgrade' \subseteq upgrade
    BY <1>0, <1>1 DEF I!Begin, I!TypeOK
  <2>5. UNCHANGED <<I!machine, faults>>
    BY <1>1 DEF I!Begin
  <2>6. Established'
    BY <1>0, <2>1, <2>3, <2>4, <2>5 DEF Established, Passed, I!machine
  <2> QED BY <1>0, <2>3, <2>4, <2>5, <2>6 DEF InstallInv, I!TypeOK, OpenWhileWritten, AgentOwned, I!RunningIsWhole, I!machine
<1>2. ASSUME NEW s \in Sessions, I!Detect(s) PROVE InstallInv'
  <2>1. at[s] = "detect" /\ I!To(s, "release") /\ UNCHANGED <<outcome, I!machine, faults>>
        /\ upgrade' \in {upgrade, upgrade \cup {s}} /\ (upgrade' = upgrade \/ agent = "running")
    BY <1>2 DEF I!Detect, I!Active
  <2>2. at' \in [Sessions -> I!Steps] /\ at'[s] = "release" /\ \A r \in Sessions \ {s} : at'[r] = at[r]
    BY <1>0, <2>1, SessionMoved DEF I!Steps
  <2>3. upgrade' \subseteq Sessions \ Manual
    BY <1>0, <2>1 DEF Established, I!TypeOK
  <2>4. Established'
    BY <1>0, <2>1, <2>2 DEF Established, Passed, I!machine, I!RunningIsWhole
  <2> QED BY <1>0, <2>1, <2>2, <2>3, <2>4 DEF InstallInv, I!TypeOK, OpenWhileWritten, AgentOwned, I!RunningIsWhole, I!machine
<1>3. ASSUME NEW s \in Sessions, I!End(s, "failed") \/ I!End(s, "ok"), UNCHANGED <<upgrade, I!machine>>, faults' \in 0 .. MaxFaults
      PROVE  InstallInv'
  <2>1. I!To(s, "idle") /\ outcome' \in [Sessions -> {"none", "ok", "failed"}]
    BY <1>0, <1>3, SessionEnded
  <2>2. at' \in [Sessions -> I!Steps] /\ at'[s] = "idle" /\ \A r \in Sessions \ {s} : at'[r] = at[r]
    BY <1>0, <2>1, SessionMoved DEF I!Steps
  <2>3. Established'
    BY <1>0, <1>3, <2>2 DEF Established, Passed, I!machine
  <2> QED BY <1>0, <1>3, <2>1, <2>2, <2>3 DEF InstallInv, I!TypeOK, OpenWhileWritten, AgentOwned, I!RunningIsWhole, I!machine
<1>4. ASSUME NEW s \in Sessions, I!Release(s) PROVE InstallInv'
  <2>1. CASE I!End(s, "failed") /\ I!Fault
    BY <1>3, <1>4, <1>f, <2>1 DEF I!Release
  <2>2. ASSUME NEW step \in {"stop", "download"}, I!To(s, step), UNCHANGED <<outcome, faults, upgrade, I!machine>> PROVE InstallInv'
    <3>1. at' \in [Sessions -> I!Steps] /\ at'[s] = step /\ \A r \in Sessions \ {s} : at'[r] = at[r]
      BY <1>0, <2>2, SessionMoved DEF I!Steps
    <3>2. Established'
      BY <1>0, <2>2, <3>1 DEF Established, Passed, I!machine
    <3> QED BY <1>0, <2>2, <3>1, <3>2 DEF InstallInv, I!TypeOK, OpenWhileWritten, AgentOwned, I!RunningIsWhole, I!machine
  <2> QED BY <1>4, <2>1, <2>2 DEF I!Release
<1>5. ASSUME NEW s \in Sessions, I!Stop(s) PROVE InstallInv'
  <2>1. I!To(s, "download") /\ agent' = "stopped" /\ UNCHANGED <<upgrade, outcome, binary, writers, config, unit, enabled, faults>>
    BY <1>5 DEF I!Stop
  <2>2. at' \in [Sessions -> I!Steps] /\ at'[s] = "download" /\ \A r \in Sessions \ {s} : at'[r] = at[r]
    BY <1>0, <2>1, SessionMoved DEF I!Steps
  <2>3. Established'
    BY <1>0, <2>1, <2>2 DEF Established, Passed
  <2> QED BY <1>0, <2>1, <2>2, <2>3 DEF InstallInv, I!TypeOK, OpenWhileWritten, AgentOwned, I!RunningIsWhole
<1>6. ASSUME NEW s \in Sessions, I!Download(s) PROVE InstallInv'
  <2>1. CASE I!End(s, "failed") /\ UNCHANGED I!machine
    BY <1>3, <1>6, <1>f, <2>1 DEF I!Download, I!machine
  <2>2. CASE /\ agent # "running" /\ I!To(s, "writing") /\ UNCHANGED <<outcome, faults>>
             /\ binary' \in {"partial", "shared"} /\ writers' = writers \cup {s}
    <3>1. at' \in [Sessions -> I!Steps] /\ at'[s] = "writing" /\ \A r \in Sessions \ {s} : at'[r] = at[r]
      BY <1>0, <2>2, SessionMoved DEF I!Steps
    <3>2. UNCHANGED <<upgrade, config, unit, enabled, agent>>
      BY <1>6 DEF I!Download
    <3>3. Established'
      BY <1>0, <2>2, <3>1, <3>2 DEF Established, Passed
    <3> QED BY <1>0, <2>2, <3>1, <3>2, <3>3 DEF InstallInv, I!TypeOK, OpenWhileWritten, AgentOwned, I!RunningIsWhole
  <2> QED BY <1>6, <2>1, <2>2 DEF I!Download, I!DownloadFailed, I!machine
<1>7. ASSUME NEW s \in writers, writers' = writers \ {s}, binary' \in {binary} \cup I!Written(s),
             UNCHANGED <<upgrade, config, unit, enabled, agent>>, faults' \in 0 .. MaxFaults,
             outcome' \in [Sessions -> {"none", "ok", "failed"}], at' \in [Sessions -> I!Steps],
             \A r \in Sessions : at'[r] \in {at[r], "idle"} \/ (at'[r] = "config" /\ at[r] = "writing")
      PROVE  InstallInv'
  <2>1. /\ binary \in {"partial", "shared"} /\ binary' \in {"partial", "shared", "new"}
        /\ (writers' # {} => binary' \in {"partial", "shared"})
    BY <1>0, <1>7, WrittenFiles
  <2>2. agent # "running"
    BY <1>0, <2>1 DEF I!RunningIsWhole
  <2>3. Established'
    BY <1>0, <1>7, <2>1 DEF Established, Passed
  <2> QED BY <1>0, <1>7, <2>1, <2>2, <2>3 DEF InstallInv, I!TypeOK, OpenWhileWritten, AgentOwned, I!RunningIsWhole
<1>8. ASSUME NEW s \in Sessions, I!Break(s) PROVE InstallInv'
  <2>1. /\ I!End(s, "failed") /\ I!Fault /\ UNCHANGED <<upgrade, binary, config, unit, enabled, agent>>
        /\ writers' \in {writers, writers \ {s}}
    BY <1>8 DEF I!Break
  <2>2. CASE UNCHANGED writers
    BY <1>3, <1>f, <2>1, <2>2 DEF I!machine
  <2>3. CASE writers' = writers \ {s} /\ s \in writers
    <3>1. I!To(s, "idle") /\ outcome' \in [Sessions -> {"none", "ok", "failed"}]
      BY <1>0, <2>1, SessionEnded
    <3>2. at' \in [Sessions -> I!Steps] /\ at'[s] = "idle" /\ \A r \in Sessions \ {s} : at'[r] = at[r]
      BY <1>0, <3>1, SessionMoved DEF I!Steps
    <3> QED BY <1>7, <1>f, <2>1, <2>3, <3>1, <3>2
  <2> QED BY <2>1, <2>2, <2>3
<1>9. ASSUME NEW s \in Sessions, I!Downloaded(s) PROVE InstallInv'
  <2>1. CASE s \notin writers
    <3>1. writers' = writers /\ at[s] = "writing"
      BY <1>9, <2>1 DEF I!Downloaded
    <3>2. CASE I!End(s, "failed") /\ I!Fault /\ UNCHANGED binary
      BY <1>3, <1>9, <1>f, <3>1, <3>2 DEF I!Downloaded, I!machine
    <3>3. CASE binary' \in I!Written(s) /\ I!To(s, "config") /\ UNCHANGED <<outcome, faults>>
      <4>1. binary' = binary
        BY <2>1, <3>3 DEF I!Written
      <4>2. at' \in [Sessions -> I!Steps] /\ at'[s] = "config" /\ \A r \in Sessions \ {s} : at'[r] = at[r]
        BY <1>0, <3>3, SessionMoved DEF I!Steps
      <4>3. UNCHANGED <<upgrade, config, unit, enabled, agent>>
        BY <1>9 DEF I!Downloaded
      <4>4. Established'
        BY <1>0, <3>1, <4>1, <4>2, <4>3 DEF Established, Passed
      <4> QED BY <1>0, <3>1, <3>3, <4>1, <4>2, <4>3, <4>4 DEF InstallInv, I!TypeOK, OpenWhileWritten, AgentOwned, I!RunningIsWhole
    <3> QED BY <1>9, <3>2, <3>3 DEF I!Downloaded, I!DownloadFailed
  <2>2. CASE s \in writers
    <3>1. PICK step \in {"config", "idle"} : I!To(s, step)
      BY <1>9 DEF I!Downloaded, I!DownloadFailed, I!End
    <3>2. at' \in [Sessions -> I!Steps] /\ at'[s] = step /\ \A r \in Sessions \ {s} : at'[r] = at[r]
      BY <1>0, <3>1, SessionMoved DEF I!Steps
    <3>3. outcome' \in [Sessions -> {"none", "ok", "failed"}] /\ faults' \in 0 .. MaxFaults
      <4>1. CASE I!End(s, "failed") /\ I!Fault
        BY <1>0, <1>f, <4>1, SessionEnded
      <4>2. CASE UNCHANGED <<outcome, faults>>
        BY <1>0, <1>f, <4>2 DEF I!TypeOK
      <4> QED BY <1>9, <4>1, <4>2 DEF I!Downloaded, I!DownloadFailed
    <3>4. /\ at[s] = "writing" /\ writers' = writers \ {s} /\ binary' \in {binary} \cup I!Written(s)
          /\ UNCHANGED <<upgrade, config, unit, enabled, agent>>
      BY <1>9 DEF I!Downloaded
    <3> QED BY <1>7, <2>2, <3>2, <3>3, <3>4
  <2> QED BY <2>1, <2>2
<1>10. ASSUME NEW s, I!GoesOn(s) PROVE InstallInv'
  <2>1. s \in writers /\ outcome' \in [Sessions -> {"none", "ok", "failed"}] /\ at' \in [Sessions -> I!Steps] /\ UNCHANGED <<at, faults>>
    BY <1>0, <1>10 DEF I!GoesOn, I!session, I!TypeOK
  <2> QED BY <1>7, <1>10, <1>f, <2>1 DEF I!GoesOn, I!session
<1>11. ASSUME NEW s \in Sessions, I!WriteConfig(s) \/ I!WriteUnit(s) \/ I!Enable(s) PROVE InstallInv'
  <2>1. PICK step \in {"start", "unit", "enable"} : I!To(s, step)
    BY <1>11 DEF I!WriteConfig, I!WriteUnit, I!Enable, I!AfterConfig
  <2>2. at' \in [Sessions -> I!Steps] /\ at'[s] = step /\ \A r \in Sessions \ {s} : at'[r] = at[r]
    BY <1>0, <2>1, SessionMoved DEF I!Steps
  <2>3. /\ UNCHANGED <<upgrade, outcome, binary, writers, agent, faults>> /\ at[s] \in Passed
    BY <1>11 DEF I!WriteConfig, I!WriteUnit, I!Enable, Passed
  <2>a. /\ config' \in BOOLEAN /\ unit' \in BOOLEAN /\ enabled' \in BOOLEAN
        /\ (config => config') /\ (unit => unit') /\ (enabled => enabled')
    BY <1>0, <1>11 DEF I!WriteConfig, I!WriteUnit, I!Enable, I!TypeOK
  <2>4. (step = "start" => enabled') /\ (step = "enable" => unit')
    BY <1>0, <1>11, <2>2 DEF I!WriteConfig, I!WriteUnit, I!Enable, I!AfterConfig, I!To, Established, I!TypeOK
  <2>5. enabled' => unit'
    BY <1>0, <1>11 DEF I!WriteConfig, I!WriteUnit, I!Enable, Established, I!TypeOK
  <2>6. Established'
    <3>1. \A r \in Sessions : r = s \/ at'[r] = at[r]
      BY <2>2
    <3> QED BY <1>0, <2>2, <2>3, <2>4, <2>a, <3>1 DEF Established
  <2> QED BY <1>0, <2>2, <2>3, <2>5, <2>6, <2>a DEF InstallInv, I!TypeOK, OpenWhileWritten, AgentOwned, I!RunningIsWhole
<1>12. ASSUME NEW s \in Sessions, I!Start(s) PROVE InstallInv'
  <2>1. /\ I!To(s, "verify") /\ at[s] = "start" /\ UNCHANGED <<upgrade, outcome, binary, writers, config, unit, enabled, faults>>
        /\ agent' \in {agent, I!Started}
    BY <1>12 DEF I!Start
  <2>2. at' \in [Sessions -> I!Steps] /\ at'[s] = "verify" /\ \A r \in Sessions \ {s} : at'[r] = at[r]
    BY <1>0, <2>1, SessionMoved DEF I!Steps
  <2>3. Established'
    BY <1>0, <2>1, <2>2 DEF Established, Passed
  <2>4. enabled
    BY <1>0, <2>1 DEF Established
  <2>5. /\ agent' \in {"stopped", "failing", "running"}
        /\ agent' = "running" => binary \in {"old", "new"} /\ config /\ enabled
    BY <1>0, <2>1, <2>4 DEF I!Started, I!Starts, I!RunningIsWhole, I!TypeOK
  <2> QED BY <1>0, <2>1, <2>2, <2>3, <2>4, <2>5 DEF InstallInv, I!TypeOK, OpenWhileWritten, AgentOwned, I!RunningIsWhole
<1>13. ASSUME NEW s \in Sessions, I!Verify(s) PROVE InstallInv'
  <2>1. I!End(s, "ok") \/ I!End(s, "failed")
    BY <1>13 DEF I!Verify
  <2> QED BY <1>3, <1>13, <1>f, <2>1 DEF I!Verify
<1>14. CASE I!SystemdRetries
  <2>1. /\ agent' = "running" /\ agent = "failing" /\ I!Starts
        /\ UNCHANGED <<at, upgrade, outcome, binary, writers, config, unit, enabled, faults>>
    BY <1>14 DEF I!SystemdRetries, I!session
  <2> QED BY <1>0, <2>1 DEF InstallInv, I!TypeOK, Established, OpenWhileWritten, AgentOwned, I!RunningIsWhole, I!Starts
<1>15. CASE I!Reboot
  <2>1. /\ writers' = {} /\ at' = [s \in Sessions |-> "idle"] /\ UNCHANGED <<upgrade, binary, config, unit, enabled>>
        /\ outcome' = [s \in Sessions |-> IF at[s] = "idle" THEN outcome[s] ELSE "failed"] /\ faults' \in 0 .. MaxFaults
        /\ agent' = IF enabled /\ unit THEN (IF binary \in {"old", "new"} /\ config THEN "running" ELSE "failing") ELSE "stopped"
    BY <1>15, <1>f DEF I!Reboot
  <2>2. at' \in [Sessions -> I!Steps] /\ outcome' \in [Sessions -> {"none", "ok", "failed"}]
    BY <1>0, <2>1 DEF I!TypeOK, I!Steps
  <2> QED BY <1>0, <2>1, <2>2 DEF InstallInv, I!TypeOK, Established, Passed, OpenWhileWritten, AgentOwned, I!RunningIsWhole
<1>16. CASE UNCHANGED I!vars
  BY <1>0, <1>16 DEF I!vars, InstallInv, I!TypeOK, Established, OpenWhileWritten, AgentOwned, I!RunningIsWhole
<1> QED BY <1>1, <1>2, <1>4, <1>5, <1>6, <1>8, <1>9, <1>10, <1>11, <1>12, <1>13, <1>14, <1>15, <1>16 DEF I!Next, I!Install

LEMMA InstallSuccess == ASSUME InstallInv, [I!Next]_(I!vars) PROVE I!SuccessIsNew \/ UNCHANGED I!vars
<1>0. I!TypeOK /\ Established /\ I!RunningIsWhole
  BY DEF InstallInv
<1> SUFFICES ASSUME NEW s \in Sessions, outcome[s] = "none", outcome'[s] = "ok" PROVE binary = "new" /\ agent = "running"
  BY DEF I!SuccessIsNew
<1>1. ASSUME NEW r \in Sessions, NEW x, I!End(r, x) PROVE r = s /\ x = "ok"
  BY <1>0, <1>1 DEF I!End, I!TypeOK
<1>2. ASSUME NEW r \in Sessions, I!Verify(r) PROVE binary = "new" /\ agent = "running"
  BY <1>0, <1>1, <1>2 DEF I!Verify, Established, Passed, I!RunningIsWhole, I!Active
<1>3. ASSUME NEW r \in Sessions, I!Begin(r) PROVE FALSE
  BY <1>0, <1>3 DEF I!Begin, I!TypeOK
<1>4. ASSUME NEW r \in Sessions, I!Release(r) \/ I!Download(r) \/ I!Downloaded(r) \/ I!Break(r) PROVE FALSE
  BY <1>1, <1>4 DEF I!Release, I!Download, I!Downloaded, I!Break, I!DownloadFailed
<1>5. CASE I!Reboot
  BY <1>0, <1>5 DEF I!Reboot, I!TypeOK
<1>6. CASE UNCHANGED outcome
  BY <1>6
<1> QED BY <1>2, <1>3, <1>4, <1>5, <1>6
        DEF I!Next, I!Install, I!Detect, I!Stop, I!WriteConfig, I!WriteUnit, I!Enable, I!Start, I!GoesOn, I!SystemdRetries, I!session,
               I!vars

\* An agent that runs was started from a complete installation and comes back with the machine.
THEOREM InstalledIsWhole == ASSUME I!InstallAssumption PROVE I!Spec => [](I!TypeOK /\ I!RunningIsWhole)
<1>1. InstallInv => I!TypeOK /\ I!RunningIsWhole
  BY DEF InstallInv
<1> QED BY InstallInit, InstallStep, <1>1, PTL DEF I!Spec

\* Success is reported for the version that was to be installed, by whichever session.
THEOREM SuccessReported == ASSUME I!InstallAssumption PROVE I!Spec => [][I!SuccessIsNew]_(I!vars)
<1>1. InstallInv /\ [I!Next]_(I!vars) => [I!SuccessIsNew]_(I!vars)
  BY InstallSuccess
<1> QED BY InstallInit, InstallStep, <1>1, PTL DEF I!Spec
==============================================================================
