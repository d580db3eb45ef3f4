---------------------- MODULE ConfigurationAssets_proofs ----------------------
(***************************************************************************)
(* Theorems about ConfigurationAssets, for any number of workers, files,   *)
(* versions and events, whatever the storage and the broker refuse and     *)
(* whenever a worker dies.                                                 *)
(*                                                                         *)
(* An upload holds the family while it has a file of its own, and whoever  *)
(* sends an event holds its row: what either has read stays true until it  *)
(* commits.                                                                *)
(***************************************************************************)
EXTENDS ConfigurationAssets, WellFoundedInduction, SequenceTheorems, TLAPS

Assets == [status : {"absent", "stored", "active", "archived"},
           file : Objects \cup {None}, notice : {"none", "published", "failed"}]

Events == [version : Versions, kind : {"created", "activated", "archived"},
           status : {"pending", "published", "failed"}]

Requests ==
  [op : {"idle", "upload", "activated", "archived", "retry", "label"},
   step : {"idle", "lock", "save", "write", "publish", "send", "confirm", "record"},
   version : 0..MaxVersion, file : Objects \cup {None}, event : 0..MaxEvents,
   result : {"none", "published", "failed", "stored", "active", "archived"}]

\* An upload and a change of status hold the family from the lock to the commit.
HoldsFamily(w) ==
  request[w].step = "save" \/ (request[w].step = "write" /\ request[w].op # "label")

FamilyOK == \A w \in Workers : HoldsFamily(w) => family = w

\* The file an upload has stored is its own until its row is written.
UploadsOK ==
  \A w \in Workers : request[w].op = "upload" =>
    /\ request[w].step \in {"lock", "save"} => request[w].file = None
    /\ request[w].step = "write" =>
         /\ request[w].file \in Objects /\ request[w].file \in files
         /\ \A v \in Versions : asset[v].file # request[w].file

\* A change is asked of a version that exists, and versions are never deleted.
ChangesOK ==
  \A w \in Workers :
    /\ request[w].step = "lock" => request[w].op \in {"upload", "activated", "archived"}
    /\ request[w].op \in {"activated", "archived"} /\ request[w].step \in {"lock", "write"}
         => request[w].version \in Existing
    /\ request[w].op = "label" =>
         /\ request[w].step = "write"
         /\ request[w].version \in Existing
         /\ request[w].result \in {"stored", "active", "archived"}

\* Whoever sends an event holds its row, and has seen it unpublished.
DeliveriesOK ==
  \A w \in Workers :
    /\ request[w].step \in {"publish", "send", "confirm", "record"} =>
         request[w].event \in 1..Len(events)
    /\ request[w].step \in {"confirm", "record"} => request[w].result \in {"published", "failed"}
    /\ request[w].step \in {"send", "confirm"} =>
         /\ eventLock[request[w].event] = w
         /\ events[request[w].event].status # "published"

OutboxFits == Len(events) <= MaxEvents

Inv ==
  /\ TypeOK /\ OutboxFits
  /\ FamilyOK /\ UploadsOK /\ ChangesOK /\ DeliveriesOK
  /\ FilesStored /\ OutboxTellsActive

-----------------------------------------------------------------------------
(***************************************************************************)
(* The next version is a new one.                                          *)
(***************************************************************************)
LEMMA MaxOfBounded ==
  ASSUME NEW S, S \subseteq Nat, S # {}, NEW b \in Nat, \A n \in S : n <= b
  PROVE  Max(S) \in S /\ \A n \in S : Max(S) >= n
<1> DEFINE Gaps == {b - n : n \in S}
<1>1. Gaps \subseteq Nat /\ Gaps # {}
  <2>1. \A n \in S : b - n \in Nat
    OBVIOUS
  <2>2. QED
    BY <2>1
<1>2. PICK g \in Gaps : \A h \in Gaps : <<h, g>> \notin OpToRel(<, Nat)
  <2> HIDE DEF Gaps
  <2> QED
    BY <1>1, NatLessThanWellFounded, WFMin
<1>3. PICK m \in S : g = b - m
  OBVIOUS
<1>4. \A n \in S : m >= n
  <2> SUFFICES ASSUME NEW n \in S PROVE m >= n
    OBVIOUS
  <2>1. b - n \in Gaps /\ b - n \in Nat /\ b - m \in Nat
    OBVIOUS
  <2>2. ~(b - n < b - m)
    BY <1>1, <1>2, <1>3, <2>1 DEF OpToRel
  <2>3. QED
    BY <2>2
<1>5. QED
  BY <1>4 DEF Max

LEMMA NextVersionIsNew == NextVersion \notin Existing
<1> DEFINE S == {0} \cup Existing
<1>1. S \subseteq Nat /\ S # {} /\ MaxVersion \in Nat /\ \A n \in S : n <= MaxVersion
  BY BoundsAssumption DEF Existing, Versions
<1>2. Max(S) \in Nat /\ \A n \in S : Max(S) >= n
  <2> HIDE DEF S
  <2> QED
    BY <1>1, MaxOfBounded
<1>3. \A n \in Existing : n \in Nat /\ Max(S) >= n
  BY <1>1, <1>2
<1>4. Max(S) + 1 \notin Existing
  <2> HIDE DEF S
  <2> QED
    BY <1>2, <1>3
<1>5. QED
  BY <1>4 DEF NextVersion

-----------------------------------------------------------------------------
(***************************************************************************)
(* Type correctness, action by action.                                     *)
(***************************************************************************)
LEMMA BeginType ==
  ASSUME TypeOK, NEW w \in Workers,
         NEW op \in {"upload", "activated", "archived"}, NEW v \in 0..MaxVersion,
         Begin(w, op, "lock", v)
  PROVE  TypeOK'
  BY BoundsAssumption DEF TypeOK, Begin, database, locks, Idle

LEMMA AssetsTyped ==
  ASSUME TypeOK, NEW v \in Versions
  PROVE  asset[v] \in Assets /\ (asset[v].status = "absent" <=> asset[v].file = None)
  BY DEF TypeOK, Assets

LEMMA RequestType ==
  ASSUME TypeOK, NEW w \in Workers
  PROVE  request[w] \in Requests
  BY DEF TypeOK, Requests

LEMMA EventsTyped ==
  ASSUME TypeOK
  PROVE  events \in Seq(Events) /\ Len(events) \in Nat /\ \A e \in 1..Len(events) : events[e] \in Events
<1>1. events \in Seq(Events)
  BY DEF TypeOK, Events
<1>2. QED
  BY <1>1

LEMMA FinishType ==
  ASSUME TypeOK, NEW w \in Workers, Finish(w)
  PROVE  /\ family' \in Workers \cup {None}
         /\ eventLock' \in [1..MaxEvents -> Workers \cup {None}]
         /\ request' \in [Workers -> Requests]
  BY BoundsAssumption DEF TypeOK, Finish, ReleaseLocks, Idle, Requests

LEMMA CommitType ==
  ASSUME TypeOK, NEW w \in Workers, NEW v \in Versions, Len(events) < MaxEvents,
         NEW kind \in {"created", "activated", "archived"}, CommitWithEvent(w, v, kind)
  PROVE  /\ family' \in Workers \cup {None}
         /\ eventLock' \in [1..MaxEvents -> Workers \cup {None}]
         /\ request' \in [Workers -> Requests]
         /\ events' \in Seq(Events) /\ Len(events') = Len(events) + 1
<1>1. [version |-> v, kind |-> kind, status |-> "pending"] \in Events
  BY DEF Events
<1>2. events' \in Seq(Events) /\ Len(events') = Len(events) + 1
  BY <1>1, EventsTyped, AppendProperties DEF CommitWithEvent
<1>3. Len(events) + 1 \in 0..MaxEvents /\ v \in 0..MaxVersion
  BY EventsTyped, BoundsAssumption DEF Versions
<1>4. request' \in [Workers -> Requests]
  <2>1. [request[w] EXCEPT !.step = "publish", !.version = v, !.event = Len(events) + 1]
          \in Requests
    BY <1>3, RequestType DEF Requests
  <2>2. request' = [request EXCEPT ![w] =
          [request[w] EXCEPT !.step = "publish", !.version = v, !.event = Len(events) + 1]]
    BY DEF TypeOK, CommitWithEvent
  <2>3. QED
    BY <2>1, <2>2 DEF TypeOK, Requests
<1>5. QED
  BY <1>2, <1>4 DEF TypeOK, CommitWithEvent, ReleaseLocks

LEMMA StatusType ==
  ASSUME TypeOK, NEW e \in 1..Len(events), NEW s \in {"pending", "published", "failed"}
  PROVE  /\ [events EXCEPT ![e].status = s] \in Seq(Events)
         /\ Len([events EXCEPT ![e].status = s]) = Len(events)
<1>1. [events[e] EXCEPT !.status = s] \in Events
  BY EventsTyped DEF Events
<1>2. [events EXCEPT ![e] = [events[e] EXCEPT !.status = s]] \in Seq(Events)
      /\ Len([events EXCEPT ![e] = [events[e] EXCEPT !.status = s]]) = Len(events)
  BY <1>1, EventsTyped, ExceptSeq
<1>3. QED
  BY <1>2

\* A notice changes one column of one version.
LEMMA NoticeKeeps ==
  ASSUME TypeOK, NEW e \in 1..Len(events), NEW result \in {"published", "failed"}
  PROVE  /\ Noticed(e, result) \in [Versions -> Assets]
         /\ \A v \in Versions : /\ Noticed(e, result)[v].status = asset[v].status
                                /\ Noticed(e, result)[v].file = asset[v].file
<1>1. events[e].version \in Versions
  BY EventsTyped DEF Events
<1>2. QED
  BY <1>1 DEF TypeOK, Noticed, Assets

\* The rows as they stand when the asset alone, or nothing, is written.
AssetsOK == /\ asset \in [Versions -> Assets]
            /\ \A v \in Versions : asset[v].status = "absent" <=> asset[v].file = None

\* The request of w takes a step, and nothing but its locks is written.
RequestsOK == /\ request \in [Workers -> Requests]
              /\ family \in Workers \cup {None}
              /\ eventLock \in [1..MaxEvents -> Workers \cup {None}]

Typed == /\ AssetsOK /\ RequestsOK
         /\ events \in Seq(Events) /\ Len(events) <= MaxEvents
         /\ overwritten \in BOOLEAN
         /\ sent \in [1..MaxEvents -> 0..MaxSends]
         /\ files \subseteq Objects

LEMMA TypeSplit ==
  ASSUME TypeOK, OutboxFits PROVE Typed
  BY DEF TypeOK, OutboxFits, Typed, AssetsOK, RequestsOK, Assets, Events, Requests

LEMMA TypeJoin ==
  ASSUME Typed' PROVE TypeOK' /\ OutboxFits'
  BY DEF TypeOK, OutboxFits, Typed, AssetsOK, RequestsOK, Assets, Events, Requests

LEMMA NoticeType ==
  ASSUME TypeOK, NEW e \in 1..Len(events), NEW result \in {"published", "failed"},
         asset' = Noticed(e, result)
  PROVE  AssetsOK'
  BY NoticeKeeps, AssetsTyped DEF AssetsOK

\* The status of an existing version is set.
LEMMA SetStatusType ==
  ASSUME NEW rows \in [Versions -> Assets],
         \A u \in Versions : rows[u].status = "absent" <=> rows[u].file = None,
         NEW v \in Versions, rows[v].file # None, NEW s \in {"stored", "active", "archived"},
         asset' = [rows EXCEPT ![v].status = s]
  PROVE  AssetsOK'
<1>1. asset' \in [Versions -> Assets]
  BY DEF Assets
<1>2. \A u \in Versions : asset'[u].status = "absent" <=> asset'[u].file = None
  BY DEF Assets
<1>3. QED
  BY <1>1, <1>2 DEF AssetsOK

LEMMA DeactivatedType ==
  ASSUME TypeOK, NEW v
  PROVE  /\ Deactivated(v) \in [Versions -> Assets]
         /\ \A u \in Versions : /\ Deactivated(v)[u].file = asset[u].file
                                /\ Deactivated(v)[u].status = "absent"
                                     <=> Deactivated(v)[u].file = None
<1>1. \A u \in Versions : asset[u] \in Assets /\ (asset[u].status = "absent" <=> asset[u].file = None)
  BY AssetsTyped
<1>2. QED
  BY <1>1 DEF Deactivated, Active, Assets

LEMMA StatusKeepsType ==
  ASSUME TypeOK, NEW v \in Existing, NEW s \in {"stored", "active", "archived"},
         \/ asset' = [asset EXCEPT ![v].status = s]
         \/ asset' = [Deactivated(v) EXCEPT ![v].status = s]
  PROVE  AssetsOK'
<1>1. /\ asset \in [Versions -> Assets]
      /\ \A u \in Versions : asset[u].status = "absent" <=> asset[u].file = None
  BY DEF TypeOK, Assets
<1>2. v \in Versions /\ asset[v].file # None
  BY <1>1 DEF Existing
<1>3. CASE asset' = [asset EXCEPT ![v].status = s]
  BY <1>1, <1>2, <1>3, SetStatusType
<1>4. CASE asset' = [Deactivated(v) EXCEPT ![v].status = s]
  <2>1. /\ Deactivated(v) \in [Versions -> Assets] /\ Deactivated(v)[v].file # None
        /\ \A u \in Versions : Deactivated(v)[u].status = "absent" <=> Deactivated(v)[u].file = None
    BY <1>2, DeactivatedType
  <2>2. QED
    BY <1>2, <1>4, <2>1, SetStatusType
<1>5. QED
  BY <1>3, <1>4

LEMMA InsertType ==
  ASSUME TypeOK, UploadsOK, NEW w \in Workers, NEW activate \in BOOLEAN, InsertAsset(w, activate)
  PROVE  AssetsOK'
<1>0. request[w].file \in Objects /\ None \notin Objects /\ NextVersion \in Versions
  BY BoundsAssumption DEF UploadsOK, InsertAsset, At
<1>1. \A u \in Versions : asset[u] \in Assets /\ (asset[u].status = "absent" <=> asset[u].file = None)
  BY AssetsTyped
<1>2. PICK status \in {"active", "stored"} :
        asset' = [IF activate THEN Deactivated(NextVersion) ELSE asset EXCEPT
                    ![NextVersion] = [Absent EXCEPT !.status = status, !.file = request[w].file]]
  BY DEF InsertAsset
<1>3. (IF activate THEN Deactivated(NextVersion) ELSE asset) \in [Versions -> Assets]
      /\ \A u \in Versions :
           (IF activate THEN Deactivated(NextVersion) ELSE asset)[u].status = "absent"
             <=> (IF activate THEN Deactivated(NextVersion) ELSE asset)[u].file = None
  <2>1. asset \in [Versions -> Assets]
    BY DEF TypeOK, Assets
  <2>2. Deactivated(NextVersion) \in [Versions -> Assets]
        /\ \A u \in Versions :
             Deactivated(NextVersion)[u].status = "absent" <=> Deactivated(NextVersion)[u].file = None
    BY <1>1, DeactivatedType
  <2>3. QED
    BY <1>1, <2>1, <2>2
<1>4. QED
  BY <1>0, <1>2, <1>3 DEF AssetsOK, Assets, Absent

LEMMA StepType ==
  ASSUME Typed, NEW w \in Workers,
         NEW step \in {"save", "write", "publish", "send", "confirm", "record"},
         request' = [request EXCEPT ![w].step = step]
  PROVE  request' \in [Workers -> Requests]
<1>1. [request[w] EXCEPT !.step = step] \in Requests
  <2>1. request[w] \in Requests
    BY DEF Typed, RequestsOK
  <2>2. QED
    BY <2>1 DEF Requests
<1>2. request' = [request EXCEPT ![w] = [request[w] EXCEPT !.step = step]]
  OBVIOUS
<1>3. QED
  BY <1>1, <1>2 DEF Typed, RequestsOK

LEMMA ChangingType ==
  ASSUME TypeOK, OutboxFits, UploadsOK, ChangesOK, DeliveriesOK,
         NEW w \in Workers, Changing(w)
  PROVE  Typed'
<1>0. Typed /\ request[w] \in Requests /\ Len(events) \in Nat /\ MaxEvents \in Nat
  BY TypeSplit, RequestType, EventsTyped, BoundsAssumption
<1>1. CASE LockFamily(w)
  <2>1. PICK step \in {"save", "write"} : request' = [request EXCEPT ![w].step = step]
    BY <1>1 DEF LockFamily
  <2>2. RequestsOK'
    BY <1>0, <1>1, <2>1, StepType DEF Typed, LockFamily, RequestsOK
  <2>3. QED
    BY <1>0, <1>1, <2>2 DEF Typed, LockFamily, database, AssetsOK
<1>2. CASE SaveFile(w)
  <2>1. PICK o \in Unused : files' = files \cup {o}
          /\ request' = [request EXCEPT ![w].step = "write", ![w].file = o]
    BY <1>2 DEF SaveFile
  <2>2. o \in Objects
    BY <2>1 DEF Unused
  <2>3. RequestsOK'
    <3>1. [request[w] EXCEPT !.step = "write", !.file = o] \in Requests
      BY <1>0, <2>2 DEF Requests
    <3>2. request' = [request EXCEPT ![w] = [request[w] EXCEPT !.step = "write", !.file = o]]
      BY <2>1
    <3>3. QED
      BY <1>0, <1>2, <3>1, <3>2 DEF SaveFile, Typed, RequestsOK, locks
  <2>4. QED
    BY <1>0, <1>2, <2>1, <2>2, <2>3 DEF Typed, SaveFile, database, AssetsOK
<1>3. CASE \E activate \in BOOLEAN : InsertAsset(w, activate)
  <2>1. PICK activate \in BOOLEAN : InsertAsset(w, activate)
    BY <1>3
  <2>2. AssetsOK'
    BY <2>1, InsertType
  <2>3. PICK kind \in {"activated", "created"} :
          NextVersion \in Versions /\ Len(events) < MaxEvents /\ CommitWithEvent(w, NextVersion, kind)
    BY <2>1 DEF InsertAsset
  <2>4. RequestsOK' /\ events' \in Seq(Events) /\ Len(events') = Len(events) + 1
    BY <2>3, CommitType DEF RequestsOK
  <2>5. QED
    BY <1>0, <2>1, <2>2, <2>3, <2>4 DEF Typed, InsertAsset
<1>4. CASE FailUpload(w)
  <2>1. RequestsOK' /\ files' \subseteq Objects
    BY <1>0, <1>4, FinishType DEF Typed, FailUpload, RequestsOK
  <2>2. QED
    BY <1>0, <1>4, <2>1 DEF Typed, FailUpload, database, AssetsOK
<1>5. CASE ActivateAsset(w) \/ ArchiveAsset(w)
  <2>1. PICK kind \in {"activated", "archived"} :
          /\ request[w].op = kind /\ request[w].step = "write" /\ Len(events) < MaxEvents
          /\ CommitWithEvent(w, request[w].version, kind)
          /\ \/ asset' = [Deactivated(request[w].version) EXCEPT ![request[w].version].status = "active"]
             \/ asset' = [asset EXCEPT ![request[w].version].status = "archived"]
    BY <1>5 DEF ActivateAsset, ArchiveAsset, At
  <2>2. request[w].version \in Existing /\ request[w].version \in Versions
    BY <2>1 DEF ChangesOK, Existing
  <2>3. AssetsOK'
    BY <2>1, <2>2, StatusKeepsType
  <2>4. RequestsOK' /\ events' \in Seq(Events) /\ Len(events') = Len(events) + 1
    BY <2>1, <2>2, CommitType DEF RequestsOK
  <2>5. QED
    BY <1>0, <1>5, <2>1, <2>3, <2>4 DEF Typed, ActivateAsset, ArchiveAsset
<1>6. CASE WriteLabelForm(w)
  <2>1. AssetsOK'
    <3>1. CASE asset' = asset
      BY <1>0, <3>1 DEF AssetsOK, Typed
    <3>2. CASE asset' # asset
      <4>1. /\ request[w].version \in Existing
            /\ request[w].result \in {"stored", "active", "archived"}
        BY <1>6 DEF WriteLabelForm, ChangesOK, At
      <4>2. asset' = [asset EXCEPT ![request[w].version].status = request[w].result]
        BY <1>6, <3>2 DEF WriteLabelForm
      <4>3. QED
        BY <4>1, <4>2, StatusKeepsType
    <3>3. QED
      BY <3>1, <3>2
  <2>2. RequestsOK'
    BY <1>6, FinishType DEF WriteLabelForm, RequestsOK
  <2>3. QED
    BY <1>0, <1>6, <2>1, <2>2 DEF Typed, WriteLabelForm
<1>7. QED
  BY <1>1, <1>2, <1>3, <1>4, <1>5, <1>6 DEF Changing
LEMMA PublishingType ==
  ASSUME TypeOK, OutboxFits, DeliveriesOK, NEW w \in Workers, Publishing(w)
  PROVE  Typed'
<1> DEFINE e == request[w].event
<1>0. Typed /\ request[w] \in Requests /\ Len(events) \in Nat /\ MaxEvents \in Nat
  BY TypeSplit, RequestType, EventsTyped, BoundsAssumption
<1>1. CASE LockEvent(w)
  <2>1. request' \in [Workers -> Requests]
    <3>1. CASE events[e].status = "published"
      <4>1. [request[w] EXCEPT !.step = "record", !.result = "published"] \in Requests
        BY <1>0 DEF Requests
      <4>2. request' = [request EXCEPT ![w] =
                          [request[w] EXCEPT !.step = "record", !.result = "published"]]
        BY <1>1, <3>1 DEF LockEvent
      <4>3. QED
        BY <1>0, <4>1, <4>2 DEF Typed, RequestsOK
    <3>2. CASE events[e].status # "published"
      BY <1>0, <1>1, <3>2, StepType DEF LockEvent
    <3>3. QED
      BY <3>1, <3>2
  <2>2. QED
    BY <1>0, <1>1, <2>1 DEF LockEvent, Typed, RequestsOK, database, AssetsOK
<1>2. ASSUME NEW result \in {"published", "failed"}, Answered(w, result)
      PROVE  request' \in [Workers -> Requests]
  <2>1. [request[w] EXCEPT !.step = "confirm", !.result = result] \in Requests
    BY <1>0 DEF Requests
  <2>2. request' = [request EXCEPT ![w] =
                      [request[w] EXCEPT !.step = "confirm", !.result = result]]
    BY <1>2 DEF Answered
  <2>3. QED
    BY <1>0, <2>1, <2>2 DEF Typed, RequestsOK
<1>3. CASE Send(w) \/ SendFails(w)
  <2>1. /\ sent' = sent \/ (sent[e] < MaxSends /\ sent' = [sent EXCEPT ![e] = @ + 1])
        /\ \E result \in {"published", "failed"} : Answered(w, result)
        /\ UNCHANGED <<asset, events, files, family, eventLock, overwritten>>
    BY <1>3 DEF Send, SendFails, database, locks
  <2>2. request' \in [Workers -> Requests]
    BY <1>2, <2>1
  <2>3. sent' \in [1..MaxEvents -> 0..MaxSends]
    <3>1. e \in 1..MaxEvents
      BY <1>0, <1>3 DEF Send, SendFails, DeliveriesOK, Typed
    <3>2. CASE sent' # sent
      <4>1. sent[e] \in 0..MaxSends /\ sent[e] < MaxSends /\ sent' = [sent EXCEPT ![e] = sent[e] + 1]
        BY <1>0, <2>1, <3>1, <3>2 DEF Typed
      <4>2. sent[e] + 1 \in 0..MaxSends
        BY <4>1, BoundsAssumption
      <4>3. QED
        BY <1>0, <4>1, <4>2 DEF Typed
    <3>3. QED
      BY <1>0, <3>2 DEF Typed
  <2>4. QED
    BY <1>0, <2>1, <2>2, <2>3 DEF Typed, RequestsOK, AssetsOK
<1>4. CASE CommitOutcome(w)
  <2>1. e \in 1..Len(events) /\ request[w].result \in {"published", "failed"}
    BY <1>4 DEF CommitOutcome, DeliveriesOK
  <2>2. events' \in Seq(Events) /\ Len(events') = Len(events)
    BY <1>4, <2>1, StatusType DEF CommitOutcome
  <2>3. request' \in [Workers -> Requests]
    BY <1>0, <1>4, StepType DEF CommitOutcome
  <2>4. QED
    BY <1>0, <1>4, <2>2, <2>3 DEF CommitOutcome, Typed, RequestsOK, AssetsOK
<1>5. CASE RecordResult(w)
  <2>1. e \in 1..Len(events) /\ request[w].result \in {"published", "failed"}
    BY <1>5 DEF RecordResult, DeliveriesOK
  <2>2. AssetsOK'
    BY <1>5, <2>1, NoticeType DEF RecordResult
  <2>3. RequestsOK'
    BY <1>5, FinishType DEF RecordResult, RequestsOK
  <2>4. QED
    BY <1>0, <1>5, <2>2, <2>3 DEF RecordResult, Typed
<1>6. CASE CommitRetry(w)
  <2>1. e \in 1..Len(events) /\ request[w].result \in {"published", "failed"}
    BY <1>6 DEF CommitRetry, At, DeliveriesOK
  <2>2. AssetsOK'
    BY <1>6, <2>1, NoticeType DEF CommitRetry
  <2>3. RequestsOK'
    BY <1>6, FinishType DEF CommitRetry, RequestsOK
  <2>4. events' \in Seq(Events) /\ Len(events') = Len(events)
    BY <1>6, <2>1, StatusType DEF CommitRetry
  <2>5. QED
    BY <1>0, <1>6, <2>2, <2>3, <2>4 DEF CommitRetry, Typed
<1>7. QED
  BY <1>1, <1>3, <1>4, <1>5, <1>6 DEF Publishing

LEMMA IdleType == Idle \in Requests
  BY BoundsAssumption DEF Idle, Requests

LEMMA ArriveType ==
  ASSUME TypeOK, OutboxFits, NEW w \in Workers, Arrive(w)
  PROVE  Typed'
<1>0. Typed /\ request[w] \in Requests /\ Len(events) \in Nat /\ MaxEvents \in Nat
  BY TypeSplit, RequestType, EventsTyped, BoundsAssumption
<1>1. CASE BeginUpload(w) \/ \E v \in Versions, op \in {"activated", "archived"} : BeginChange(w, op, v)
  <2>1. PICK v \in 0..MaxVersion, op \in {"upload", "activated", "archived"} :
          Begin(w, op, "lock", v)
    BY <1>1, BoundsAssumption DEF BeginUpload, BeginChange, Versions
  <2>2. TypeOK'
    BY <2>1, BeginType
  <2>3. QED
    BY <1>0, <2>1, <2>2 DEF Begin, database, Typed, TypeOK, AssetsOK, RequestsOK, Assets, Requests
<1>2. CASE \E e \in 1..MaxEvents : BeginRetry(w, e)
  <2>1. PICK e \in 1..MaxEvents : BeginRetry(w, e)
    BY <1>2
  <2>2. [Idle EXCEPT !.op = "retry", !.step = "send", !.event = e] \in Requests
    <3>1. e \in 0..MaxEvents
      BY <1>0
    <3>2. QED
      BY <3>1, IdleType DEF Requests
  <2>3. QED
    BY <1>0, <2>1, <2>2 DEF BeginRetry, database, Typed, AssetsOK, RequestsOK
<1>3. CASE \E v \in Versions : ReadLabelForm(w, v)
  <2>1. PICK v \in Versions : ReadLabelForm(w, v)
    BY <1>3
  <2>2. asset[v].status \in {"stored", "active", "archived"} /\ v \in 0..MaxVersion
    BY <2>1, AssetsTyped, BoundsAssumption DEF ReadLabelForm, Existing, Assets, Versions
  <2>3. [Idle EXCEPT !.op = "label", !.step = "write", !.version = v, !.result = asset[v].status]
          \in Requests
    BY <2>2, IdleType DEF Requests
  <2>4. QED
    BY <1>0, <2>1, <2>3 DEF ReadLabelForm, database, locks, Typed, AssetsOK, RequestsOK
<1>4. QED
  BY <1>1, <1>2, <1>3 DEF Arrive

LEMMA CrashType ==
  ASSUME TypeOK, OutboxFits, NEW w \in Workers, Crash(w)
  PROVE  Typed'
<1>1. RequestsOK'
  BY FinishType DEF Crash, RequestsOK
<1>2. QED
  BY <1>1, TypeSplit DEF Crash, database, Typed, AssetsOK

LEMMA TypeStep ==
  ASSUME TypeOK, OutboxFits, UploadsOK, ChangesOK, DeliveriesOK, [Next]_vars
  PROVE  TypeOK' /\ OutboxFits'
<1>1. CASE UNCHANGED vars
  BY <1>1, TypeSplit, TypeJoin DEF vars, database, locks, Typed, AssetsOK, RequestsOK
<1>2. ASSUME NEW w \in Workers, Arrive(w) \/ Changing(w) \/ Publishing(w) \/ Crash(w)
      PROVE  Typed'
  BY <1>2, ArriveType, ChangingType, PublishingType, CrashType
<1>3. QED
  BY <1>1, <1>2, TypeJoin DEF Next

-----------------------------------------------------------------------------
(***************************************************************************)
(* Who holds what.  The step of a worker moves its own request and takes   *)
(* or releases its own locks.                                              *)
(***************************************************************************)
WorkerStep(w) == Arrive(w) \/ Changing(w) \/ Publishing(w) \/ Crash(w)

LEMMA OthersWait ==
  ASSUME Typed, DeliveriesOK, NEW w \in Workers, WorkerStep(w), NEW u \in Workers, u # w
  PROVE  /\ request'[u] = request[u]
         /\ family = u => family' = u
         /\ \A e \in 1..MaxEvents : eventLock[e] = u => eventLock'[e] = u
<1>1. /\ request \in [Workers -> Requests]
      /\ eventLock \in [1..MaxEvents -> Workers \cup {None}]
      /\ None \notin Workers
  BY BoundsAssumption DEF Typed, RequestsOK
<1>2. CASE Finish(w)
  BY <1>1, <1>2 DEF Finish, ReleaseLocks
<1>3. CASE Arrive(w)
  BY <1>1, <1>3 DEF Arrive, BeginUpload, BeginChange, Begin, BeginRetry, ReadLabelForm, locks
<1>4. CASE LockFamily(w) \/ SaveFile(w)
  BY <1>1, <1>4 DEF LockFamily, SaveFile, locks
<1>5. CASE \E v, kind : CommitWithEvent(w, v, kind)
  BY <1>1, <1>5 DEF CommitWithEvent, ReleaseLocks
<1>6. CASE LockEvent(w) \/ CommitOutcome(w) \/ Send(w) \/ SendFails(w)
  <2>1. CASE CommitOutcome(w)
    BY <1>1, <2>1 DEF CommitOutcome, DeliveriesOK
  <2>2. QED
    BY <1>1, <1>6, <2>1 DEF LockEvent, Send, SendFails, Answered, locks
<1>7. QED
  BY <1>2, <1>3, <1>4, <1>5, <1>6 DEF WorkerStep, Crash, Changing, Publishing, InsertAsset,
     FailUpload, ActivateAsset, ArchiveAsset, WriteLabelForm, RecordResult, CommitRetry

\* What the step of a worker makes of its own request.
LEMMA OwnStep ==
  ASSUME Typed, NEW w \in Workers, WorkerStep(w)
  PROVE  \/ request'[w].step = "idle" /\ request'[w].op = "idle"
         \/ BeginUpload(w) \/ \E v \in Versions, op \in {"activated", "archived"} : BeginChange(w, op, v)
         \/ \E e \in 1..MaxEvents : BeginRetry(w, e)
         \/ \E v \in Versions : ReadLabelForm(w, v)
         \/ LockFamily(w) \/ SaveFile(w)
         \/ \E activate \in BOOLEAN : InsertAsset(w, activate)
         \/ ActivateAsset(w) \/ ArchiveAsset(w)
         \/ LockEvent(w) \/ Send(w) \/ SendFails(w) \/ CommitOutcome(w)
<1>1. CASE Finish(w)
  BY <1>1 DEF Finish, Typed, RequestsOK, Idle
<1>2. QED
  BY <1>1 DEF WorkerStep, Arrive, Changing, Publishing, Crash, FailUpload, WriteLabelForm,
              RecordResult, CommitRetry

LEMMA DeliveryMoves ==
  ASSUME Typed, NEW w \in Workers, LockEvent(w) \/ Send(w) \/ SendFails(w) \/ CommitOutcome(w)
  PROVE  /\ request'[w].step \in {"record", "send", "confirm"}
         /\ request'[w].op = request[w].op /\ request'[w].event = request[w].event
<1>0. request \in [Workers -> Requests]
  BY DEF Typed, RequestsOK
<1>1. CASE LockEvent(w)
  <2>1. CASE events[request[w].event].status = "published"
    BY <1>0, <1>1, <2>1 DEF LockEvent, Requests
  <2>2. CASE events[request[w].event].status # "published"
    BY <1>0, <1>1, <2>2 DEF LockEvent, Requests
  <2>3. QED
    BY <2>1, <2>2
<1>2. CASE Send(w)
  BY <1>0, <1>2 DEF Send, Answered, Requests
<1>3. CASE SendFails(w)
  BY <1>0, <1>3 DEF SendFails, Answered, Requests
<1>4. CASE CommitOutcome(w)
  BY <1>0, <1>4 DEF CommitOutcome, Requests
<1>5. QED
  BY <1>1, <1>2, <1>3, <1>4

\* What a request is when it begins.
LEMMA BeginMoves ==
  ASSUME request \in [Workers -> Requests], NEW w \in Workers, NEW op, NEW step, NEW v, Begin(w, op, step, v)
  PROVE  request'[w].op = op /\ request'[w].step = step /\ request'[w].file = None
<1>1. request'[w] = [Idle EXCEPT !.op = op, !.step = step, !.version = v]
  BY DEF Begin
<1>2. QED
  BY <1>1 DEF Idle

LEMMA RetryMoves ==
  ASSUME request \in [Workers -> Requests], NEW w \in Workers, NEW e, BeginRetry(w, e)
  PROVE  request'[w].op = "retry" /\ request'[w].step = "send"
<1>1. request'[w] = [Idle EXCEPT !.op = "retry", !.step = "send", !.event = e]
  BY DEF BeginRetry
<1>2. QED
  BY <1>1 DEF Idle

LEMMA FormMoves ==
  ASSUME request \in [Workers -> Requests], NEW w \in Workers, NEW v, ReadLabelForm(w, v)
  PROVE  request'[w].op = "label" /\ request'[w].step = "write"
<1>1. request'[w] = [Idle EXCEPT !.op = "label", !.step = "write", !.version = v,
                                 !.result = asset[v].status]
  BY DEF ReadLabelForm
<1>2. QED
  BY <1>1 DEF Idle

LEMMA FamilyStep ==
  ASSUME Typed, FamilyOK, ChangesOK, DeliveriesOK, NEW w \in Workers, WorkerStep(w)
  PROVE  FamilyOK'
<1>0. request \in [Workers -> Requests] /\ None \notin Workers /\ family \in Workers \cup {None}
  BY BoundsAssumption DEF Typed, RequestsOK
<1>1. ASSUME NEW u \in Workers, u # w, HoldsFamily(u)'
      PROVE  family' = u
  BY <1>1, OthersWait DEF HoldsFamily, FamilyOK
<1>2. ASSUME HoldsFamily(w)'
      PROVE  family' = w
  <2>1. CASE LockFamily(w)
    BY <2>1 DEF LockFamily
  <2>2. CASE SaveFile(w)
    BY <2>2 DEF SaveFile, At, FamilyOK, HoldsFamily, locks
  <2>3. CASE ~LockFamily(w) /\ ~SaveFile(w)
    <3>1. CASE request'[w].step = "idle"
      BY <1>2, <3>1 DEF HoldsFamily
    <3>2. ASSUME NEW op, NEW v, Begin(w, op, "lock", v)
          PROVE  FALSE
      <4>1. request'[w].step = "lock"
        BY <1>0, <3>2, BeginMoves
      <4>2. QED
        BY <1>2, <4>1 DEF HoldsFamily
    <3>3. CASE BeginUpload(w) \/ \E v \in Versions, op \in {"activated", "archived"} : BeginChange(w, op, v)
      BY <3>2, <3>3 DEF BeginUpload, BeginChange
    <3>4. CASE (\E e \in 1..MaxEvents : BeginRetry(w, e)) \/ \E v \in Versions : ReadLabelForm(w, v)
      <4>1. request'[w].step = "send" \/ (request'[w].step = "write" /\ request'[w].op = "label")
        BY <1>0, <3>4, RetryMoves, FormMoves
      <4>2. QED
        BY <1>2, <4>1 DEF HoldsFamily
    <3>5. CASE \E v, kind : CommitWithEvent(w, v, kind)
      BY <1>0, <1>2, <3>5 DEF CommitWithEvent, HoldsFamily
    <3>6. CASE LockEvent(w) \/ Send(w) \/ SendFails(w) \/ CommitOutcome(w)
      <4>1. request'[w].step \in {"record", "send", "confirm"}
        BY <3>6, DeliveryMoves
      <4>2. QED
        BY <1>2, <4>1 DEF HoldsFamily
    <3>7. QED
      BY <2>3, <3>1, <3>2, <3>3, <3>4, <3>5, <3>6, OwnStep DEF InsertAsset, ActivateAsset, ArchiveAsset
  <2>4. QED
    BY <2>1, <2>2, <2>3
<1>3. QED
  BY <1>1, <1>2 DEF FamilyOK

\* What the three changes of status write.
DeactivatesOthers(v) ==
  \A u \in Versions \ {v} :
    /\ asset'[u].file = asset[u].file
    /\ asset'[u].status = IF asset[u].status = "active" THEN "archived" ELSE asset[u].status

LEMMA DeactivatedRows ==
  ASSUME Typed, NEW v \in Versions
  PROVE  /\ Deactivated(v) \in [Versions -> Assets]
         /\ Deactivated(v)[v] = asset[v]
         /\ \A u \in Versions \ {v} :
              /\ Deactivated(v)[u].file = asset[u].file
              /\ Deactivated(v)[u].status =
                   IF asset[u].status = "active" THEN "archived" ELSE asset[u].status
<1>1. \A u \in Versions : asset[u] \in Assets
  BY DEF Typed, AssetsOK
<1>2. QED
  BY <1>1 DEF Deactivated, Active, Assets

LEMMA InsertWrites ==
  ASSUME Typed, NEW w \in Workers, NEW activate \in BOOLEAN, InsertAsset(w, activate)
  PROVE  /\ NextVersion \in Versions
         /\ asset'[NextVersion].status = IF activate THEN "active" ELSE "stored"
         /\ asset'[NextVersion].file = request[w].file
         /\ activate => DeactivatesOthers(NextVersion)
         /\ ~activate => \A u \in Versions \ {NextVersion} : asset'[u] = asset[u]
<1>0. asset \in [Versions -> Assets] /\ NextVersion \in Versions
  BY DEF Typed, AssetsOK, InsertAsset
<1>1. CASE activate
  <2>1. /\ Deactivated(NextVersion) \in [Versions -> Assets]
        /\ asset' = [Deactivated(NextVersion) EXCEPT ![NextVersion] =
                       [Absent EXCEPT !.status = "active", !.file = request[w].file]]
    BY <1>0, <1>1, DeactivatedRows DEF InsertAsset
  <2>2. /\ asset'[NextVersion].status = "active" /\ asset'[NextVersion].file = request[w].file
        /\ \A u \in Versions \ {NextVersion} : asset'[u] = Deactivated(NextVersion)[u]
    BY <1>0, <2>1 DEF Absent
  <2>3. QED
    BY <1>0, <1>1, <2>2, DeactivatedRows DEF DeactivatesOthers
<1>2. CASE ~activate
  <2>1. asset' = [asset EXCEPT ![NextVersion] =
                    [Absent EXCEPT !.status = "stored", !.file = request[w].file]]
    BY <1>2 DEF InsertAsset
  <2>2. QED
    BY <1>0, <1>2, <2>1 DEF Absent
<1>3. QED
  BY <1>1, <1>2

LEMMA ChangeWrites ==
  ASSUME Typed, ChangesOK, NEW w \in Workers, ActivateAsset(w) \/ ArchiveAsset(w)
  PROVE  /\ request[w].version \in Existing /\ request[w].version \in Versions
         /\ asset'[request[w].version].file = asset[request[w].version].file
         /\ \/ /\ ActivateAsset(w) /\ DeactivatesOthers(request[w].version)
               /\ asset'[request[w].version].status = "active"
            \/ /\ ArchiveAsset(w)
               /\ \A u \in Versions \ {request[w].version} : asset'[u] = asset[u]
               /\ asset'[request[w].version].status = "archived"
<1>0. /\ asset \in [Versions -> Assets]
      /\ request[w].version \in Existing /\ request[w].version \in Versions
  BY DEF Typed, AssetsOK, ChangesOK, ActivateAsset, ArchiveAsset, At, Existing
<1>1. CASE ActivateAsset(w)
  <2>1. /\ Deactivated(request[w].version) \in [Versions -> Assets]
        /\ asset' = [Deactivated(request[w].version) EXCEPT ![request[w].version].status = "active"]
    BY <1>0, <1>1, DeactivatedRows DEF ActivateAsset
  <2>2. /\ asset'[request[w].version].status = "active"
        /\ asset'[request[w].version].file = Deactivated(request[w].version)[request[w].version].file
        /\ \A u \in Versions \ {request[w].version} : asset'[u] = Deactivated(request[w].version)[u]
    BY <1>0, <2>1 DEF Assets
  <2>3. QED
    BY <1>0, <1>1, <2>2, DeactivatedRows DEF DeactivatesOthers
<1>2. CASE ArchiveAsset(w)
  BY <1>0, <1>2 DEF ArchiveAsset, Assets
<1>3. QED
  BY <1>1, <1>2

\* Rows are added and never taken away; an event is recorded by its holder.
LEMMA RowsStay ==
  ASSUME TypeOK, Typed, UploadsOK, ChangesOK, DeliveriesOK, NEW w \in Workers, WorkerStep(w)
  PROVE  /\ Existing \subseteq Existing'
         /\ Len(events) <= Len(events')
         /\ \A e \in 1..Len(events) :
              \/ events'[e] = events[e]
              \/ eventLock[e] = w /\ request[w].event = e /\ request[w].step = "confirm"
<1>0. /\ events \in Seq(Events) /\ Len(events) \in Nat /\ request \in [Workers -> Requests]
      /\ \A v \in Versions : asset[v] \in Assets
      /\ asset \in [Versions -> Assets]
  BY EventsTyped DEF Typed, RequestsOK, AssetsOK
<1>1. CASE UNCHANGED <<asset, events>>
  BY <1>0, <1>1 DEF Existing
<1>2. ASSUME NEW v \in Versions, NEW kind \in {"created", "activated", "archived"},
             CommitWithEvent(w, v, kind)
      PROVE  Len(events) <= Len(events') /\ \A e \in 1..Len(events) : events'[e] = events[e]
  <2>1. [version |-> v, kind |-> kind, status |-> "pending"] \in Events
    BY DEF Events
  <2>2. QED
    BY <1>0, <1>2, <2>1, AppendProperties DEF CommitWithEvent
<1>3. CASE \E activate \in BOOLEAN : InsertAsset(w, activate)
  <2>1. PICK activate \in BOOLEAN : InsertAsset(w, activate)
    BY <1>3
  <2>2. Existing \subseteq Existing'
    BY <1>0, <2>1, InsertWrites DEF Existing, DeactivatesOthers
  <2>3. QED
    BY <1>2, <2>1, <2>2 DEF InsertAsset
<1>4. CASE ActivateAsset(w) \/ ArchiveAsset(w)
  <2>1. request[w].version \in Existing
    BY <1>4 DEF ChangesOK, ActivateAsset, ArchiveAsset, At
  <2>2. Existing \subseteq Existing'
    BY <1>0, <1>4, <2>1, ChangeWrites DEF Existing, DeactivatesOthers
  <2>3. request[w].version \in Versions
    BY <2>1 DEF Existing
  <2>4. QED
    BY <1>2, <1>4, <2>2, <2>3 DEF ActivateAsset, ArchiveAsset
<1>5. CASE WriteLabelForm(w)
  <2>1. request[w].version \in Existing /\ request[w].result \in {"stored", "active", "archived"}
    BY <1>5 DEF ChangesOK, WriteLabelForm, At
  <2>2. QED
    BY <1>0, <1>5, <2>1 DEF WriteLabelForm, Existing
<1>6. CASE CommitOutcome(w) \/ RecordResult(w) \/ CommitRetry(w)
  <2>1. /\ request[w].event \in 1..Len(events) /\ request[w].result \in {"published", "failed"}
        /\ request[w].step = "confirm" => eventLock[request[w].event] = w
    BY <1>6 DEF CommitOutcome, RecordResult, CommitRetry, At, DeliveriesOK
  <2>2. Existing \subseteq Existing'
    BY <1>0, <1>6, <2>1, NoticeKeeps DEF CommitOutcome, RecordResult, CommitRetry, Existing
  <2>3. \/ UNCHANGED events
        \/ /\ request[w].step = "confirm"
           /\ events' = [events EXCEPT ![request[w].event].status = request[w].result]
    BY <1>6 DEF CommitOutcome, RecordResult, CommitRetry, At
  <2>4. Len(events') = Len(events)
    BY <2>1, <2>3, StatusType
  <2>5. QED
    BY <1>0, <2>1, <2>2, <2>3, <2>4
<1>7. QED
  BY <1>1, <1>3, <1>4, <1>5, <1>6 DEF WorkerStep, Arrive, BeginUpload, BeginChange, Begin,
     BeginRetry, ReadLabelForm, Changing, LockFamily, SaveFile, FailUpload, Publishing, LockEvent,
     Send, SendFails, Crash, database

\* Only the holder of the family touches the storage and the files of versions.
LEMMA FilesOfHolder ==
  ASSUME TypeOK, Typed, ChangesOK, DeliveriesOK, NEW w \in Workers, WorkerStep(w),
         ~HoldsFamily(w)
  PROVE  files' = files /\ \A v \in Versions : asset'[v].file = asset[v].file
<1>0. asset \in [Versions -> Assets]
  BY DEF Typed, AssetsOK
<1>1. CASE WriteLabelForm(w)
  <2>1. request[w].version \in Versions
    BY <1>1 DEF ChangesOK, WriteLabelForm, At, Existing
  <2>2. QED
    BY <1>0, <1>1, <2>1 DEF WriteLabelForm, Assets
<1>2. CASE RecordResult(w) \/ CommitRetry(w)
  <2>1. request[w].event \in 1..Len(events) /\ request[w].result \in {"published", "failed"}
    BY <1>2 DEF RecordResult, CommitRetry, At, DeliveriesOK
  <2>2. QED
    BY <1>2, <2>1, NoticeKeeps DEF RecordResult, CommitRetry
<1>3. ~SaveFile(w) /\ ~FailUpload(w) /\ ~ActivateAsset(w) /\ ~ArchiveAsset(w)
      /\ ~(\E activate \in BOOLEAN : InsertAsset(w, activate))
  BY DEF HoldsFamily, SaveFile, FailUpload, ActivateAsset, ArchiveAsset, InsertAsset, At
<1>4. QED
  BY <1>1, <1>2, <1>3 DEF WorkerStep, Arrive, BeginUpload, BeginChange, Begin, BeginRetry,
     ReadLabelForm, Changing, LockFamily, Publishing, LockEvent, Send, SendFails, CommitOutcome,
     Crash, database

LEMMA UploadsStep ==
  ASSUME TypeOK, Typed, FamilyOK, UploadsOK, ChangesOK, DeliveriesOK,
         NEW w \in Workers, WorkerStep(w)
  PROVE  UploadsOK'
<1> DEFINE Ok(u) == request'[u].op = "upload" =>
      /\ request'[u].step \in {"lock", "save"} => request'[u].file = None
      /\ request'[u].step = "write" =>
           /\ request'[u].file \in Objects /\ request'[u].file \in files'
           /\ \A v \in Versions : asset'[v].file # request'[u].file
<1>0. request \in [Workers -> Requests]
  BY DEF Typed, RequestsOK
<1>1. ASSUME NEW u \in Workers, u # w
      PROVE  Ok(u)
  <2>1. request'[u] = request[u]
    BY <1>1, OthersWait
  <2>2. CASE ~HoldsFamily(u)
    BY <2>1, <2>2 DEF HoldsFamily, UploadsOK
  <2>3. CASE HoldsFamily(u)
    <3>1. ~HoldsFamily(w)
      BY <1>1, <2>3 DEF FamilyOK
    <3>2. files' = files /\ \A v \in Versions : asset'[v].file = asset[v].file
      BY <3>1, FilesOfHolder
    <3>3. QED
      BY <2>1, <3>2 DEF UploadsOK
  <2>4. QED
    BY <2>2, <2>3
<1>2. Ok(w)
  <2>1. CASE request'[w].op = "idle"
    BY <2>1
  <2>2. CASE BeginUpload(w)
    BY <1>0, <2>2, BeginMoves DEF BeginUpload
  <2>3. CASE \E v \in Versions, op \in {"activated", "archived"} : BeginChange(w, op, v)
    BY <1>0, <2>3, BeginMoves DEF BeginChange
  <2>4. CASE (\E e \in 1..MaxEvents : BeginRetry(w, e)) \/ \E v \in Versions : ReadLabelForm(w, v)
    BY <1>0, <2>4, RetryMoves, FormMoves
  <2>5. CASE LockFamily(w)
    <3>1. /\ request'[w].op = request[w].op /\ request'[w].file = request[w].file
          /\ request'[w].step = IF request[w].op = "upload" THEN "save" ELSE "write"
          /\ request[w].step = "lock"
      BY <1>0, <2>5 DEF LockFamily, Requests
    <3>2. QED
      BY <3>1 DEF UploadsOK
  <2>6. CASE SaveFile(w)
    <3>1. PICK o \in Unused : /\ files' = files \cup {o} /\ UNCHANGED asset
                              /\ request' = [request EXCEPT ![w].step = "write", ![w].file = o]
      BY <2>6 DEF SaveFile, database
    <3>2. request'[w].file = o /\ request'[w].step = "write"
      BY <1>0, <3>1 DEF Requests
    <3>3. o \in Objects /\ o \in files' /\ \A v \in Versions : asset'[v].file # o
      BY <3>1 DEF Unused
    <3>4. QED
      BY <3>2, <3>3
  <2>7. CASE \E v, kind : CommitWithEvent(w, v, kind)
    BY <1>0, <2>7 DEF CommitWithEvent
  <2>8. CASE LockEvent(w) \/ Send(w) \/ SendFails(w) \/ CommitOutcome(w)
    BY <2>8, DeliveryMoves
  <2>9. QED
    BY <2>1, <2>2, <2>3, <2>4, <2>5, <2>6, <2>7, <2>8, OwnStep
       DEF InsertAsset, ActivateAsset, ArchiveAsset
<1>3. QED
  BY <1>1, <1>2 DEF UploadsOK

LEMMA ChangesStep ==
  ASSUME TypeOK, Typed, UploadsOK, ChangesOK, DeliveriesOK, NEW w \in Workers, WorkerStep(w)
  PROVE  ChangesOK'
<1> DEFINE Ok(u) ==
      /\ request'[u].step = "lock" => request'[u].op \in {"upload", "activated", "archived"}
      /\ request'[u].op \in {"activated", "archived"} /\ request'[u].step \in {"lock", "write"}
           => request'[u].version \in Existing'
      /\ request'[u].op = "label" =>
           /\ request'[u].step = "write"
           /\ request'[u].version \in Existing'
           /\ request'[u].result \in {"stored", "active", "archived"}
<1>0. request \in [Workers -> Requests] /\ Existing \subseteq Existing'
  BY RowsStay DEF Typed, RequestsOK
<1>1. ASSUME NEW u \in Workers, u # w
      PROVE  Ok(u)
  BY <1>0, <1>1, OthersWait DEF ChangesOK
<1>2. Ok(w)
  <2>1. CASE request'[w].op = "idle" /\ request'[w].step = "idle"
    BY <2>1
  <2>2. CASE BeginUpload(w)
    BY <1>0, <2>2 DEF BeginUpload, Begin, Idle
  <2>3. CASE \E v \in Versions, op \in {"activated", "archived"} : BeginChange(w, op, v)
    BY <1>0, <2>3 DEF BeginChange, Begin, Idle
  <2>4. CASE \E e \in 1..MaxEvents : BeginRetry(w, e)
    BY <1>0, <2>4 DEF BeginRetry, Idle
  <2>5. CASE \E v \in Versions : ReadLabelForm(w, v)
    <3>1. PICK v \in Existing : request' = [request EXCEPT ![w] =
            [Idle EXCEPT !.op = "label", !.step = "write", !.version = v, !.result = asset[v].status]]
      BY <2>5 DEF ReadLabelForm
    <3>2. asset[v].status \in {"stored", "active", "archived"}
      BY <3>1, AssetsTyped DEF Existing, Assets
    <3>3. request'[w].op = "label" /\ request'[w].step = "write" /\ request'[w].version = v
          /\ request'[w].result = asset[v].status
      BY <1>0, <3>1 DEF Idle
    <3>4. QED
      BY <1>0, <3>2, <3>3
  <2>6. CASE LockFamily(w)
    <3>1. /\ request'[w].op = request[w].op /\ request'[w].version = request[w].version
          /\ request'[w].step \in {"save", "write"} /\ request[w].step = "lock"
      BY <1>0, <2>6 DEF LockFamily, Requests
    <3>2. QED
      BY <1>0, <3>1 DEF ChangesOK
  <2>7. CASE SaveFile(w)
    <3>1. request'[w].op = "upload" /\ request'[w].step = "write"
      BY <1>0, <2>7 DEF SaveFile, At, Requests
    <3>2. QED
      BY <3>1
  <2>8. ASSUME NEW v, NEW kind, CommitWithEvent(w, v, kind), request[w].op # "label"
        PROVE  Ok(w)
    <3>1. request'[w].op = request[w].op /\ request'[w].step = "publish"
      BY <1>0, <2>8 DEF CommitWithEvent, Requests
    <3>2. QED
      BY <2>8, <3>1
  <2>9. CASE LockEvent(w) \/ Send(w) \/ SendFails(w) \/ CommitOutcome(w)
    <3>1. request[w].step \in {"publish", "send", "confirm"}
      BY <2>9 DEF LockEvent, Send, SendFails, CommitOutcome
    <3>2. request[w].op # "label"
      BY <3>1 DEF ChangesOK
    <3>3. QED
      BY <2>9, <3>2, DeliveryMoves
  <2>10. QED
    BY <2>1, <2>2, <2>3, <2>4, <2>5, <2>6, <2>7, <2>8, <2>9, OwnStep
       DEF InsertAsset, ActivateAsset, ArchiveAsset, At
<1>3. QED
  BY <1>1, <1>2 DEF ChangesOK

LEMMA DeliveriesStep ==
  ASSUME TypeOK, Typed, UploadsOK, ChangesOK, DeliveriesOK, NEW w \in Workers, WorkerStep(w)
  PROVE  DeliveriesOK'
<1> DEFINE Ok(u) ==
      /\ request'[u].step \in {"publish", "send", "confirm", "record"} =>
           request'[u].event \in 1..Len(events')
      /\ request'[u].step \in {"confirm", "record"} => request'[u].result \in {"published", "failed"}
      /\ request'[u].step \in {"send", "confirm"} =>
           /\ eventLock'[request'[u].event] = u
           /\ events'[request'[u].event].status # "published"
<1>0. /\ request \in [Workers -> Requests]
      /\ eventLock \in [1..MaxEvents -> Workers \cup {None}]
      /\ events \in Seq(Events) /\ Len(events) \in Nat /\ Len(events) <= MaxEvents /\ MaxEvents \in Nat
  BY EventsTyped, BoundsAssumption DEF Typed, RequestsOK
<1>1. ASSUME NEW u \in Workers, u # w
      PROVE  Ok(u)
  <2>1. request'[u] = request[u]
    BY <1>1, OthersWait
  <2>2. CASE request[u].step \notin {"publish", "send", "confirm", "record"}
    BY <2>1, <2>2
  <2>3. CASE request[u].step \in {"publish", "send", "confirm", "record"}
    <3>1. request[u].event \in 1..Len(events)
      BY <2>3 DEF DeliveriesOK
    <3>2. request'[u].event \in 1..Len(events')
      <4>1. Len(events') \in Nat /\ Len(events) <= Len(events')
        BY TypeStep, RowsStay, EventsTyped DEF WorkerStep, Next, OutboxFits, Typed, TypeOK
      <4>2. QED
        BY <1>0, <2>1, <3>1, <4>1
    <3>3. CASE request[u].step \in {"send", "confirm"}
      <4>1. eventLock[request[u].event] = u /\ events[request[u].event].status # "published"
        BY <3>3 DEF DeliveriesOK
      <4>2. events'[request[u].event] = events[request[u].event]
        BY <1>1, <3>1, <4>1, RowsStay
      <4>3. eventLock'[request[u].event] = u
        BY <1>0, <1>1, <3>1, <4>1, OthersWait
      <4>4. QED
        BY <2>1, <3>2, <4>1, <4>2, <4>3 DEF DeliveriesOK
    <3>4. CASE request[u].step \in {"publish", "record"}
      BY <2>1, <3>2, <3>4 DEF DeliveriesOK
    <3>5. QED
      BY <2>3, <3>3, <3>4
  <2>4. QED
    BY <2>2, <2>3
<1>2. Ok(w)
  <2>1. CASE request'[w].step \notin {"publish", "send", "confirm", "record"}
    BY <2>1
  <2>2. CASE BeginUpload(w) \/ \E v \in Versions, op \in {"activated", "archived"} : BeginChange(w, op, v)
    <3>1. request'[w].step = "lock"
      BY <1>0, <2>2 DEF BeginUpload, BeginChange, Begin, Idle
    <3>2. QED
      BY <3>1
  <2>3. CASE \E e \in 1..MaxEvents : BeginRetry(w, e)
    <3>1. PICK e \in 1..Len(events) :
            /\ events[e].status # "published" /\ UNCHANGED events
            /\ eventLock' = [eventLock EXCEPT ![e] = w]
            /\ request' = [request EXCEPT ![w] =
                 [Idle EXCEPT !.op = "retry", !.step = "send", !.event = e]]
      BY <2>3 DEF BeginRetry, database
    <3>2. request'[w].step = "send" /\ request'[w].event = e
      BY <1>0, <3>1 DEF Idle
    <3>3. e \in 1..MaxEvents
      BY <1>0
    <3>4. eventLock'[e] = w /\ events' = events
      BY <1>0, <3>1, <3>3
    <3>5. QED
      BY <3>1, <3>2, <3>4
  <2>4. CASE \E v \in Versions : ReadLabelForm(w, v)
    <3>1. request'[w].step = "write"
      BY <1>0, <2>4 DEF ReadLabelForm, Idle
    <3>2. QED
      BY <3>1
  <2>5. CASE LockFamily(w) \/ SaveFile(w)
    <3>1. request'[w].step \in {"save", "write"}
      BY <1>0, <2>5 DEF LockFamily, SaveFile, Requests
    <3>2. QED
      BY <3>1
  <2>6. CASE \E v \in Versions, kind \in {"created", "activated", "archived"} : CommitWithEvent(w, v, kind)
    <3>1. PICK v \in Versions, kind \in {"created", "activated", "archived"} : CommitWithEvent(w, v, kind)
      BY <2>6
    <3>2. [version |-> v, kind |-> kind, status |-> "pending"] \in Events
      BY DEF Events
    <3>3. Len(events') = Len(events) + 1
      BY <1>0, <3>1, <3>2, AppendProperties DEF CommitWithEvent
    <3>4. request'[w].step = "publish" /\ request'[w].event = Len(events) + 1
      BY <1>0, <3>1 DEF CommitWithEvent, Requests
    <3>5. QED
      BY <1>0, <3>3, <3>4
  <2>7. CASE LockEvent(w) \/ Send(w) \/ SendFails(w) \/ CommitOutcome(w)
    <3>1. /\ request[w].step \in {"publish", "send", "confirm"}
          /\ request'[w].event = request[w].event
          /\ request[w].event \in 1..Len(events) /\ request[w].event \in 1..MaxEvents
      <4>1. request[w].step \in {"publish", "send", "confirm"}
        BY <2>7 DEF LockEvent, Send, SendFails, CommitOutcome
      <4>2. request'[w].event = request[w].event
        BY <2>7, DeliveryMoves
      <4>3. request[w].event \in 1..Len(events) /\ request[w].event \in 1..MaxEvents
        BY <1>0, <4>1 DEF DeliveriesOK
      <4>4. QED
        BY <4>1, <4>2, <4>3
    <3>2. CASE LockEvent(w)
      <4>1. CASE events[request[w].event].status = "published"
        <5>1. request'[w].step = "record" /\ request'[w].result = "published" /\ events' = events
          BY <1>0, <3>2, <4>1 DEF LockEvent, Requests, database
        <5>2. QED
          BY <3>1, <5>1
      <4>2. CASE events[request[w].event].status # "published"
        <5>1. /\ request'[w].step = "send" /\ events' = events
              /\ eventLock'[request[w].event] = w
          BY <1>0, <3>1, <3>2, <4>2 DEF LockEvent, Requests, database
        <5>2. QED
          BY <3>1, <4>2, <5>1
      <4>3. QED
        BY <4>1, <4>2
    <3>3. CASE Send(w) \/ SendFails(w)
      <4>1. PICK result \in {"published", "failed"} :
              Answered(w, result) /\ UNCHANGED <<events, eventLock>> /\ request[w].step = "send"
        BY <3>3 DEF Send, SendFails, database, locks
      <4>2. request'[w].step = "confirm" /\ request'[w].result = result
        BY <1>0, <4>1 DEF Answered, Requests
      <4>3. QED
        BY <3>1, <4>1, <4>2 DEF DeliveriesOK
    <3>4. CASE CommitOutcome(w)
      <4>1. /\ request'[w].step = "record" /\ request'[w].result = request[w].result
            /\ request[w].step = "confirm"
            /\ events' = [events EXCEPT ![request[w].event].status = request[w].result]
        BY <1>0, <3>4 DEF CommitOutcome, Requests
      <4>2. request[w].result \in {"published", "failed"}
        BY <4>1 DEF DeliveriesOK
      <4>3. Len(events') = Len(events)
        BY <3>1, <4>1, <4>2, StatusType
      <4>4. QED
        BY <3>1, <4>1, <4>2, <4>3
    <3>5. QED
      BY <2>7, <3>2, <3>3, <3>4
  <2>8. CASE request'[w].step = "idle"
    BY <2>8
  <2>9. CASE (\E activate \in BOOLEAN : InsertAsset(w, activate)) \/ ActivateAsset(w) \/ ArchiveAsset(w)
    <3>1. \E v \in Versions, kind \in {"created", "activated", "archived"} : CommitWithEvent(w, v, kind)
      BY <2>9, ChangeWrites DEF InsertAsset, ActivateAsset, ArchiveAsset
    <3>2. QED
      BY <2>6, <3>1
  <2>10. QED
    BY <2>2, <2>3, <2>4, <2>5, <2>7, <2>8, <2>9, OwnStep
<1>3. QED
  BY <1>1, <1>2 DEF DeliveriesOK

-----------------------------------------------------------------------------
(***************************************************************************)
(* The properties.                                                         *)
(***************************************************************************)
LEMMA FilesStep ==
  ASSUME TypeOK, Typed, UploadsOK, ChangesOK, DeliveriesOK, FilesStored,
         NEW w \in Workers, WorkerStep(w)
  PROVE  FilesStored'
<1>0. /\ None \notin Objects /\ asset \in [Versions -> Assets]
      /\ \A v \in Existing : asset[v].file \in files /\ asset[v].file \in Objects
  BY BoundsAssumption, AssetsTyped DEF Typed, AssetsOK, FilesStored, Existing, Assets
<1>1. CASE ~HoldsFamily(w)
  <2>1. files' = files /\ \A v \in Versions : asset'[v].file = asset[v].file
    BY <1>1, FilesOfHolder
  <2>2. Existing' \subseteq Existing
    <3>1. \A v \in Versions : asset'[v].status = "absent" <=> asset'[v].file = None
      BY TypeStep DEF WorkerStep, Next, OutboxFits, Typed, TypeOK
    <3>2. QED
      BY <2>1, <3>1, AssetsTyped DEF Existing
  <2>3. QED
    BY <1>0, <2>1, <2>2 DEF FilesStored, Existing
<1>2. CASE SaveFile(w)
  BY <1>0, <1>2 DEF SaveFile, database, FilesStored, Existing
<1>3. CASE FailUpload(w)
  <2>1. \A v \in Existing : asset[v].file # request[w].file
    BY <1>0, <1>3 DEF FailUpload, UploadsOK, Existing
  <2>2. QED
    BY <1>0, <1>3, <2>1 DEF FailUpload, database, FilesStored, Existing
<1>4. CASE \E activate \in BOOLEAN : InsertAsset(w, activate)
  <2>1. PICK activate \in BOOLEAN : InsertAsset(w, activate)
    BY <1>4
  <2>2. request[w].file \in files /\ files' = files
    BY <2>1 DEF InsertAsset, At, UploadsOK
  <2>3. \A u \in Versions \ {NextVersion} :
          asset'[u].file = asset[u].file /\ (asset'[u].status # "absent" => u \in Existing)
    BY <1>0, <2>1, InsertWrites DEF DeactivatesOthers, Existing
  <2>4. QED
    BY <1>0, <2>1, <2>2, <2>3, InsertWrites DEF FilesStored, Existing
<1>5. CASE ActivateAsset(w) \/ ArchiveAsset(w)
  <2>1. files' = files
    BY <1>5 DEF ActivateAsset, ArchiveAsset
  <2>2. \A u \in Versions :
          asset'[u].file = asset[u].file /\ (asset'[u].status # "absent" => u \in Existing)
    BY <1>0, <1>5, ChangeWrites DEF DeactivatesOthers, Existing
  <2>3. QED
    BY <1>0, <2>1, <2>2 DEF FilesStored, Existing
<1>6. CASE Finish(w) /\ UNCHANGED <<database, files>>
  BY <1>0, <1>6 DEF database, FilesStored, Existing
<1>7. CASE HoldsFamily(w)
  <2>1. ~Arrive(w)
    <3>1. request[w] # Idle
      BY <1>7 DEF HoldsFamily, Idle
    <3>2. QED
      BY <3>1 DEF Arrive, BeginUpload, BeginChange, Begin, BeginRetry, ReadLabelForm
  <2>2. ~Publishing(w)
    BY <1>7 DEF HoldsFamily, Publishing, LockEvent, Send, SendFails, CommitOutcome, RecordResult,
                CommitRetry, At
  <2>3. ~LockFamily(w) /\ ~WriteLabelForm(w)
    BY <1>7 DEF HoldsFamily, LockFamily, WriteLabelForm, At
  <2>4. QED
    BY <1>2, <1>3, <1>4, <1>5, <1>6, <2>1, <2>2, <2>3 DEF WorkerStep, Changing, Crash
<1>8. QED
  BY <1>1, <1>7

\* What one more event tells.
LEMMA OneMoreEvent ==
  ASSUME Typed, NEW w \in Workers, NEW v \in Versions,
         NEW kind \in {"created", "activated", "archived"}, CommitWithEvent(w, v, kind)
  PROVE  /\ kind = "activated" => ToldActive' = {v}
         /\ kind = "archived" => ToldActive' = ToldActive \ {v}
         /\ kind = "created" => ToldActive' = ToldActive
<1> DEFINE n == Len(events)
           x == [version |-> v, kind |-> kind, status |-> "pending"]
<1>1. x \in Events /\ events \in Seq(Events) /\ n \in Nat /\ events' = Append(events, x)
  BY DEF Events, Typed, CommitWithEvent
<1>2. /\ Len(events') = n + 1 /\ events'[n + 1] = x
      /\ \A e \in 1..n : events'[e] = events[e]
  BY <1>1, AppendProperties
<1>3. x.version = v /\ x.kind = kind
  OBVIOUS
<1> HIDE DEF n, x
<1>4. ASSUME NEW u, NEW e \in 1..n
      PROVE  StandsSince(u, e)' <=>
               StandsSince(u, e) /\ kind # "activated" /\ (u = v => kind # "archived")
  <2>1. /\ e + 1 .. n + 1 = (e + 1 .. n) \cup {n + 1}
        /\ \A f \in e + 1 .. n : f \in 1..n
    BY <1>1
  <2>2. StandsSince(u, e)' <=>
          \A f \in e + 1 .. n + 1 :
            events'[f].kind # "activated" /\ (events'[f].version = u => events'[f].kind # "archived")
    BY <1>2 DEF StandsSince
  <2>3. StandsSince(u, e) <=>
          \A f \in e + 1 .. n :
            events[f].kind # "activated" /\ (events[f].version = u => events[f].kind # "archived")
    BY DEF StandsSince, n
  <2>4. QED
    BY <1>2, <1>3, <2>1, <2>2, <2>3
<1>5. ASSUME NEW u, NEW e \in Nat, e = n + 1
      PROVE  StandsSince(u, e)'
  <2>1. e + 1 .. Len(events') = {}
    BY <1>1, <1>2, <1>5
  <2>2. QED
    BY <2>1 DEF StandsSince
<1>6. \A u : EventsOf(u)' = IF u = v THEN EventsOf(u) \cup {n + 1} ELSE EventsOf(u)
  BY <1>1, <1>2, <1>3 DEF EventsOf, n
<1>7. \A u : EventsOf(u) \subseteq 1..n
  BY DEF EventsOf, n
<1>8. ASSUME NEW u \in Versions
      PROVE  u \in ToldActive' <=>
               \/ /\ u \in ToldActive /\ kind # "activated" /\ (u = v => kind # "archived")
               \/ u = v /\ kind = "activated"
  <2>1. u \in ToldActive' <=>
          \E e \in EventsOf(u)' : events'[e].kind = "activated" /\ StandsSince(u, e)'
    BY DEF ToldActive
  <2>2. u \in ToldActive <=>
          \E e \in EventsOf(u) : events[e].kind = "activated" /\ StandsSince(u, e)
    BY DEF ToldActive
  <2>3. \A e \in EventsOf(u) : /\ e \in EventsOf(u)' /\ events'[e] = events[e]
                               /\ StandsSince(u, e)' <=>
                                    StandsSince(u, e) /\ kind # "activated" /\ (u = v => kind # "archived")
    BY <1>2, <1>4, <1>6, <1>7
  <2>4. \A e \in EventsOf(u)' : e \in EventsOf(u) \/ (e = n + 1 /\ u = v)
    BY <1>6
  <2>5. u = v => n + 1 \in EventsOf(u)'
    BY <1>6
  <2>6. CASE u = v /\ kind = "activated"
    <3>1. PICK e \in Nat : e = n + 1
      BY <1>1
    <3>2. e \in EventsOf(u)' /\ events'[e].kind = "activated" /\ StandsSince(u, e)'
      BY <1>2, <1>3, <1>5, <2>5, <2>6, <3>1
    <3>3. QED
      BY <2>1, <2>6, <3>2
  <2>7. CASE ~(u = v /\ kind = "activated")
    <3>1. ASSUME NEW e \in EventsOf(u)', events'[e].kind = "activated"
          PROVE  e \in EventsOf(u)
      BY <1>2, <1>3, <2>4, <2>7, <3>1
    <3>2. QED
      BY <2>1, <2>2, <2>3, <2>7, <3>1
  <2>8. QED
    BY <2>6, <2>7
<1>9. ToldActive \subseteq Versions /\ ToldActive' \subseteq Versions
  BY DEF ToldActive
<1>10. QED
  BY <1>8, <1>9

LEMMA SameTale ==
  ASSUME Len(events') = Len(events),
         \A e \in 1..Len(events) : /\ events'[e].kind = events[e].kind
                                   /\ events'[e].version = events[e].version,
         Len(events) \in Nat
  PROVE  ToldActive' = ToldActive
<1>1. \A u : EventsOf(u)' = EventsOf(u) /\ EventsOf(u) \subseteq 1..Len(events)
  BY DEF EventsOf
<1>2. ASSUME NEW u, NEW e \in 1..Len(events)
      PROVE  StandsSince(u, e)' <=> StandsSince(u, e)
  <2>1. \A f \in e + 1 .. Len(events) : f \in 1..Len(events)
    OBVIOUS
  <2>2. QED
    BY <2>1 DEF StandsSince
<1>3. QED
  BY <1>1, <1>2 DEF ToldActive

LEMMA OutboxStep ==
  ASSUME TypeOK, Typed, UploadsOK, ChangesOK, DeliveriesOK, OutboxTellsActive,
         NEW w \in Workers, WorkerStep(w)
  PROVE  OutboxTellsActive'
<1>0. asset \in [Versions -> Assets] /\ Len(events) \in Nat /\ events \in Seq(Events)
  BY EventsTyped DEF Typed, AssetsOK
<1>1. CASE \E activate \in BOOLEAN : InsertAsset(w, activate)
  <2>1. PICK activate \in BOOLEAN : InsertAsset(w, activate)
    BY <1>1
  <2>2. /\ overwritten' = overwritten /\ NextVersion \in Versions
        /\ asset[NextVersion].status = "absent"
        /\ CommitWithEvent(w, NextVersion, IF activate THEN "activated" ELSE "created")
    BY <2>1, NextVersionIsNew DEF InsertAsset, Existing
  <2>3. CASE activate
    <3>1. ToldActive' = {NextVersion}
      BY <2>2, <2>3, OneMoreEvent
    <3>2. Active' = {NextVersion}
      BY <2>1, <2>3, InsertWrites DEF Active, DeactivatesOthers
    <3>3. QED
      BY <3>1, <3>2 DEF OutboxTellsActive
  <2>4. CASE ~activate
    <3>1. ToldActive' = ToldActive
      BY <2>2, <2>4, OneMoreEvent
    <3>2. Active' = Active
      BY <2>1, <2>2, <2>4, InsertWrites DEF Active
    <3>3. QED
      BY <2>2, <3>1, <3>2 DEF OutboxTellsActive
  <2>5. QED
    BY <2>3, <2>4
<1>2. CASE ActivateAsset(w)
  <2>1. /\ request[w].version \in Versions
        /\ CommitWithEvent(w, request[w].version, "activated")
    BY <1>2, ChangeWrites DEF ActivateAsset
  <2>2. ToldActive' = {request[w].version}
    BY <2>1, OneMoreEvent
  <2>3. Active' = {request[w].version}
    <3>1. ~ArchiveAsset(w)
      BY <1>2 DEF ActivateAsset, ArchiveAsset, At
    <3>2. /\ asset'[request[w].version].status = "active"
          /\ \A u \in Versions \ {request[w].version} : asset'[u].status # "active"
      BY <1>2, <3>1, ChangeWrites DEF DeactivatesOthers
    <3>3. QED
      BY <2>1, <3>2 DEF Active
  <2>4. QED
    BY <2>2, <2>3 DEF OutboxTellsActive
<1>3. CASE ArchiveAsset(w)
  <2>1. /\ request[w].version \in Versions /\ overwritten' = overwritten
        /\ CommitWithEvent(w, request[w].version, "archived")
    BY <1>3, ChangeWrites DEF ArchiveAsset
  <2>2. ToldActive' = ToldActive \ {request[w].version}
    BY <2>1, OneMoreEvent
  <2>3. Active' = Active \ {request[w].version}
    <3>1. ~ActivateAsset(w)
      BY <1>3 DEF ActivateAsset, ArchiveAsset, At
    <3>2. /\ asset'[request[w].version].status = "archived"
          /\ \A u \in Versions \ {request[w].version} : asset'[u] = asset[u]
      BY <1>3, <3>1, ChangeWrites
    <3>3. QED
      BY <2>1, <3>2 DEF Active
  <2>4. QED
    BY <2>1, <2>2, <2>3 DEF OutboxTellsActive
<1>4. CASE WriteLabelForm(w)
  <2>1. /\ request[w].version \in Versions /\ events' = events
        /\ overwritten' = (overwritten \/ asset' # asset)
    BY <1>4 DEF WriteLabelForm, At, ChangesOK, Existing
  <2>2. CASE asset' = asset
    <3>1. Active' = Active /\ ToldActive' = ToldActive
      BY <2>1, <2>2 DEF Active, ToldActive, EventsOf, StandsSince
    <3>2. QED
      BY <2>1, <2>2, <3>1 DEF OutboxTellsActive
  <2>3. CASE asset' # asset
    <3>1. /\ asset' = [asset EXCEPT ![request[w].version].status = request[w].result]
          /\ request[w].result = "active" => Active \ {request[w].version} = {}
      BY <1>4, <2>3 DEF WriteLabelForm
    <3>2. /\ asset'[request[w].version].status = request[w].result
          /\ \A u \in Versions \ {request[w].version} : asset'[u] = asset[u]
      BY <1>0, <2>1, <3>1 DEF Assets
    <3>3. \A u, v \in Active' : u = v
      BY <2>1, <3>1, <3>2 DEF OutboxTellsActive, Active
    <3>4. QED
      BY <2>1, <2>3, <3>3 DEF OutboxTellsActive
  <2>4. QED
    BY <2>2, <2>3
<1>5. CASE CommitOutcome(w) \/ RecordResult(w) \/ CommitRetry(w)
  <2>1. /\ request[w].event \in 1..Len(events) /\ request[w].result \in {"published", "failed"}
    BY <1>5 DEF CommitOutcome, RecordResult, CommitRetry, At, DeliveriesOK
  <2>2. \A v \in Versions : asset'[v].status = asset[v].status
    BY <1>5, <2>1, NoticeKeeps DEF CommitOutcome, RecordResult, CommitRetry
  <2>3. \/ UNCHANGED events
        \/ events' = [events EXCEPT ![request[w].event].status = request[w].result]
    BY <1>5 DEF CommitOutcome, RecordResult, CommitRetry
  <2>4. Len(events') = Len(events)
    BY <2>1, <2>3, StatusType
  <2>5. \A e \in 1..Len(events) : /\ events'[e].kind = events[e].kind
                                  /\ events'[e].version = events[e].version
    <3>1. CASE events' = [events EXCEPT ![request[w].event].status = request[w].result]
      <4>1. PICK x : x.kind = events[request[w].event].kind /\ x.version = events[request[w].event].version
                     /\ events' = [events EXCEPT ![request[w].event] = x]
        <5>1. events[request[w].event] \in Events
          BY <1>0, <2>1, EventsTyped
        <5>2. QED
          BY <3>1, <5>1 DEF Events
      <4>2. \A e \in 1..Len(events) :
              events'[e] = IF e = request[w].event THEN x ELSE events[e]
        BY <1>0, <4>1, EventsTyped
      <4>3. QED
        BY <4>1, <4>2
    <3>2. QED
      BY <2>3, <3>1
  <2>6. ToldActive' = ToldActive /\ Active' = Active
    BY <1>0, <2>2, <2>4, <2>5, SameTale DEF Active
  <2>7. overwritten' = overwritten
    BY <1>5 DEF CommitOutcome, RecordResult, CommitRetry
  <2>8. QED
    BY <2>6, <2>7 DEF OutboxTellsActive
<1>6. CASE UNCHANGED <<asset, events, overwritten>>
  <2>1. Active' = Active /\ ToldActive' = ToldActive
    BY <1>6 DEF Active, ToldActive, EventsOf, StandsSince
  <2>2. QED
    BY <1>6, <2>1 DEF OutboxTellsActive
<1>7. QED
  BY <1>1, <1>2, <1>3, <1>4, <1>5, <1>6
     DEF WorkerStep, Arrive, BeginUpload, BeginChange, Begin, BeginRetry, ReadLabelForm,
         Changing, LockFamily, SaveFile, FailUpload, Publishing, LockEvent, Send, SendFails,
         Crash, database

\* The inductive invariant: what is held, and what holds because of it.
THEOREM AssetsInvariant == Spec => []Inv
<1>1. Init => Inv
  <2> SUFFICES ASSUME Init PROVE Inv
    OBVIOUS
  <2>1. TypeOK
    <3>1. Absent \in Assets /\ Absent.status = "absent" /\ Absent.file = None /\ 0 \in 0..MaxSends
      BY BoundsAssumption DEF Absent, Assets
    <3>2. AssetsOK /\ RequestsOK
      BY <3>1, IdleType DEF Init, AssetsOK, RequestsOK
    <3>3. events \in Seq(Events) /\ sent \in [1..MaxEvents -> 0..MaxSends]
      BY <3>1 DEF Init
    <3>4. QED
      BY <3>2, <3>3 DEF Init, TypeOK, AssetsOK, RequestsOK, Assets, Events, Requests
  <2>2. Existing = {} /\ Active = {}
    BY DEF Init, Existing, Active, Absent
  <2>3. Len(events) = 0 /\ ToldActive = {} /\ OutboxFits
    BY BoundsAssumption DEF Init, ToldActive, EventsOf, OutboxFits
  <2>4. \A w \in Workers : request[w] = Idle
    BY DEF Init
  <2>5. FamilyOK /\ UploadsOK /\ ChangesOK /\ DeliveriesOK
    BY <2>4 DEF FamilyOK, HoldsFamily, UploadsOK, ChangesOK, DeliveriesOK, Idle
  <2>6. QED
    BY <2>1, <2>2, <2>3, <2>5 DEF Inv, FilesStored, OutboxTellsActive
<1>2. Inv /\ [Next]_vars => Inv'
  <2> SUFFICES ASSUME Inv, [Next]_vars PROVE Inv'
    OBVIOUS
  <2>1. TypeOK' /\ OutboxFits'
    BY TypeStep DEF Inv
  <2>2. CASE UNCHANGED vars
    BY <2>1, <2>2 DEF vars, database, locks, Inv, FamilyOK, HoldsFamily, UploadsOK, ChangesOK,
       DeliveriesOK, FilesStored, OutboxTellsActive, Existing, Active, ToldActive, EventsOf,
       StandsSince
  <2>3. ASSUME NEW w \in Workers, WorkerStep(w)
        PROVE  Inv'
    BY <2>1, <2>3, TypeSplit, FamilyStep, UploadsStep, ChangesStep, DeliveriesStep, FilesStep,
       OutboxStep DEF Inv
  <2>4. QED
    BY <2>2, <2>3 DEF Next, WorkerStep
<1>3. QED
  BY <1>1, <1>2, PTL DEF Spec

\* No version loses its file, whichever upload fails or dies.
THEOREM FilesAreStored == Spec => []FilesStored
  BY AssetsInvariant, PTL DEF Inv

\* One version is active, and the outbox tells which one.
THEOREM OutboxIsTrue == Spec => []OutboxTellsActive
  BY AssetsInvariant, PTL DEF Inv

\* An event recorded as published is not sent again: whoever sends it holds
\* its row, and looked at it under that lock.
THEOREM NothingIsResent == Spec => PublishedNotResent
<1>1. Inv /\ [Next]_vars =>
        [\A e \in 1..Len(events) : events[e].status = "published" => sent'[e] = sent[e]]_vars
  <2> SUFFICES ASSUME Inv, [Next]_vars, NEW e \in 1..Len(events),
                      events[e].status = "published", sent'[e] # sent[e]
               PROVE  FALSE
    OBVIOUS
  <2>1. PICK w \in Workers : Send(w) \/ SendFails(w)
    BY DEF Next, vars, database, Arrive, BeginUpload, BeginChange, Begin, BeginRetry,
       ReadLabelForm, Changing, LockFamily, SaveFile, InsertAsset, FailUpload, ActivateAsset,
       ArchiveAsset, WriteLabelForm, Publishing, LockEvent, CommitOutcome, RecordResult,
       CommitRetry, Crash
  <2>2. events[request[w].event].status # "published"
    BY <2>1 DEF Send, SendFails, Inv, DeliveriesOK
  <2>3. sent \in [1..MaxEvents -> 0..MaxSends]
    BY DEF Inv, TypeOK
  <2>4. sent'[e] = sent[e]
    <3>1. e \in 1..MaxEvents /\ e # request[w].event
      BY <2>2, EventsTyped, BoundsAssumption DEF Inv, OutboxFits
    <3>2. QED
      BY <2>1, <2>3, <3>1 DEF Send, SendFails
  <2>5. QED
    BY <2>4
<1>2. QED
  BY <1>1, AssetsInvariant, PTL DEF Spec, PublishedNotResent


=============================================================================
