------------------------- MODULE ConfigurationAssets -------------------------
(***************************************************************************)
(* The versions of one technical asset (an XSD, a bundle, a manual): their *)
(* files in the object storage, which version is active, and the outbox    *)
(* that tells the message broker.                                          *)
(*                                                                         *)
(* Each request is a web worker or the retry command.  Uploads, activation *)
(* and archiving serialise on the advisory lock of the family (asset_type, *)
(* what); the event they commit is published after the commit, in a        *)
(* transaction of its own that holds the row of the event.  A worker may   *)
(* die between any two steps; the storage and the broker may refuse.       *)
(*                                                                         *)
(* The notification is on (CONFIG_ASSETS_RABBITMQ_ENABLED).                *)
(***************************************************************************)
EXTENDS Naturals, Sequences, FiniteSetsExt

CONSTANTS
  Workers,
  Objects,      \* keys of stored files (uuid4)
  MaxVersion,   \* bound on uploads that commit
  MaxEvents,    \* bound on the outbox
  MaxSends,     \* bound on the deliveries of an event
  None

ASSUME BoundsAssumption ==
  MaxVersion \in Nat /\ MaxEvents \in Nat /\ MaxSends \in Nat /\ None \notin Workers \cup Objects

VARIABLES
  asset,      \* ConfigurationAsset rows, by version
  events,     \* ConfigurationAssetEvent rows, by primary key
  sent,       \* how often each event reached the broker
  files,      \* objects in the storage
  family,     \* holder of the advisory lock of the family
  eventLock,  \* holder of each event row
  request,    \* what each worker is doing
  overwritten \* whether a stale label form has changed a status

database == <<asset, events>>
locks == <<family, eventLock>>
vars == <<database, sent, files, locks, request, overwritten>>

Versions == 1..MaxVersion
Absent == [status |-> "absent", file |-> None, notice |-> "none"]
Idle == [op |-> "idle", step |-> "idle", version |-> 0, file |-> None,
         event |-> 0, result |-> "none"]

TypeOK ==
  /\ asset \in [Versions -> [status : {"absent", "stored", "active", "archived"},
                             file : Objects \cup {None},
                             notice : {"none", "published", "failed"}]]
  /\ \A v \in Versions : (asset[v].status = "absent") <=> (asset[v].file = None)
  /\ events \in Seq([version : Versions, kind : {"created", "activated", "archived"},
                     status : {"pending", "published", "failed"}])
  /\ overwritten \in BOOLEAN
  /\ sent \in [1..MaxEvents -> 0..MaxSends]
  /\ files \subseteq Objects
  /\ family \in Workers \cup {None}
  /\ eventLock \in [1..MaxEvents -> Workers \cup {None}]
  /\ request \in [Workers ->
       [op : {"idle", "upload", "activated", "archived", "retry", "label"},
        step : {"idle", "lock", "save", "write", "publish", "send", "confirm", "record"},
        version : 0..MaxVersion, file : Objects \cup {None}, event : 0..MaxEvents,
        result : {"none", "published", "failed", "stored", "active", "archived"}]]

-----------------------------------------------------------------------------
Existing == {v \in Versions : asset[v].status # "absent"}
Active == {v \in Versions : asset[v].status = "active"}

\* _next_asset_version
NextVersion == Max({0} \cup Existing) + 1

EventsOf(v) == {e \in 1..Len(events) : events[e].version = v}

At(w, op, step) == request[w].op = op /\ request[w].step = step

Begin(w, op, step, v) ==
  /\ request[w] = Idle
  /\ request' = [request EXCEPT ![w] = [Idle EXCEPT !.op = op, !.step = step, !.version = v]]
  /\ UNCHANGED <<database, sent, files, locks, overwritten>>

\* The transaction of w ends.
ReleaseLocks(w) ==
  /\ family' = IF family = w THEN None ELSE family
  /\ eventLock' = [e \in 1..MaxEvents |-> IF eventLock[e] = w THEN None ELSE eventLock[e]]

Finish(w) == ReleaseLocks(w) /\ request' = [request EXCEPT ![w] = Idle]

\* create_asset_event, in the transaction that changes the asset; the commit
\* releases the family, and the same worker then publishes the event.
CommitWithEvent(w, v, kind) ==
  /\ events' = Append(events, [version |-> v, kind |-> kind, status |-> "pending"])
  /\ ReleaseLocks(w)
  /\ request' = [request EXCEPT ![w].step = "publish", ![w].version = v,
                                ![w].event = Len(events) + 1]

Init ==
  /\ asset = [v \in Versions |-> Absent]
  /\ events = <<>>
  /\ sent = [e \in 1..MaxEvents |-> 0]
  /\ files = {}
  /\ family = None
  /\ eventLock = [e \in 1..MaxEvents |-> None]
  /\ request = [w \in Workers |-> Idle]
  /\ overwritten = FALSE

-----------------------------------------------------------------------------
(* store_configuration_asset                                               *)

BeginUpload(w) == Len(events) < MaxEvents /\ Begin(w, "upload", "lock", 0)

\* _lock_asset_family: pg_advisory_xact_lock waits for its holder to commit.
LockFamily(w) ==
  /\ request[w].step = "lock"
  /\ family = None
  /\ family' = w
  /\ request' = [request EXCEPT
       ![w].step = IF request[w].op = "upload" THEN "save" ELSE "write"]
  /\ UNCHANGED <<database, sent, files, eventLock, overwritten>>

\* The file is stored under a new key before the row is written.
Unused == Objects \ (files \cup {asset[v].file : v \in Versions})

SaveFile(w) ==
  LET o == CHOOSE o \in Unused : TRUE IN
  /\ At(w, "upload", "save")
  /\ Unused # {}
  /\ files' = files \cup {o}
  /\ request' = [request EXCEPT ![w].step = "write", ![w].file = o]
  /\ UNCHANGED <<database, sent, locks, overwritten>>

\* The active version gives way to version v.
Deactivated(v) ==
  [u \in Versions |-> IF u # v /\ u \in Active
                      THEN [asset[u] EXCEPT !.status = "archived"] ELSE asset[u]]

InsertAsset(w, activate) ==
  LET v == NextVersion IN
  /\ At(w, "upload", "write")
  /\ v \in Versions /\ Len(events) < MaxEvents
  /\ asset' = [IF activate THEN Deactivated(v) ELSE asset EXCEPT
       ![v] = [Absent EXCEPT !.status = IF activate THEN "active" ELSE "stored",
                             !.file = request[w].file]]
  /\ CommitWithEvent(w, v, IF activate THEN "activated" ELSE "created")
  /\ UNCHANGED <<sent, files, overwritten>>

\* The storage or the database refuses: the transaction is rolled back and
\* the new file is removed, unless the storage refuses that too.
Mut_RemovesFileAnyway(w) ==
  /\ request[w].op = "upload" /\ request[w].step \in {"save", "write", "publish"}
  /\ files' = files \ {request[w].file}
  /\ Finish(w)
  /\ UNCHANGED <<database, sent, overwritten>>

FailUpload(w) ==
  /\ request[w].op = "upload" /\ request[w].step \in {"save", "write"}
  /\ \/ files' = files \ {request[w].file}
     \/ UNCHANGED files
  /\ Finish(w)
  /\ UNCHANGED <<database, sent, overwritten>>

-----------------------------------------------------------------------------
(* activate_configuration_asset, archive_configuration_asset.  The row is  *)
(* read again and written under the lock of the family, as one step: of    *)
(* its columns only publish_status may change in between.                  *)

BeginChange(w, op, v) ==
  /\ Len(events) < MaxEvents
  /\ v \in Existing
  /\ Begin(w, op, "lock", v)

Mut_KeepsFormerActive(w) ==
  LET v == request[w].version IN
  /\ At(w, "activated", "write")
  /\ Len(events) < MaxEvents
  /\ asset' = [asset EXCEPT ![v].status = "active"]
  /\ CommitWithEvent(w, v, "activated")
  /\ UNCHANGED <<sent, files, overwritten>>

ActivateAsset(w) ==
  LET v == request[w].version IN
  /\ At(w, "activated", "write")
  /\ Len(events) < MaxEvents
  /\ asset' = [Deactivated(v) EXCEPT ![v].status = "active"]
  /\ CommitWithEvent(w, v, "activated")
  /\ UNCHANGED <<sent, files, overwritten>>

ArchiveAsset(w) ==
  LET v == request[w].version IN
  /\ At(w, "archived", "write")
  /\ Len(events) < MaxEvents
  /\ asset' = [asset EXCEPT ![v].status = "archived"]
  /\ CommitWithEvent(w, v, "archived")
  /\ UNCHANGED <<sent, files, overwritten>>

-----------------------------------------------------------------------------
(* publish_asset_event                                                     *)

\* The row of the event is locked and read again.
Mut_SendsWithoutLooking(w) ==
  LET e == request[w].event IN
  /\ request[w].step = "publish"
  /\ eventLock[e] = None
  /\ eventLock' = [eventLock EXCEPT ![e] = w]
  /\ request' = [request EXCEPT ![w].step = "send"]
  /\ UNCHANGED <<database, sent, files, family, overwritten>>

LockEvent(w) ==
  LET e == request[w].event IN
  /\ request[w].step = "publish"
  /\ eventLock[e] = None
  /\ IF events[e].status = "published"
       THEN /\ request' = [request EXCEPT ![w].step = "record", ![w].result = "published"]
            /\ UNCHANGED eventLock
       ELSE /\ request' = [request EXCEPT ![w].step = "send"]
            /\ eventLock' = [eventLock EXCEPT ![e] = w]
  /\ UNCHANGED <<database, sent, files, family, overwritten>>

Answered(w, result) ==
  request' = [request EXCEPT ![w].step = "confirm", ![w].result = result]

\* The broker takes the message.
Send(w) ==
  LET e == request[w].event IN
  /\ request[w].step = "send"
  /\ sent[e] < MaxSends
  /\ sent' = [sent EXCEPT ![e] = @ + 1]
  /\ Answered(w, "published")
  /\ UNCHANGED <<database, files, locks, overwritten>>

\* An exception: the broker did not take the message, or did and its answer
\* was lost.
SendFails(w) ==
  LET e == request[w].event IN
  /\ request[w].step = "send"
  /\ \/ UNCHANGED sent
     \/ sent[e] < MaxSends /\ sent' = [sent EXCEPT ![e] = @ + 1]
  /\ Answered(w, "failed")
  /\ UNCHANGED <<database, files, locks, overwritten>>

\* The outcome is committed with the row of the event.
CommitOutcome(w) ==
  LET e == request[w].event IN
  /\ request[w].step = "confirm" /\ request[w].op # "retry"
  /\ events' = [events EXCEPT ![e].status = request[w].result]
  /\ eventLock' = [eventLock EXCEPT ![e] = None]
  /\ request' = [request EXCEPT ![w].step = "record"]
  /\ UNCHANGED <<asset, sent, files, family, overwritten>>

\* _record_asset_event_result: the row of the asset is locked, and written
\* when the event is the last of the asset.
Noticed(e, result) ==
  LET v == events[e].version IN
  IF e = Max(EventsOf(v)) THEN [asset EXCEPT ![v].notice = result] ELSE asset

RecordResult(w) ==
  /\ request[w].step = "record"
  /\ asset' = Noticed(request[w].event, request[w].result)
  /\ Finish(w)
  /\ UNCHANGED <<events, sent, files, overwritten>>

(* retry_asset_event, from the command or from the administration site     *)

\* A locked row is skipped, and so is a published event.
Mut_RetriesPendingOnly(w, e) ==
  /\ request[w] = Idle
  /\ e \in 1..Len(events) /\ eventLock[e] = None
  /\ events[e].status = "pending"
  /\ eventLock' = [eventLock EXCEPT ![e] = w]
  /\ request' = [request EXCEPT ![w] =
       [Idle EXCEPT !.op = "retry", !.step = "send", !.event = e]]
  /\ UNCHANGED <<database, sent, files, family, overwritten>>

BeginRetry(w, e) ==
  /\ request[w] = Idle
  /\ e \in 1..Len(events) /\ eventLock[e] = None
  /\ events[e].status \in {"pending", "failed"}
  /\ eventLock' = [eventLock EXCEPT ![e] = w]
  /\ request' = [request EXCEPT ![w] =
       [Idle EXCEPT !.op = "retry", !.step = "send", !.event = e]]
  /\ UNCHANGED <<database, sent, files, family, overwritten>>

\* The outcome and the notice are one transaction.
CommitRetry(w) ==
  LET e == request[w].event IN
  /\ At(w, "retry", "confirm")
  /\ events' = [events EXCEPT ![e].status = request[w].result]
  /\ asset' = Noticed(e, request[w].result)
  /\ Finish(w)
  /\ UNCHANGED <<sent, files, overwritten>>

-----------------------------------------------------------------------------
(* The label form of the administration site writes the whole row back:    *)
(* the status is read-only in the form, and written as it was read.        *)

ReadLabelForm(w, v) ==
  /\ request[w] = Idle
  /\ v \in Existing
  /\ request' = [request EXCEPT ![w] =
       [Idle EXCEPT !.op = "label", !.step = "write", !.version = v,
                    !.result = asset[v].status]]
  /\ UNCHANGED <<database, sent, files, locks, overwritten>>

\* uniq_active_config_asset_type_what refuses a second active version.
WriteLabelForm(w) ==
  LET v == request[w].version IN
  /\ At(w, "label", "write")
  /\ asset' = IF request[w].result = "active" /\ Active \ {v} # {} THEN asset
              ELSE [asset EXCEPT ![v].status = request[w].result]
  /\ overwritten' = (overwritten \/ asset' # asset)
  /\ Finish(w)
  /\ UNCHANGED <<events, sent, files>>

-----------------------------------------------------------------------------
\* The worker is killed: its transaction is rolled back.
Crash(w) ==
  /\ request[w] # Idle
  /\ Finish(w)
  /\ UNCHANGED <<database, sent, files, overwritten>>

Publishing(w) ==
  LockEvent(w) \/ Send(w) \/ SendFails(w) \/ CommitOutcome(w) \/ RecordResult(w) \/ CommitRetry(w)

Changing(w) ==
  \/ LockFamily(w)
  \/ SaveFile(w)
  \/ \E activate \in BOOLEAN : InsertAsset(w, activate)
  \/ FailUpload(w)
  \/ ActivateAsset(w) \/ ArchiveAsset(w) \/ WriteLabelForm(w)

Arrive(w) ==
  \/ BeginUpload(w)
  \/ \E v \in Versions, op \in {"activated", "archived"} : BeginChange(w, op, v)
  \/ \E e \in 1..MaxEvents : BeginRetry(w, e)
  \/ \E v \in Versions : ReadLabelForm(w, v)

Next == \E w \in Workers : Arrive(w) \/ Changing(w) \/ Publishing(w) \/ Crash(w)

Spec == Init /\ [][Next]_vars

\* Requests proceed, an operator keeps running retry_config_asset_events, and
\* a broker that is asked again and again takes the message in the end.
FairSpec ==
  /\ Spec
  /\ \A w \in Workers : WF_vars(Publishing(w)) /\ WF_vars(Changing(w)) /\ SF_vars(Send(w))
  /\ \A e \in 1..MaxEvents : SF_vars(\E w \in Workers : BeginRetry(w, e))

-----------------------------------------------------------------------------
(* Properties.                                                             *)

\* The file of every version is in the storage: neither a failed upload nor
\* one that dies half way takes the file of another
\* (store_configuration_asset, load_configuration_asset_content).
FilesStored == \A v \in Existing : asset[v].file \in files

\* Whoever applies the events of the outbox in their order knows which version
\* is active, one version at most whoever uploads, activates or edits at the
\* same time (_lock_asset_family): no change commits without its event, and no
\* event is committed for a change that is rolled back (create_asset_event).
\* Only a label form left open while the status changed breaks the tale, and
\* even that leaves one active version.
StandsSince(v, e) ==
  \A f \in e + 1 .. Len(events) :
    events[f].kind # "activated" /\ (events[f].version = v => events[f].kind # "archived")

ToldActive ==
  {v \in Versions :
     \E e \in EventsOf(v) : events[e].kind = "activated" /\ StandsSince(v, e)}

OutboxTellsActive ==
  /\ \A u, v \in Active : u = v
  /\ ~overwritten => ToldActive = Active

\* "Serialize explicit retries and never replay an already published event."
\* (retry_asset_event, publish_asset_event)
PublishedNotResent ==
  [][\A e \in 1..Len(events) : events[e].status = "published" => sent'[e] = sent[e]]_vars

\* Every event reaches the broker in the end, in spite of workers that die
\* between the commit and the publication (retry_pending_asset_events).
EveryEventSent == \A e \in 1..MaxEvents : (e <= Len(events)) ~> (sent[e] > 0)

=============================================================================
