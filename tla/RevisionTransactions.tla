------------------------ MODULE RevisionTransactions ------------------------
(***************************************************************************)
(* The services of ContractRevisions as the database runs them.            *)
(*                                                                         *)
(* Each request is a transaction of one web worker: it locks rows one at a *)
(* time (SELECT ... FOR UPDATE), checks what it reads, writes and commits. *)
(* PostgreSQL runs them READ COMMITTED: a statement sees what others have  *)
(* committed, a row locked by another transaction is waited for, and of    *)
(* two transactions waiting for each other one is rolled back.  A worker   *)
(* may die at any time; its transaction is then rolled back.               *)
(*                                                                         *)
(* The contract covers all Days from StartDate on; its dates are not moved *)
(* here, update_draft_contract_dates takes the contract row like approval. *)
(***************************************************************************)
EXTENDS Naturals, Sequences, FiniteSets

CONSTANTS
  Days, StartDate,  \* calendar dates, as day numbers, and Contract.start_date
  Revisions,        \* primary keys of revision rows
  Configs,          \* compositions of a draft
  Workers,          \* web workers, one request at a time each
  MaxPublications,  \* bound on the length of publications
  MaxDecisions,     \* bound on the length of log when a decision is asked for
  None              \* null

ASSUME StartAssumption ==
  Days \subseteq Nat /\ StartDate \in Days /\ \A d \in Days : StartDate <= d

ASSUME NoneAssumption == None \notin Configs \cup Revisions \cup Workers \cup Days

VARIABLES
  today,           \* timezone.localdate()
  contractStatus,  \* Contract.status
  revision,        \* the revision rows
  log,             \* ContractConfigurationRevisionStatusEvent rows, in order
  publications,    \* ContractPublication rows, by publication_version
  lock,            \* the transaction holding each row
  request          \* what each worker is doing

rows == <<contractStatus, revision, log, publications>>
vars == <<today, rows, lock, request>>

Rows == {"contract"} \cup Revisions

Absent == [status |-> "absent", validFrom |-> None, config |-> None, snapshot |-> None]
Idle == [op |-> "idle", step |-> "idle", rev |-> None, arg |-> None,
         seen |-> None, need |-> <<>>]

RevisionRows ==
  [status : {"absent", "draft", "approved", "withdrawn"},
   validFrom : Days \cup {None}, config : Configs \cup {None},
   snapshot : Configs \cup {None}]

TypeOK ==
  /\ today \in Days
  /\ contractStatus \in {"draft", "active"}
  /\ revision \in [Revisions -> RevisionRows]
  /\ log \in Seq([rev : Revisions, to : {"approved", "withdrawn"}])
  /\ publications \in Seq([rev : Revisions, snapshot : Configs \cup {None}])
  /\ lock \in [Rows -> Workers \cup {None}]
  /\ request \in [Workers ->
       [op : {"idle", "create", "edit", "delete", "approve", "withdraw",
              "publish", "form"},
        step : {"idle", "lock", "check", "write"},
        rev : Revisions \cup {None}, arg : Configs \cup Days \cup {None},
        seen : RevisionRows \cup Configs \cup Revisions \cup {None}, need : Seq(Rows)]]

-----------------------------------------------------------------------------
Status(r) == revision[r].status
Approved == {r \in Revisions : Status(r) = "approved"}

\* ORDER BY -valid_from LIMIT 1, of the approved revisions in S.
Latest(S) == {r \in S : \A q \in S : revision[q].validFrom <= revision[r].validFrom}
CurrentRevision == Latest({r \in Approved : revision[r].validFrom <= today})

Begin(w, op, step, r, arg, need) ==
  /\ request[w] = Idle
  /\ request' = [request EXCEPT ![w] =
       [op |-> op, step |-> step, rev |-> r, arg |-> arg, seen |-> None, need |-> need]]
  /\ UNCHANGED <<today, rows, lock>>

\* The request of w has its locks and is at this step of this operation.
At(w, op, step) ==
  request[w].op = op /\ request[w].step = step /\ request[w].need = <<>>

GoTo(w, step, seen, need) ==
  /\ request' = [request EXCEPT ![w].step = step, ![w].seen = seen, ![w].need = need]
  /\ UNCHANGED <<today, rows, lock>>

\* The transaction ends, with a commit of what the action writes or without.
Finish(w) ==
  /\ request' = [request EXCEPT ![w] = Idle]
  /\ lock' = [row \in Rows |-> IF lock[row] = w THEN None ELSE lock[row]]

\* An exception left the service: nothing is written.
Rollback(w) ==
  /\ Finish(w)
  /\ UNCHANGED <<today, rows>>

-----------------------------------------------------------------------------
Init ==
  /\ today = StartDate
  /\ contractStatus = "draft"
  /\ revision = [r \in Revisions |-> Absent]
  /\ log = <<>>
  /\ publications = <<>>
  /\ lock = [row \in Rows |-> None]
  /\ request = [w \in Workers |-> Idle]

NextDay ==
  /\ today + 1 \in Days
  /\ today' = today + 1
  /\ UNCHANGED <<rows, lock, request>>

\* SELECT ... FOR UPDATE of the next row, once its holder has committed.
AcquireRow(w) ==
  LET need == request[w].need IN
  /\ need # <<>>
  /\ lock[Head(need)] \in {None, w}
  /\ lock' = [lock EXCEPT ![Head(need)] = w]
  /\ request' = [request EXCEPT ![w].need = Tail(need)]
  /\ UNCHANGED <<today, rows>>

WaitsFor(w, v) == request[w].need # <<>> /\ lock[Head(request[w].need)] = v

\* PostgreSQL rolls back one of the transactions of a cycle of waits.
AbortDeadlock(w) ==
  /\ \E v \in Workers \ {w} : WaitsFor(w, v) /\ WaitsFor(v, w)
  /\ Rollback(w)

\* The worker is killed, or loses its connection.
Crash(w) ==
  /\ request[w] # Idle
  /\ Rollback(w)

-----------------------------------------------------------------------------
(* create_revision_draft: the contract row, then the insertion.            *)

BeginCreate(w, r, day) == Begin(w, "create", "write", r, day, <<"contract">>)

WriteCreate(w) ==
  LET r == request[w].rev IN
  /\ At(w, "create", "write")
  /\ Status(r) = "absent"
  /\ \E c \in Configs : revision' = [revision EXCEPT ![r] =
       [status |-> "draft", validFrom |-> request[w].arg, config |-> c, snapshot |-> None]]
  /\ Finish(w)
  /\ UNCHANGED <<today, contractStatus, log, publications>>

\* Another request took the number of the revision: the insertion fails.
RejectCreate(w) ==
  /\ At(w, "create", "write")
  /\ Status(request[w].rev) # "absent"
  /\ Rollback(w)

(* replace_draft_configuration and save_revision_indicator_values: one     *)
(* SELECT of the revision joined to its contract locks both, in this order. *)

BeginEdit(w, r, c) == Begin(w, "edit", "check", r, c, <<r, "contract">>)

Mut_CheckEdit(w) ==
  /\ At(w, "edit", "check")
  /\ IF Status(request[w].rev) # "absent"
       THEN GoTo(w, "write", None, <<>>) ELSE Rollback(w)

CheckEdit(w) ==
  /\ At(w, "edit", "check")
  /\ IF Status(request[w].rev) = "draft"
       THEN GoTo(w, "write", None, <<>>) ELSE Rollback(w)

WriteEdit(w) ==
  /\ At(w, "edit", "write")
  /\ revision' = [revision EXCEPT ![request[w].rev].config = request[w].arg]
  /\ Finish(w)
  /\ UNCHANGED <<today, contractStatus, log, publications>>

(* delete_revision_draft: the contract row, then the revision.             *)

BeginDelete(w, r) == Begin(w, "delete", "write", r, None, <<"contract", r>>)

Mut_WriteDelete(w) ==
  LET r == request[w].rev IN
  /\ At(w, "delete", "write")
  /\ revision' = [revision EXCEPT ![r] = Absent]
  /\ Finish(w)
  /\ UNCHANGED <<today, contractStatus, log, publications>>

WriteDelete(w) ==
  LET r == request[w].rev IN
  /\ At(w, "delete", "write")
  /\ IF Status(r) = "draft"
       THEN /\ revision' = [revision EXCEPT ![r] = Absent]
            /\ Finish(w)
            /\ UNCHANGED <<today, contractStatus, log, publications>>
       ELSE Rollback(w)

-----------------------------------------------------------------------------
(* approve_contract_revision: the contract row, the revision, the latest   *)
(* approved revision; then the checks, the snapshot, and the update.       *)

Mut_BeginApprove(w, r) ==
  /\ Len(log) < MaxDecisions
  /\ Begin(w, "approve", "lock", r, None, <<r>>)

BeginApprove(w, r) ==
  /\ Len(log) < MaxDecisions
  /\ Begin(w, "approve", "lock", r, None, <<"contract", r>>)

LockLatest(w) ==
  /\ At(w, "approve", "lock")
  /\ \/ Approved = {} /\ GoTo(w, "check", None, <<>>)
     \/ \E q \in Latest(Approved) : GoTo(w, "check", q, <<q>>)

ApprovableFrom(r) ==
  /\ Status(r) = "draft"
  /\ revision[r].validFrom >= today
  /\ Approved = {} => revision[r].validFrom = StartDate
  /\ \A q \in Approved : revision[r].validFrom > revision[q].validFrom

\* The date is compared, and the snapshot built, before the update.
CheckApprove(w) ==
  /\ At(w, "approve", "check")
  /\ IF ApprovableFrom(request[w].rev)
       THEN GoTo(w, "write", revision[request[w].rev].config, <<>>) ELSE Rollback(w)

Decide(r, to) == log' = Append(log, [rev |-> r, to |-> to])

\* unique_approved_contract_revision_date
DateTaken(r, day) == \E q \in Approved \ {r} : revision[q].validFrom = day

WriteApprove(w) ==
  LET r == request[w].rev IN
  /\ At(w, "approve", "write")
  /\ IF DateTaken(r, revision[r].validFrom) THEN Rollback(w)
     ELSE /\ revision' = [revision EXCEPT ![r].status = "approved",
                                          ![r].snapshot = request[w].seen]
          /\ Decide(r, "approved")
          /\ Finish(w)
          /\ UNCHANGED <<today, contractStatus, publications>>

(* withdraw_contract_revision: the contract row, then the revision.        *)

Mut_BeginWithdraw(w, r) ==
  /\ Len(log) < MaxDecisions
  /\ Begin(w, "withdraw", "check", r, None, <<r, "contract">>)

BeginWithdraw(w, r) ==
  /\ Len(log) < MaxDecisions
  /\ Begin(w, "withdraw", "check", r, None, <<"contract", r>>)

Mut_CheckWithdraw(w) ==
  LET r == request[w].rev IN
  /\ At(w, "withdraw", "check")
  /\ IF Status(r) \in {"draft", "approved"} /\ revision[r].validFrom >= today
       THEN GoTo(w, "write", None, <<>>) ELSE Rollback(w)

CheckWithdraw(w) ==
  LET r == request[w].rev IN
  /\ At(w, "withdraw", "check")
  /\ IF Status(r) \in {"draft", "approved"} /\ revision[r].validFrom > today
       THEN GoTo(w, "write", None, <<>>) ELSE Rollback(w)

WriteWithdraw(w) ==
  LET r == request[w].rev IN
  /\ At(w, "withdraw", "write")
  /\ revision' = [revision EXCEPT ![r].status = "withdrawn"]
  /\ Decide(r, "withdrawn")
  /\ Finish(w)
  /\ UNCHANGED <<today, contractStatus, publications>>

(* publish_contract: the contract row, then the revision in force.         *)

BeginPublish(w) ==
  /\ Len(publications) < MaxPublications
  /\ Begin(w, "publish", "lock", None, None, <<"contract">>)

LockCurrent(w) ==
  /\ At(w, "publish", "lock")
  /\ \/ CurrentRevision = {} /\ Rollback(w)
     \/ \E r \in CurrentRevision : GoTo(w, "write", r, <<r>>)

WritePublish(w) ==
  LET r == request[w].seen IN
  /\ At(w, "publish", "write")
  /\ IF Status(r) = "approved" /\ Len(publications) < MaxPublications
       THEN /\ publications' =
                 Append(publications, [rev |-> r, snapshot |-> revision[r].snapshot])
            /\ contractStatus' = "active"
            /\ Finish(w)
            /\ UNCHANGED <<today, revision, log>>
       ELSE Rollback(w)

-----------------------------------------------------------------------------
(* The revision form of the administration site: the row is read, checked  *)
(* and written back whole; nothing is locked before the UPDATE.            *)

BeginForm(w, r, day) == Begin(w, "form", "lock", r, day, <<>>)

\* The object the form edits.
ReadForm(w) ==
  LET r == request[w].rev IN
  /\ At(w, "form", "lock")
  /\ IF Status(r) # "absent"
       THEN GoTo(w, "check", revision[r], <<>>) ELSE Rollback(w)

\* ContractConfigurationRevision.clean compares with the row as it is now.
CheckForm(w) ==
  LET r == request[w].rev IN
  /\ At(w, "form", "check")
  /\ IF Status(r) = request[w].seen.status
       THEN GoTo(w, "write", request[w].seen, <<r>>) ELSE Rollback(w)

\* UPDATE of every column with what was read, the date with what was typed:
\* it is read-only once the revision is decided.  The composition is in other
\* tables.
WriteForm(w) ==
  LET r == request[w].rev
      day == IF request[w].seen.status = "draft" THEN request[w].arg
             ELSE request[w].seen.validFrom
  IN
  /\ At(w, "form", "write")
  /\ IF Status(r) = "absent" \/ (request[w].seen.status = "approved" /\ DateTaken(r, day))
     THEN Rollback(w)
     ELSE /\ revision' = [revision EXCEPT ![r] =
               [request[w].seen EXCEPT !.validFrom = day, !.config = revision[r].config]]
          /\ Finish(w)
          /\ UNCHANGED <<today, contractStatus, log, publications>>

-----------------------------------------------------------------------------
\* The steps of a request under way, up to its commit or its rollback.
Run(w) ==
  \/ AcquireRow(w) \/ AbortDeadlock(w)
  \/ WriteCreate(w) \/ RejectCreate(w)
  \/ CheckEdit(w) \/ WriteEdit(w)
  \/ WriteDelete(w)
  \/ LockLatest(w) \/ CheckApprove(w) \/ WriteApprove(w)
  \/ CheckWithdraw(w) \/ WriteWithdraw(w)
  \/ LockCurrent(w) \/ WritePublish(w)

RunForm(w) == ReadForm(w) \/ CheckForm(w) \/ WriteForm(w)

Arrive(w) ==
  \/ \E r \in Revisions, day \in Days : BeginCreate(w, r, day)
  \/ \E r \in Revisions, c \in Configs : BeginEdit(w, r, c)
  \/ \E r \in Revisions : BeginDelete(w, r)
  \/ \E r \in Revisions : BeginApprove(w, r)
  \/ \E r \in Revisions : BeginWithdraw(w, r)
  \/ BeginPublish(w)

Next == NextDay \/ \E w \in Workers : Arrive(w) \/ Run(w) \/ Crash(w)

Spec == Init /\ [][Next]_vars

ArriveForm(w) == \E r \in Revisions, day \in Days : BeginForm(w, r, day)

FormSpec ==
  Init /\ [][Next \/ \E w \in Workers : ArriveForm(w) \/ RunForm(w)]_vars

-----------------------------------------------------------------------------
(* Properties.                                                             *)

\* The audit log tells the status of every revision, in whatever order
\* concurrent requests lock, check, write, wait and die
\* (approve_contract_revision, withdraw_contract_revision).
LogTellsStatus ==
  \A r \in Revisions :
    LET decisions == {i \in 1..Len(log) : log[i].rev = r}
    IN  IF decisions = {} THEN Status(r) \in {"absent", "draft"}
        ELSE \E i \in decisions : /\ \A j \in decisions : j <= i
                                  /\ Status(r) = log[i].to

\* The revisions in force were approved in the order they start: concurrent
\* approvals never insert a revision before one already approved.
ApprovedInOrder ==
  \A i, j \in 1..Len(log) :
    /\ i < j
    /\ log[i].to = "approved" /\ log[i].rev \in Approved
    /\ log[j].to = "approved" /\ log[j].rev \in Approved
    => revision[log[i].rev].validFrom < revision[log[j].rev].validFrom

\* The composition of an approved revision is the one its snapshot froze,
\* even with edits under way when it was approved
\* (replace_draft_configuration, save_revision_indicator_values).
ApprovedAsFrozen ==
  \A r \in Approved : revision[r].snapshot = revision[r].config

\* What was published is still approved, with the snapshot that was copied
\* (publish_contract against withdraw_contract_revision).
PublicationsStand ==
  \A i \in 1..Len(publications) :
    LET p == publications[i] IN
    Status(p.rev) = "approved" /\ p.snapshot = revision[p.rev].snapshot

\* Two requests wait for each other only if one is an edit: the others take
\* the contract first, an edit takes the revision first
\* (replace_draft_configuration, save_revision_indicator_values).
OnlyEditsDeadlock ==
  \A w, v \in Workers :
    w # v /\ WaitsFor(w, v) /\ WaitsFor(v, w) => "edit" \in {request[w].op, request[v].op}

\* A decided revision is neither edited nor deleted, nor is it ever a draft
\* again: "Una revisione approvata o ritirata non puo' essere modificata o
\* cancellata." (ContractConfigurationRevision.save, approve_contract_revision)
DecidedIsFinal ==
  [][\A r \in Revisions :
       Status(r) \in {"approved", "withdrawn"} =>
         /\ revision'[r].status \in {"approved", "withdrawn"}
         /\ revision'[r] = [revision[r] EXCEPT !.status = revision'[r].status]]_vars

=============================================================================
