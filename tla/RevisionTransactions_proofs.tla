--------------------- MODULE RevisionTransactions_proofs ---------------------
(***************************************************************************)
(* Theorems about RevisionTransactions, for any number of workers, of      *)
(* revisions and of days, and any interleaving of their statements.        *)
(*                                                                         *)
(* The safety of the services rests on who holds which row: a request that *)
(* is past its locks owns the contract row, and the row of its revision,   *)
(* until it ends, so what it checked still holds when it writes.           *)
(***************************************************************************)
EXTENDS RevisionTransactions, TLAPS

\* The requests of the services; the form of the administration site locks
\* nothing and is no part of Spec.
ContractFirst == {"create", "delete", "approve", "withdraw", "publish"}

\* The steps of each operation and the rows it has still to lock at each.
ContractThen(r) == {<<"contract", r>>, <<r>>, <<>>}

Plan(q) ==
  /\ q.op \in ContractFirst \cup {"idle", "edit"}
  /\ q.op = "idle" => q.need = <<>>
  /\ q.op = "create" => /\ q.rev \in Revisions /\ q.arg \in Days
                        /\ q.need \in {<<"contract">>, <<>>}
  /\ q.op = "edit" => /\ q.rev \in Revisions /\ q.arg \in Configs
                      /\ q.need \in {<<q.rev, "contract">>, <<"contract">>, <<>>}
                      /\ q.step = "write" => q.need = <<>>
  /\ q.op = "delete" => q.rev \in Revisions /\ q.need \in ContractThen(q.rev)
  /\ q.op = "withdraw" => /\ q.rev \in Revisions /\ q.need \in ContractThen(q.rev)
                          /\ q.step = "write" => q.need = <<>>
  /\ q.op = "approve" =>
       /\ q.rev \in Revisions
       /\ q.step = "lock" => q.need \in ContractThen(q.rev)
       /\ q.step = "check" => q.need = <<>> \/ \E p \in Revisions : q.need = <<p>>
       /\ q.step = "write" => q.need = <<>>
  /\ q.op = "publish" =>
       /\ q.step = "lock" => q.need \in {<<"contract">>, <<>>}
       /\ q.step # "lock" => q.seen \in Revisions /\ q.need \in {<<q.seen>>, <<>>}

\* The rows a worker holds at each step of its request q.
HoldsNothing(w) == \A row \in Rows : lock[row] # w
BeforeContract(q) == q.need \in {<<"contract">>, <<"contract", q.rev>>}

Owns(w, q) ==
  /\ q.op = "idle" => HoldsNothing(w)
  /\ q.op \in ContractFirst =>
       lock["contract"] = w \/ (BeforeContract(q) /\ HoldsNothing(w))
  /\ q.op = "edit" => /\ q.need \in {<<"contract">>, <<>>} => lock[q.rev] = w
                      /\ q.need = <<>> => lock["contract"] = w
  /\ q.op \in {"delete", "withdraw", "approve"} /\ q.need = <<>> => lock[q.rev] = w
  /\ q.op = "approve" /\ q.step # "lock" => lock["contract"] = w /\ lock[q.rev] = w
  /\ q.op = "publish" /\ q.step # "lock" => lock["contract"] = w

\* What a request that is about to write has checked.
Checked(q) ==
  q.step = "write" =>
  /\ q.op = "edit" => Status(q.rev) = "draft"
  /\ q.op = "approve" =>
       /\ Status(q.rev) = "draft"
       /\ q.seen = revision[q.rev].config
       /\ \A p \in Approved : revision[p].validFrom < revision[q.rev].validFrom
  /\ q.op = "withdraw" =>
       /\ Status(q.rev) \in {"draft", "approved"}
       /\ \A i \in 1..Len(publications) : publications[i].rev # q.rev
  /\ q.op = "publish" => Status(q.seen) = "approved" /\ revision[q.seen].validFrom <= today

\* A revision has a date and a composition, and what was published has started.
RowsOK ==
  /\ \A r \in Revisions :
       Status(r) # "absent" => revision[r].validFrom \in Days /\ revision[r].config \in Configs
  /\ \A i \in 1..Len(publications) : revision[publications[i].rev].validFrom <= today

RequestsOK == \A w \in Workers : Plan(request[w]) /\ Owns(w, request[w])
ChecksHold == \A w \in Workers : Checked(request[w])

Inv ==
  /\ TypeOK
  /\ RequestsOK
  /\ ChecksHold
  /\ RowsOK
  /\ ApprovedAsFrozen
  /\ PublicationsStand
  /\ LogTellsStatus
  /\ ApprovedInOrder

-----------------------------------------------------------------------------
(***************************************************************************)
(* Type correctness.  A worker's step touches its own request in one of    *)
(* four ways; each keeps the request and the locks of the right type.      *)
(***************************************************************************)
Requests ==
  [op : {"idle", "create", "edit", "delete", "approve", "withdraw", "publish", "form"},
   step : {"idle", "lock", "check", "write"},
   rev : Revisions \cup {None}, arg : Configs \cup Days \cup {None},
   seen : RevisionRows \cup Configs \cup Revisions \cup {None}, need : Seq(Rows)]

RequestsTyped == request \in [Workers -> Requests] /\ lock \in [Rows -> Workers \cup {None}]

LEMMA BeginType ==
  ASSUME RequestsTyped, NEW w \in Workers,
         NEW op \in {"create", "edit", "delete", "approve", "withdraw", "publish"},
         NEW step \in {"lock", "check", "write"}, NEW r \in Revisions \cup {None},
         NEW arg \in Configs \cup Days \cup {None}, NEW need \in Seq(Rows),
         Begin(w, op, step, r, arg, need)
  PROVE  RequestsTyped'
<1>1. [op |-> op, step |-> step, rev |-> r, arg |-> arg, seen |-> None, need |-> need]
         \in Requests
  BY DEF Requests
<1>2. QED
  BY <1>1 DEF RequestsTyped, Begin

LEMMA GoToType ==
  ASSUME RequestsTyped, NEW w \in Workers, NEW step \in {"check", "write"},
         NEW seen \in RevisionRows \cup Configs \cup Revisions \cup {None},
         NEW need \in Seq(Rows), GoTo(w, step, seen, need)
  PROVE  RequestsTyped'
<1>1. [request[w] EXCEPT !.step = step, !.seen = seen, !.need = need] \in Requests
  BY DEF RequestsTyped, Requests
<1>2. request' = [request EXCEPT ![w] =
                    [request[w] EXCEPT !.step = step, !.seen = seen, !.need = need]]
  BY DEF RequestsTyped, Requests, GoTo
<1>3. QED
  BY <1>1, <1>2 DEF RequestsTyped, GoTo

LEMMA AcquireType ==
  ASSUME RequestsTyped, NEW w \in Workers, AcquireRow(w)
  PROVE  RequestsTyped'
<1>1. request[w].need \in Seq(Rows) /\ request[w].need # <<>>
  BY DEF RequestsTyped, Requests, AcquireRow
<1>2. Tail(request[w].need) \in Seq(Rows)
  BY <1>1
<1>3. [request[w] EXCEPT !.need = Tail(request[w].need)] \in Requests
  BY <1>2 DEF RequestsTyped, Requests
<1>4. request' = [request EXCEPT ![w] = [request[w] EXCEPT !.need = Tail(request[w].need)]]
  BY DEF RequestsTyped, Requests, AcquireRow
<1>5. QED
  BY <1>3, <1>4 DEF RequestsTyped, AcquireRow

LEMMA FinishType ==
  ASSUME RequestsTyped, NEW w \in Workers, Finish(w)
  PROVE  RequestsTyped'
<1>1. Idle \in Requests
  BY DEF Idle, Requests
<1>2. QED
  BY <1>1 DEF RequestsTyped, Finish

-----------------------------------------------------------------------------
(***************************************************************************)
(* The plan of every request and the rows it owns.  The step of a worker   *)
(* leaves the requests and the locks of the others alone.                  *)
(***************************************************************************)
LEMMA Undisturbed ==
  ASSUME NEW v \in Workers, NEW q, Plan(q), Owns(v, q),
         \A row \in Rows : lock'[row] = v <=> lock[row] = v
  PROVE  Owns(v, q)'
  BY DEF Plan, Owns, HoldsNothing, BeforeContract, Rows, ContractFirst

LEMMA BeginFrame ==
  ASSUME RequestsTyped, NEW w \in Workers, Owns(w, request[w]),
         NEW op, NEW step, NEW r, NEW arg, NEW need, Begin(w, op, step, r, arg, need)
  PROVE  /\ request'[w] = [op |-> op, step |-> step, rev |-> r, arg |-> arg,
                           seen |-> None, need |-> need]
         /\ \A v \in Workers \ {w} : request'[v] = request[v]
         /\ lock' = lock
         /\ HoldsNothing(w)
<1>1. request[w].op = "idle"
  BY DEF Begin, Idle
<1>2. QED
  BY <1>1 DEF RequestsTyped, Begin, Owns

LEMMA BeginFields ==
  ASSUME RequestsTyped, NEW w \in Workers, Owns(w, request[w]),
         NEW op, NEW step, NEW r, NEW arg, NEW need, Begin(w, op, step, r, arg, need)
  PROVE  request'[w].op = op /\ request'[w].step = step
<1>1. request'[w] = [op |-> op, step |-> step, rev |-> r, arg |-> arg,
                     seen |-> None, need |-> need]
  BY BeginFrame
<1>2. QED
  BY <1>1

LEMMA GoToFrame ==
  ASSUME RequestsTyped, NEW w \in Workers,
         NEW step, NEW seen, NEW need, GoTo(w, step, seen, need)
  PROVE  /\ request'[w] = [op |-> request[w].op, step |-> step, rev |-> request[w].rev,
                           arg |-> request[w].arg, seen |-> seen, need |-> need]
         /\ \A v \in Workers \ {w} : request'[v] = request[v]
         /\ lock' = lock
<1>1. request[w] = [op |-> request[w].op, step |-> request[w].step, rev |-> request[w].rev,
                    arg |-> request[w].arg, seen |-> request[w].seen,
                    need |-> request[w].need]
  BY DEF RequestsTyped, Requests
<1>2. QED
  BY <1>1 DEF RequestsTyped, GoTo

LEMMA GoToFields ==
  ASSUME RequestsTyped, NEW w \in Workers,
         NEW step, NEW seen, NEW need, GoTo(w, step, seen, need)
  PROVE  /\ request'[w].op = request[w].op /\ request'[w].step = step
         /\ request'[w].rev = request[w].rev /\ request'[w].seen = seen
<1>1. request'[w] = [op |-> request[w].op, step |-> step, rev |-> request[w].rev,
                     arg |-> request[w].arg, seen |-> seen, need |-> need]
  BY GoToFrame
<1>2. QED
  BY <1>1

LEMMA AcquireFrame ==
  ASSUME RequestsTyped, NEW w \in Workers, AcquireRow(w)
  PROVE  /\ request'[w] = [op |-> request[w].op, step |-> request[w].step,
                           rev |-> request[w].rev, arg |-> request[w].arg,
                           seen |-> request[w].seen, need |-> Tail(request[w].need)]
         /\ \A v \in Workers \ {w} : request'[v] = request[v]
         /\ Head(request[w].need) \in Rows
         /\ lock'[Head(request[w].need)] = w
         /\ \A row \in Rows : lock[row] = w => lock'[row] = w
         /\ \A v \in Workers \ {w}, row \in Rows : lock'[row] = v <=> lock[row] = v
<1>1. request[w] = [op |-> request[w].op, step |-> request[w].step, rev |-> request[w].rev,
                    arg |-> request[w].arg, seen |-> request[w].seen,
                    need |-> request[w].need]
  BY DEF RequestsTyped, Requests
<1>2. Head(request[w].need) \in Rows
  BY DEF RequestsTyped, Requests, AcquireRow
<1>3. QED
  BY <1>1, <1>2, NoneAssumption DEF RequestsTyped, AcquireRow

LEMMA FinishFrame ==
  ASSUME RequestsTyped, NEW w \in Workers, Finish(w)
  PROVE  /\ request'[w] = Idle /\ HoldsNothing(w)'
         /\ \A v \in Workers \ {w} : request'[v] = request[v]
         /\ \A v \in Workers \ {w}, row \in Rows : lock'[row] = v <=> lock[row] = v
  BY NoneAssumption DEF RequestsTyped, Finish, HoldsNothing

\* A request that arrives holds nothing, and has everything still to lock.
LEMMA ArriveKeepsPlan ==
  ASSUME RequestsTyped, NEW w \in Workers, Owns(w, request[w]), Arrive(w)
  PROVE  Plan(request'[w]) /\ Owns(w, request[w])'
<1> DEFINE q == request'[w]
<1> USE DEF Plan, ContractThen, Owns, BeforeContract, ContractFirst
<1>1. ASSUME NEW r \in Revisions, NEW day \in Days, BeginCreate(w, r, day)
      PROVE  Plan(q) /\ Owns(w, request[w])'
  <2>1. /\ q = [op |-> "create", step |-> "write", rev |-> r, arg |-> day,
                seen |-> None, need |-> <<"contract">>]
        /\ HoldsNothing(w)'
    BY <1>1, BeginFrame DEF BeginCreate, HoldsNothing
  <2>2. QED
    BY <2>1
<1>2. ASSUME NEW r \in Revisions, NEW c \in Configs, BeginEdit(w, r, c)
      PROVE  Plan(q) /\ Owns(w, request[w])'
  <2>1. /\ q = [op |-> "edit", step |-> "check", rev |-> r, arg |-> c,
                seen |-> None, need |-> <<r, "contract">>]
        /\ HoldsNothing(w)'
    BY <1>2, BeginFrame DEF BeginEdit, HoldsNothing
  <2>2. QED
    BY <2>1
<1>3. ASSUME NEW r \in Revisions, BeginDelete(w, r)
      PROVE  Plan(q) /\ Owns(w, request[w])'
  <2>1. /\ q = [op |-> "delete", step |-> "write", rev |-> r, arg |-> None,
                seen |-> None, need |-> <<"contract", r>>]
        /\ HoldsNothing(w)'
    BY <1>3, BeginFrame DEF BeginDelete, HoldsNothing
  <2>2. QED
    BY <2>1
<1>4. ASSUME NEW r \in Revisions, BeginApprove(w, r)
      PROVE  Plan(q) /\ Owns(w, request[w])'
  <2>1. /\ q = [op |-> "approve", step |-> "lock", rev |-> r, arg |-> None,
                seen |-> None, need |-> <<"contract", r>>]
        /\ HoldsNothing(w)'
    BY <1>4, BeginFrame DEF BeginApprove, HoldsNothing
  <2>2. QED
    BY <2>1
<1>5. ASSUME NEW r \in Revisions, BeginWithdraw(w, r)
      PROVE  Plan(q) /\ Owns(w, request[w])'
  <2>1. /\ q = [op |-> "withdraw", step |-> "check", rev |-> r, arg |-> None,
                seen |-> None, need |-> <<"contract", r>>]
        /\ HoldsNothing(w)'
    BY <1>5, BeginFrame DEF BeginWithdraw, HoldsNothing
  <2>2. QED
    BY <2>1
<1>6. CASE BeginPublish(w)
  <2>1. /\ q = [op |-> "publish", step |-> "lock", rev |-> None, arg |-> None,
                seen |-> None, need |-> <<"contract">>]
        /\ HoldsNothing(w)'
    BY <1>6, BeginFrame DEF BeginPublish, HoldsNothing
  <2>2. QED
    BY <2>1
<1>7. QED
  BY <1>1, <1>2, <1>3, <1>4, <1>5, <1>6 DEF Arrive

\* A row that is locked leaves the rows still to lock, and is owned from then on.
LEMMA AcquireKeepsPlan ==
  ASSUME NEW w \in Workers, NEW q, Plan(q), Owns(w, q), q.need # <<>>,
         lock'[Head(q.need)] = w, \A row \in Rows : lock[row] = w => lock'[row] = w,
         NEW n, n.op = q.op, n.step = q.step, n.rev = q.rev, n.arg = q.arg,
         n.seen = q.seen, n.need = Tail(q.need)
  PROVE  Plan(n) /\ Owns(w, n)'
<1> "contract" \in Rows /\ Revisions \subseteq Rows
  BY DEF Rows
<1>1. /\ n.op = q.op /\ n.step = q.step /\ n.rev = q.rev /\ n.arg = q.arg
      /\ n.seen = q.seen /\ n.need = Tail(q.need)
  OBVIOUS
<1>2. \A x : /\ q.need = <<x>> => n.need = <<>> /\ lock'[x] = w
             /\ \A y : q.need = <<x, y>> => n.need = <<y>> /\ lock'[x] = w
  <2>1. ASSUME NEW x, q.need = <<x>> PROVE n.need = <<>> /\ lock'[x] = w
    <3>1. Head(<<x>>) = x /\ Tail(<<x>>) = <<>>
      OBVIOUS
    <3>2. QED
      BY <1>1, <2>1, <3>1
  <2>2. ASSUME NEW x, NEW y, q.need = <<x, y>> PROVE n.need = <<y>> /\ lock'[x] = w
    <3>1. Head(<<x, y>>) = x /\ Tail(<<x, y>>) = <<y>>
      OBVIOUS
    <3>2. QED
      BY <1>1, <2>2, <3>1
  <2>3. QED
    BY <2>1, <2>2
<1>3. /\ \A x, y, z : <<x, y>> # <<>> /\ <<x>> # <<>> /\ <<x, y>> # <<z>>
      /\ \A x, y : <<x>> = <<y>> => x = y
  OBVIOUS
<1>4. CASE q.op = "create"
  BY <1>1, <1>2, <1>3, <1>4 DEF Plan, Owns, ContractFirst
<1>5. CASE q.op = "edit"
  BY <1>1, <1>2, <1>3, <1>5 DEF Plan, Owns, ContractFirst
<1>6. CASE q.op = "delete"
  BY <1>1, <1>2, <1>3, <1>6 DEF Plan, Owns, ContractFirst, ContractThen, BeforeContract
<1>7. CASE q.op = "withdraw"
  BY <1>1, <1>2, <1>3, <1>7 DEF Plan, Owns, ContractFirst, ContractThen, BeforeContract
<1>8. CASE q.op = "approve"
  BY <1>1, <1>2, <1>3, <1>8 DEF Plan, Owns, ContractFirst, ContractThen, BeforeContract
<1>9. CASE q.op = "publish"
  BY <1>1, <1>2, <1>3, <1>9 DEF Plan, Owns, ContractFirst, BeforeContract
<1>10. CASE q.op = "idle"
  BY <1>10 DEF Plan
<1>11. QED
  BY <1>4, <1>5, <1>6, <1>7, <1>8, <1>9, <1>10 DEF Plan, ContractFirst

\* Rows are checked and written when nothing is left to lock.
LEMMA GoToKeepsPlan ==
  ASSUME NEW w \in Workers, NEW q, Plan(q), Owns(w, q), q.need = <<>>, lock' = lock,
         NEW n, NEW step, NEW seen, NEW need,
         n = [op |-> q.op, step |-> step, rev |-> q.rev, arg |-> q.arg,
              seen |-> seen, need |-> need],
         \/ q.op \in {"edit", "approve", "withdraw"} /\ step = "write" /\ need = <<>>
         \/ /\ q.op = "approve" /\ step = "check"
            /\ need = <<>> \/ \E p \in Revisions : need = <<p>>
         \/ q.op = "publish" /\ step = "write" /\ seen \in Revisions /\ need = <<seen>>
  PROVE  Plan(n) /\ Owns(w, n)'
<1>1. /\ n.op = q.op /\ n.step = step /\ n.rev = q.rev /\ n.arg = q.arg
      /\ n.seen = seen /\ n.need = need
  OBVIOUS
<1>2. \A x, y : <<x>> # <<>> /\ <<x, y>> # <<>>
  OBVIOUS
<1>3. q.op \in ContractFirst => lock["contract"] = w
  BY <1>2 DEF Owns, BeforeContract
<1>4. CASE q.op = "edit"
  BY <1>1, <1>4 DEF Plan, Owns, ContractFirst
<1>5. CASE q.op = "withdraw"
  BY <1>1, <1>3, <1>5 DEF Plan, Owns, ContractFirst, ContractThen
<1>6. CASE q.op = "approve"
  BY <1>1, <1>3, <1>6 DEF Plan, Owns, ContractFirst
<1>7. CASE q.op = "publish"
  BY <1>1, <1>3, <1>7 DEF Plan, Owns, ContractFirst
<1>8. QED
  BY <1>4, <1>5, <1>6, <1>7

LEMMA RunKeepsPlan ==
  ASSUME RequestsTyped, NEW w \in Workers, Plan(request[w]), Owns(w, request[w]),
         \/ CheckEdit(w) \/ LockLatest(w) \/ CheckApprove(w)
         \/ CheckWithdraw(w) \/ LockCurrent(w),
         ~Finish(w)
  PROVE  Plan(request'[w]) /\ Owns(w, request[w])'
<1> DEFINE q == request[w]
<1>1. PICK step, seen, need :
        /\ GoTo(w, step, seen, need)
        /\ q.need = <<>>
        /\ \/ q.op \in {"edit", "approve", "withdraw"} /\ step = "write" /\ need = <<>>
           \/ /\ q.op = "approve" /\ step = "check"
              /\ need = <<>> \/ \E p \in Revisions : need = <<p>>
           \/ q.op = "publish" /\ step = "write" /\ seen \in Revisions /\ need = <<seen>>
  <2>1. CASE CheckEdit(w) \/ CheckApprove(w) \/ CheckWithdraw(w)
    BY <2>1 DEF CheckEdit, CheckApprove, CheckWithdraw, At, Rollback
  <2>2. CASE LockLatest(w)
    BY <2>2 DEF LockLatest, Latest, Approved, At
  <2>3. CASE LockCurrent(w)
    BY <2>3 DEF LockCurrent, CurrentRevision, Latest, Approved, At, Rollback
  <2>4. QED
    BY <2>1, <2>2, <2>3
<1>2. /\ request'[w] = [op |-> q.op, step |-> step, rev |-> q.rev, arg |-> q.arg,
                        seen |-> seen, need |-> need]
      /\ lock' = lock
  BY <1>1, GoToFrame
<1>3. QED
  BY <1>1, <1>2, GoToKeepsPlan

LEMMA OthersUntouched ==
  ASSUME RequestsTyped, NEW w \in Workers, Owns(w, request[w]),
         Arrive(w) \/ Run(w) \/ Crash(w)
  PROVE  \A v \in Workers \ {w} :
           request'[v] = request[v] /\ \A row \in Rows : lock'[row] = v <=> lock[row] = v
<1>1. \/ \E op, step, r, arg, need : Begin(w, op, step, r, arg, need)
      \/ \E step, seen, need : GoTo(w, step, seen, need)
      \/ AcquireRow(w)
      \/ Finish(w)
  <2>1. CASE Arrive(w)
    BY <2>1 DEF Arrive, BeginCreate, BeginEdit, BeginDelete, BeginApprove,
                BeginWithdraw, BeginPublish
  <2>2. CASE Run(w)
    BY <2>2 DEF Run, AbortDeadlock, WriteCreate, RejectCreate, CheckEdit, WriteEdit,
                WriteDelete, LockLatest, CheckApprove, WriteApprove, CheckWithdraw,
                WriteWithdraw, LockCurrent, WritePublish, Rollback
  <2>3. CASE Crash(w)
    BY <2>3 DEF Crash, Rollback
  <2>4. QED
    BY <2>1, <2>2, <2>3
<1>2. QED
  BY <1>1, BeginFrame, GoToFrame, AcquireFrame, FinishFrame

LEMMA RequestsStep ==
  ASSUME RequestsTyped, RequestsOK, [Next]_vars
  PROVE  RequestsOK'
<1>1. CASE NextDay \/ UNCHANGED vars
  BY <1>1 DEF NextDay, vars, RequestsOK, Owns, HoldsNothing
<1>2. ASSUME NEW w \in Workers, Arrive(w) \/ Run(w) \/ Crash(w)
      PROVE  RequestsOK'
  <2>0. Plan(request[w]) /\ Owns(w, request[w])
    BY DEF RequestsOK
  <2>2. ASSUME NEW v \in Workers \ {w}
        PROVE  Plan(request'[v]) /\ Owns(v, request[v])'
    <3>1. request'[v] = request[v] /\ \A row \in Rows : lock'[row] = v <=> lock[row] = v
      BY <1>2, <2>0, OthersUntouched
    <3>2. Plan(request[v]) /\ Owns(v, request[v])
      BY DEF RequestsOK
    <3>3. QED
      BY <3>1, <3>2, Undisturbed
  <2>3. Plan(request'[w]) /\ Owns(w, request[w])'
    <3>1. CASE Arrive(w)
      BY <2>0, <3>1, ArriveKeepsPlan
    <3>2. CASE AcquireRow(w)
      <4>1. request[w].need # <<>>
        BY <3>2 DEF AcquireRow
      <4>2. /\ lock'[Head(request[w].need)] = w
            /\ \A row \in Rows : lock[row] = w => lock'[row] = w
        BY <3>2, AcquireFrame
      <4>3. /\ request'[w].op = request[w].op /\ request'[w].step = request[w].step
            /\ request'[w].rev = request[w].rev /\ request'[w].arg = request[w].arg
            /\ request'[w].seen = request[w].seen
            /\ request'[w].need = Tail(request[w].need)
        <5>1. request'[w] = [op |-> request[w].op, step |-> request[w].step,
                             rev |-> request[w].rev, arg |-> request[w].arg,
                             seen |-> request[w].seen, need |-> Tail(request[w].need)]
          BY <3>2, AcquireFrame
        <5>2. QED
          BY <5>1
      <4>4. QED
        BY <2>0, <4>1, <4>2, <4>3, AcquireKeepsPlan
    <3>3. CASE Finish(w)
      BY <3>3, FinishFrame DEF Idle, Plan, Owns, ContractFirst
    <3>4. CASE Run(w) /\ ~Finish(w) /\ ~AcquireRow(w)
      <4>1. \/ CheckEdit(w) \/ LockLatest(w) \/ CheckApprove(w)
            \/ CheckWithdraw(w) \/ LockCurrent(w)
        BY <3>4 DEF Run, AbortDeadlock, WriteCreate, RejectCreate, WriteEdit,
                    WriteDelete, WriteApprove, WriteWithdraw, WritePublish, Rollback
      <4>2. QED
        BY <2>0, <3>4, <4>1, RunKeepsPlan
    <3>5. QED
      BY <1>2, <3>1, <3>2, <3>3, <3>4 DEF Crash, Rollback
  <2>4. QED
    BY <2>2, <2>3 DEF RequestsOK
<1>3. QED
  BY <1>1, <1>2 DEF Next

-----------------------------------------------------------------------------
(***************************************************************************)
(* Type correctness needs the plan: the arguments of a request are dates   *)
(* or compositions according to its operation.                             *)
(***************************************************************************)
LEMMA TypeOKImpliesTyped == TypeOK => RequestsTyped
  BY DEF TypeOK, RequestsTyped, Requests

LEMMA RequestsTypeStep ==
  ASSUME TypeOK, RequestsOK, [Next]_vars
  PROVE  RequestsTyped'
<1>0. RequestsTyped
  BY TypeOKImpliesTyped
<1> None \in Revisions \cup {None} /\ None \in Configs \cup Days \cup {None}
  OBVIOUS
<1>1. CASE NextDay \/ UNCHANGED vars
  BY <1>0, <1>1 DEF NextDay, vars, RequestsTyped
<1>2. ASSUME NEW w \in Workers, Arrive(w)
      PROVE  RequestsTyped'
  <2>1. <<"contract">> \in Seq(Rows)
        /\ \A r \in Revisions : <<"contract", r>> \in Seq(Rows) /\ <<r, "contract">> \in Seq(Rows)
    BY DEF Rows
  <2>2. ASSUME NEW r \in Revisions, NEW day \in Days, BeginCreate(w, r, day)
        PROVE  RequestsTyped'
    BY <1>0, <2>1, <2>2, BeginType DEF BeginCreate
  <2>3. ASSUME NEW r \in Revisions, NEW c \in Configs, BeginEdit(w, r, c)
        PROVE  RequestsTyped'
    BY <1>0, <2>1, <2>3, BeginType DEF BeginEdit
  <2>4. ASSUME NEW r \in Revisions, BeginDelete(w, r)
        PROVE  RequestsTyped'
    BY <1>0, <2>1, <2>4, BeginType DEF BeginDelete
  <2>5. ASSUME NEW r \in Revisions, BeginApprove(w, r)
        PROVE  RequestsTyped'
    BY <1>0, <2>1, <2>5, BeginType DEF BeginApprove
  <2>6. ASSUME NEW r \in Revisions, BeginWithdraw(w, r)
        PROVE  RequestsTyped'
    BY <1>0, <2>1, <2>6, BeginType DEF BeginWithdraw
  <2>7. CASE BeginPublish(w)
    BY <1>0, <2>1, <2>7, BeginType DEF BeginPublish
  <2>8. QED
    BY <1>2, <2>2, <2>3, <2>4, <2>5, <2>6, <2>7 DEF Arrive
<1>3. ASSUME NEW w \in Workers, Run(w) \/ Crash(w)
      PROVE  RequestsTyped'
  <2>0. <<>> \in Seq(Rows) /\ \A r \in Revisions : <<r>> \in Seq(Rows)
    BY DEF Rows
  <2>1. CASE Finish(w)
    BY <1>0, <2>1, FinishType
  <2>2. CASE AcquireRow(w)
    BY <1>0, <2>2, AcquireType
  <2>3. CASE CheckEdit(w) /\ ~Finish(w)
    BY <1>0, <2>0, <2>3, GoToType DEF CheckEdit, Rollback
  <2>4. CASE LockLatest(w)
    BY <1>0, <2>0, <2>4, GoToType DEF LockLatest, Latest, Approved
  <2>5. CASE CheckApprove(w) /\ ~Finish(w)
    <3>1. request[w].rev \in Revisions /\ GoTo(w, "write", revision[request[w].rev].config, <<>>)
      BY <2>5 DEF CheckApprove, Rollback, RequestsOK, Plan, At
    <3>2. revision[request[w].rev].config \in Configs \cup {None}
      BY <3>1 DEF TypeOK, RevisionRows
    <3>3. QED
      BY <1>0, <2>0, <3>1, <3>2, GoToType
  <2>6. CASE CheckWithdraw(w) /\ ~Finish(w)
    BY <1>0, <2>0, <2>6, GoToType DEF CheckWithdraw, Rollback
  <2>7. CASE LockCurrent(w) /\ ~Finish(w)
    BY <1>0, <2>0, <2>7, GoToType DEF LockCurrent, CurrentRevision, Latest, Approved, Rollback
  <2>8. QED
    BY <1>3, <2>1, <2>2, <2>3, <2>4, <2>5, <2>6, <2>7
       DEF Run, Crash, AbortDeadlock, WriteCreate, RejectCreate, WriteEdit, WriteDelete,
           WriteApprove, WriteWithdraw, WritePublish, Rollback
<1>4. QED
  BY <1>1, <1>2, <1>3 DEF Next

-----------------------------------------------------------------------------
(***************************************************************************)
(* The services, each in one step.  What a transaction writes at its last  *)
(* statement is what the service would do atomically: the checks made      *)
(* statements earlier still hold of the rows as they are.                  *)
(***************************************************************************)
InsertRow(r) ==
  /\ Status(r) = "absent"
  /\ \E day \in Days, c \in Configs : revision' = [revision EXCEPT ![r] =
       [status |-> "draft", validFrom |-> day, config |-> c, snapshot |-> None]]
  /\ UNCHANGED <<log, publications>>

EditRow(r) ==
  /\ Status(r) = "draft"
  /\ \E c \in Configs : revision' = [revision EXCEPT ![r].config = c]
  /\ UNCHANGED <<log, publications>>

DeleteRow(r) ==
  /\ Status(r) = "draft"
  /\ revision' = [revision EXCEPT ![r] = Absent]
  /\ UNCHANGED <<log, publications>>

ApproveRow(r) ==
  /\ Status(r) = "draft"
  /\ \A p \in Approved : revision[p].validFrom < revision[r].validFrom
  /\ revision' = [revision EXCEPT ![r].status = "approved",
                                  ![r].snapshot = revision[r].config]
  /\ Decide(r, "approved")
  /\ UNCHANGED publications

WithdrawRow(r) ==
  /\ Status(r) \in {"draft", "approved"}
  /\ \A i \in 1..Len(publications) : publications[i].rev # r
  /\ revision' = [revision EXCEPT ![r].status = "withdrawn"]
  /\ Decide(r, "withdrawn")
  /\ UNCHANGED publications

PublishRow(r) ==
  /\ Status(r) = "approved" /\ revision[r].validFrom <= today
  /\ publications' = Append(publications, [rev |-> r, snapshot |-> revision[r].snapshot])
  /\ UNCHANGED <<revision, log>>

\* The rows a service writes are locked by its worker; an insertion locks the
\* contract only.
AtomicService(w, r) ==
  /\ lock["contract"] = w
  /\ UNCHANGED today
  /\ \/ InsertRow(r)
     \/ lock[r] = w /\ (EditRow(r) \/ DeleteRow(r) \/ ApproveRow(r) \/ WithdrawRow(r))
     \/ PublishRow(r)

NoService == UNCHANGED <<revision, log, publications>>

LEMMA RunIsAtomic ==
  ASSUME TypeOK, RequestsOK, ChecksHold, NEW w \in Workers, Run(w)
  PROVE  UNCHANGED today /\ (NoService \/ \E r \in Revisions : AtomicService(w, r))
<1> DEFINE q == request[w]
<1>0. Plan(q) /\ Owns(w, q) /\ Checked(q)
  BY DEF RequestsOK, ChecksHold
<1>1. CASE \/ AcquireRow(w) \/ AbortDeadlock(w) \/ RejectCreate(w) \/ CheckEdit(w)
           \/ LockLatest(w) \/ CheckApprove(w) \/ CheckWithdraw(w) \/ LockCurrent(w)
  BY <1>1 DEF AcquireRow, AbortDeadlock, RejectCreate, CheckEdit, LockLatest, CheckApprove,
              CheckWithdraw, LockCurrent, GoTo, Rollback, NoService, rows
<1> HIDE DEF NoService
<1>2. CASE WriteCreate(w)
  <2>1. q.op = "create" /\ q.need = <<>> /\ q.rev \in Revisions /\ q.arg \in Days
    BY <1>0, <1>2 DEF WriteCreate, At, Plan
  <2>2. lock["contract"] = w
    BY <1>0, <2>1 DEF Owns, ContractFirst, BeforeContract
  <2>3. InsertRow(q.rev) /\ UNCHANGED today
    BY <1>2, <2>1 DEF WriteCreate, InsertRow
  <2>4. QED
    BY <2>1, <2>2, <2>3 DEF AtomicService
<1>3. CASE WriteEdit(w)
  <2>1. q.op = "edit" /\ q.step = "write" /\ q.need = <<>> /\ q.rev \in Revisions
        /\ q.arg \in Configs
    BY <1>0, <1>3 DEF WriteEdit, At, Plan
  <2>2. lock["contract"] = w /\ lock[q.rev] = w
    BY <1>0, <2>1 DEF Owns
  <2>3. EditRow(q.rev) /\ UNCHANGED today
    BY <1>0, <1>3, <2>1 DEF WriteEdit, EditRow, Checked
  <2>4. QED
    BY <2>1, <2>2, <2>3 DEF AtomicService
<1>4. CASE WriteDelete(w)
  <2>1. q.op = "delete" /\ q.need = <<>> /\ q.rev \in Revisions
    BY <1>0, <1>4 DEF WriteDelete, At, Plan
  <2>2. lock["contract"] = w /\ lock[q.rev] = w
    BY <1>0, <2>1 DEF Owns, ContractFirst, BeforeContract
  <2>3. (DeleteRow(q.rev) \/ NoService) /\ UNCHANGED today
    BY <1>4, <2>1 DEF WriteDelete, DeleteRow, NoService, Rollback, rows
  <2>4. QED
    BY <2>1, <2>2, <2>3 DEF AtomicService
<1>5. CASE WriteApprove(w)
  <2>1. q.op = "approve" /\ q.step = "write" /\ q.need = <<>> /\ q.rev \in Revisions
    BY <1>0, <1>5 DEF WriteApprove, At, Plan
  <2>2. lock["contract"] = w /\ lock[q.rev] = w
    BY <1>0, <2>1 DEF Owns
  <2>3. (ApproveRow(q.rev) \/ NoService) /\ UNCHANGED today
    BY <1>0, <1>5, <2>1 DEF WriteApprove, ApproveRow, NoService, Rollback, rows, Checked
  <2>4. QED
    BY <2>1, <2>2, <2>3 DEF AtomicService
<1>6. CASE WriteWithdraw(w)
  <2>1. q.op = "withdraw" /\ q.step = "write" /\ q.need = <<>> /\ q.rev \in Revisions
    BY <1>0, <1>6 DEF WriteWithdraw, At, Plan
  <2>2. lock["contract"] = w /\ lock[q.rev] = w
    BY <1>0, <2>1 DEF Owns, ContractFirst, BeforeContract
  <2>3. WithdrawRow(q.rev) /\ UNCHANGED today
    BY <1>0, <1>6, <2>1 DEF WriteWithdraw, WithdrawRow, Checked
  <2>4. QED
    BY <2>1, <2>2, <2>3 DEF AtomicService
<1>7. CASE WritePublish(w)
  <2>1. q.op = "publish" /\ q.step = "write" /\ q.seen \in Revisions
    BY <1>0, <1>7 DEF WritePublish, At, Plan
  <2>2. lock["contract"] = w
    BY <1>0, <2>1 DEF Owns
  <2>3. (PublishRow(q.seen) \/ NoService) /\ UNCHANGED today
    BY <1>0, <1>7, <2>1 DEF WritePublish, PublishRow, NoService, Rollback, rows, Checked
  <2>4. QED
    BY <2>1, <2>2, <2>3 DEF AtomicService
<1>8. QED
  BY <1>1, <1>2, <1>3, <1>4, <1>5, <1>6, <1>7 DEF Run

-----------------------------------------------------------------------------
(***************************************************************************)
(* What the services keep true of the rows: each part of the invariant     *)
(* that is about the rows alone, one service after the other.              *)
(***************************************************************************)
RowsTyped ==
  /\ today \in Days
  /\ revision \in [Revisions -> RevisionRows]
  /\ log \in Seq([rev : Revisions, to : {"approved", "withdrawn"}])
  /\ publications \in Seq([rev : Revisions, snapshot : Configs \cup {None}])

LEMMA Appended ==
  ASSUME NEW S, NEW s \in Seq(S), NEW e \in S
  PROVE  /\ Append(s, e) \in Seq(S)
         /\ Len(s) \in Nat
         /\ Len(Append(s, e)) = Len(s) + 1
         /\ \A i \in 1..Len(s) : Append(s, e)[i] = s[i]
         /\ Append(s, e)[Len(s) + 1] = e
  OBVIOUS

LEMMA Elements ==
  ASSUME NEW S, NEW s \in Seq(S), NEW i \in 1..Len(s)
  PROVE  s[i] \in S
  OBVIOUS

LEMMA EntriesTyped ==
  ASSUME RowsTyped
  PROVE  /\ \A i \in 1..Len(log) : log[i].rev \in Revisions
                                  /\ log[i].to \in {"approved", "withdrawn"}
         /\ \A i \in 1..Len(publications) : publications[i].rev \in Revisions
<1>1. ASSUME NEW i \in 1..Len(log)
      PROVE  log[i] \in [rev : Revisions, to : {"approved", "withdrawn"}]
  BY Elements DEF RowsTyped
<1>2. ASSUME NEW i \in 1..Len(publications)
      PROVE  publications[i] \in [rev : Revisions, snapshot : Configs \cup {None}]
  BY Elements DEF RowsTyped
<1>3. QED
  BY <1>1, <1>2

LEMMA Decided ==
  ASSUME RowsTyped, NEW r \in Revisions, NEW to \in {"approved", "withdrawn"},
         Decide(r, to)
  PROVE  /\ log' \in Seq([rev : Revisions, to : {"approved", "withdrawn"}])
         /\ Len(log) \in Nat
         /\ Len(log') = Len(log) + 1
         /\ \A i \in 1..Len(log) : log'[i] = log[i]
         /\ log'[Len(log) + 1].rev = r /\ log'[Len(log) + 1].to = to
  BY Appended DEF RowsTyped, Decide

LEMMA ServiceTypes ==
  ASSUME RowsTyped, RowsOK, NEW r \in Revisions,
         UNCHANGED today,
         InsertRow(r) \/ EditRow(r) \/ DeleteRow(r) \/ ApproveRow(r) \/ WithdrawRow(r)
           \/ PublishRow(r)
  PROVE  RowsTyped'
<1>0. revision[r] \in RevisionRows
  BY DEF RowsTyped
<1>1. CASE InsertRow(r) \/ DeleteRow(r)
  BY <1>1 DEF RowsTyped, InsertRow, DeleteRow, RevisionRows, Absent
<1>2. CASE EditRow(r)
  <2>1. PICK c \in Configs : revision' = [revision EXCEPT ![r] = [@ EXCEPT !.config = c]]
    BY <1>2 DEF EditRow
  <2>2. [revision[r] EXCEPT !.config = c] \in RevisionRows
    BY <1>0 DEF RevisionRows
  <2>3. revision' \in [Revisions -> RevisionRows]
    BY <2>1, <2>2 DEF RowsTyped
  <2>4. QED
    BY <1>2, <2>3 DEF RowsTyped, EditRow
<1>3. CASE ApproveRow(r)
  BY <1>0, <1>3, Decided DEF RowsTyped, ApproveRow, RevisionRows
<1>4. CASE WithdrawRow(r)
  BY <1>0, <1>4, Decided DEF RowsTyped, WithdrawRow, RevisionRows
<1>5. CASE PublishRow(r)
  BY <1>0, <1>5 DEF RowsTyped, PublishRow, RevisionRows
<1>6. QED
  BY <1>1, <1>2, <1>3, <1>4, <1>5

LEMMA ServiceLog ==
  ASSUME RowsTyped, RowsTyped', LogTellsStatus, NEW r \in Revisions,
         InsertRow(r) \/ EditRow(r) \/ DeleteRow(r) \/ ApproveRow(r) \/ WithdrawRow(r)
           \/ PublishRow(r)
  PROVE  LogTellsStatus'
<1>1. CASE PublishRow(r)
  <2>1. revision' = revision /\ log' = log
    BY <1>1 DEF PublishRow
  <2>2. QED
    BY <2>1 DEF LogTellsStatus, Status
<1>2. CASE InsertRow(r) \/ EditRow(r) \/ DeleteRow(r)
  <2>1. /\ log' = log
        /\ Status(r) \in {"absent", "draft"} /\ revision'[r].status \in {"absent", "draft"}
        /\ \A p \in Revisions \ {r} : revision'[p] = revision[p]
    BY <1>2 DEF InsertRow, EditRow, DeleteRow, Absent, RowsTyped, Status, RevisionRows
  <2>2. \A i \in 1..Len(log) : log[i].to \in {"approved", "withdrawn"}
    BY EntriesTyped
  <2>3. {i \in 1..Len(log) : log[i].rev = r} = {}
    BY <2>1, <2>2 DEF LogTellsStatus
  <2>4. SUFFICES ASSUME NEW p \in Revisions
                 PROVE  LET decisions == {i \in 1..Len(log') : log'[i].rev = p}
                        IN  IF decisions = {} THEN revision'[p].status \in {"absent", "draft"}
                            ELSE \E i \in decisions : /\ \A j \in decisions : j <= i
                                                      /\ revision'[p].status = log'[i].to
    BY DEF LogTellsStatus, Status
  <2>5. CASE p = r
    BY <2>1, <2>3, <2>5
  <2>6. CASE p # r
    BY <2>1, <2>6 DEF LogTellsStatus, Status
  <2>7. QED
    BY <2>5, <2>6
<1>3. CASE ApproveRow(r) \/ WithdrawRow(r)
  <2>1. PICK to \in {"approved", "withdrawn"} :
          /\ Decide(r, to) /\ revision'[r].status = to
          /\ \A p \in Revisions \ {r} : revision'[p] = revision[p]
    BY <1>3 DEF ApproveRow, WithdrawRow, RowsTyped, RevisionRows
  <2>2. SUFFICES ASSUME NEW p \in Revisions
                 PROVE  LET decisions == {i \in 1..Len(log') : log'[i].rev = p}
                        IN  IF decisions = {} THEN revision'[p].status \in {"absent", "draft"}
                            ELSE \E i \in decisions : /\ \A j \in decisions : j <= i
                                                      /\ revision'[p].status = log'[i].to
    BY DEF LogTellsStatus, Status
  <2>3. CASE p = r
    BY <2>1, <2>3, Decided
  <2>4. CASE p # r
    <3>1. {i \in 1..Len(log') : log'[i].rev = p} = {i \in 1..Len(log) : log[i].rev = p}
      BY <2>1, <2>4, Decided
    <3>2. \A i \in 1..Len(log) : log'[i] = log[i]
      BY <2>1, Decided
    <3>3. QED
      BY <2>1, <2>4, <3>1, <3>2 DEF LogTellsStatus, Status
  <2>5. QED
    BY <2>3, <2>4
<1>4. QED
  BY <1>1, <1>2, <1>3

\* A revision that is a draft was never decided.
LEMMA DraftUndecided ==
  ASSUME RowsTyped, LogTellsStatus, NEW r \in Revisions, Status(r) \in {"absent", "draft"}
  PROVE  \A i \in 1..Len(log) : log[i].rev # r
<1>1. \A i \in 1..Len(log) : log[i].to \in {"approved", "withdrawn"}
  BY EntriesTyped
<1>2. {i \in 1..Len(log) : log[i].rev = r} = {}
  BY <1>1 DEF LogTellsStatus
<1>3. QED
  BY <1>2

LEMMA ServiceOrder ==
  ASSUME RowsTyped, RowsTyped', LogTellsStatus, ApprovedInOrder, NEW r \in Revisions,
         InsertRow(r) \/ EditRow(r) \/ DeleteRow(r) \/ ApproveRow(r) \/ WithdrawRow(r)
           \/ PublishRow(r)
  PROVE  ApprovedInOrder'
<1> SUFFICES ASSUME NEW i \in 1..Len(log'), NEW j \in 1..Len(log'), i < j,
                    log'[i].to = "approved", log'[i].rev \in Approved',
                    log'[j].to = "approved", log'[j].rev \in Approved'
             PROVE  revision'[log'[i].rev].validFrom < revision'[log'[j].rev].validFrom
  BY DEF ApprovedInOrder
<1> USE DEF Approved, Status
<1>1. CASE PublishRow(r)
  BY <1>1 DEF PublishRow, ApprovedInOrder
<1>2. CASE InsertRow(r) \/ EditRow(r) \/ DeleteRow(r)
  <2>1. /\ log' = log /\ revision'[r].status # "approved"
        /\ \A p \in Revisions \ {r} : revision'[p] = revision[p]
    BY <1>2 DEF InsertRow, EditRow, DeleteRow, Absent, RowsTyped, RevisionRows
  <2>2. QED
    BY <2>1 DEF ApprovedInOrder
<1>3. CASE WithdrawRow(r)
  <2>1. /\ revision'[r].status = "withdrawn"
        /\ \A p \in Revisions \ {r} : revision'[p] = revision[p]
    BY <1>3 DEF WithdrawRow, RowsTyped, RevisionRows
  <2>2. /\ Len(log) \in Nat /\ Len(log') = Len(log) + 1
        /\ \A k \in 1..Len(log) : log'[k] = log[k]
        /\ log'[Len(log) + 1].to = "withdrawn"
    BY <1>3, Decided DEF WithdrawRow
  <2>3. i \in 1..Len(log) /\ j \in 1..Len(log)
    BY <2>2
  <2>4. QED
    BY <2>1, <2>2, <2>3 DEF ApprovedInOrder
<1>4. CASE ApproveRow(r)
  <2>1. /\ revision'[r].validFrom = revision[r].validFrom
        /\ \A p \in Revisions \ {r} : revision'[p] = revision[p]
        /\ \A p \in Approved : revision[p].validFrom < revision[r].validFrom
    BY <1>4 DEF ApproveRow, RowsTyped, RevisionRows
  <2>2. /\ Len(log) \in Nat /\ Len(log') = Len(log) + 1
        /\ \A k \in 1..Len(log) : log'[k] = log[k]
        /\ log'[Len(log) + 1].rev = r
    BY <1>4, Decided DEF ApproveRow
  <2>3. \A k \in 1..Len(log) : log[k].rev \in Revisions \ {r}
    BY <1>4, DraftUndecided, EntriesTyped DEF ApproveRow
  <2>4. i \in 1..Len(log) /\ log'[i].rev \in Revisions \ {r} /\ log'[i].rev \in Approved
    BY <2>1, <2>2, <2>3
  <2>5. CASE j \in 1..Len(log)
    BY <2>1, <2>2, <2>3, <2>4, <2>5 DEF ApprovedInOrder
  <2>6. CASE j = Len(log) + 1
    BY <2>1, <2>2, <2>4, <2>6
  <2>7. QED
    BY <2>2, <2>5, <2>6
<1>5. QED
  BY <1>1, <1>2, <1>3, <1>4

LEMMA ServiceRows ==
  ASSUME RowsTyped, RowsOK, ApprovedAsFrozen, PublicationsStand,
         NEW r \in Revisions, UNCHANGED today,
         InsertRow(r) \/ EditRow(r) \/ DeleteRow(r) \/ ApproveRow(r) \/ WithdrawRow(r)
           \/ PublishRow(r)
  PROVE  RowsOK' /\ ApprovedAsFrozen' /\ PublicationsStand'
<1> USE DEF RowsOK, ApprovedAsFrozen, PublicationsStand, Approved, Status
<1>0. \A i \in 1..Len(publications) : publications[i].rev \in Revisions
  BY EntriesTyped
<1>1. CASE InsertRow(r) \/ DeleteRow(r)
  BY <1>0, <1>1 DEF RowsTyped, InsertRow, DeleteRow, Absent
<1>2. CASE EditRow(r)
  BY <1>0, <1>2 DEF RowsTyped, RevisionRows, EditRow
<1>3. CASE ApproveRow(r)
  BY <1>0, <1>3 DEF RowsTyped, RevisionRows, ApproveRow
<1>4. CASE WithdrawRow(r)
  BY <1>0, <1>4 DEF RowsTyped, RevisionRows, WithdrawRow
<1>5. CASE PublishRow(r)
  <2>1. [rev |-> r, snapshot |-> revision[r].snapshot] \in
           [rev : Revisions, snapshot : Configs \cup {None}]
    BY DEF RowsTyped, RevisionRows
  <2>2. /\ Len(publications) \in Nat /\ Len(publications') = Len(publications) + 1
        /\ \A i \in 1..Len(publications) : publications'[i] = publications[i]
        /\ publications'[Len(publications) + 1] = [rev |-> r, snapshot |-> revision[r].snapshot]
    BY <1>5, <2>1, Appended DEF PublishRow, RowsTyped
  <2>3. QED
    BY <1>5, <2>2 DEF PublishRow
<1>6. QED
  BY <1>1, <1>2, <1>3, <1>4, <1>5

-----------------------------------------------------------------------------
(***************************************************************************)
(* What a request has checked stays true until it writes: whoever has      *)
(* checked holds the contract row, and every service writes under it.      *)
(***************************************************************************)
LEMMA CheckedHoldsContract ==
  ASSUME NEW v \in Workers, NEW q, Plan(q), Owns(v, q), q.step = "write",
         q.op \in {"edit", "approve", "withdraw", "publish"}
  PROVE  lock["contract"] = v
  BY DEF Plan, Owns, ContractFirst, ContractThen, BeforeContract

LEMMA CheckedStays ==
  ASSUME RequestsOK, ChecksHold, NEW v \in Workers, request'[v] = request[v],
         \/ NoService /\ UNCHANGED today
         \/ \E w \in Workers \ {v}, r \in Revisions : AtomicService(w, r)
  PROVE  Checked(request[v])'
<1> DEFINE q == request[v]
<1>0. Plan(q) /\ Owns(v, q) /\ Checked(q)
  BY DEF RequestsOK, ChecksHold
<1>1. CASE NoService /\ UNCHANGED today
  BY <1>0, <1>1 DEF NoService, Checked, Approved, Status
<1>2. CASE \E w \in Workers \ {v}, r \in Revisions : AtomicService(w, r)
  <2>1. lock["contract"] # v
    BY <1>2 DEF AtomicService
  <2>2. q.step = "write" => q.op \notin {"edit", "approve", "withdraw", "publish"}
    BY <1>0, <2>1, CheckedHoldsContract
  <2>3. QED
    BY <2>2 DEF Checked
<1>3. QED
  BY <1>1, <1>2

LEMMA CheckStep ==
  ASSUME TypeOK, RequestsOK, RowsOK, NEW w \in Workers,
         \/ CheckEdit(w) \/ LockLatest(w) \/ CheckApprove(w)
         \/ CheckWithdraw(w) \/ LockCurrent(w),
         ~Finish(w)
  PROVE  Checked(request[w])'
<1> DEFINE q == request[w]
           n == request'[w]
<1>0. RequestsTyped /\ Plan(q) /\ NoService /\ UNCHANGED today
  BY TypeOKImpliesTyped
     DEF RequestsOK, CheckEdit, LockLatest, CheckApprove, CheckWithdraw, LockCurrent, GoTo,
         Rollback, NoService, rows
<1> USE DEF NoService
<1>1. CASE CheckEdit(w)
  <2>1. GoTo(w, "write", None, <<>>) /\ q.op = "edit" /\ Status(q.rev) = "draft"
    BY <1>1 DEF CheckEdit, At, Rollback
  <2>2. n.op = "edit" /\ n.rev = q.rev
    BY <1>0, <2>1, GoToFields
  <2>3. QED
    BY <1>0, <2>1, <2>2 DEF Checked, Status
<1>2. CASE LockLatest(w)
  <2>1. PICK seen, need : GoTo(w, "check", seen, need)
    BY <1>2 DEF LockLatest
  <2>2. n.step = "check"
    BY <1>0, <2>1, GoToFields
  <2>3. QED
    BY <2>2 DEF Checked
<1>3. CASE CheckApprove(w)
  <2>1. /\ GoTo(w, "write", revision[q.rev].config, <<>>) /\ q.op = "approve"
        /\ q.rev \in Revisions /\ ApprovableFrom(q.rev)
    BY <1>0, <1>3 DEF CheckApprove, At, Rollback, Plan
  <2>2. Status(q.rev) = "draft" /\ revision[q.rev].validFrom \in Nat
    BY <2>1, StartAssumption DEF ApprovableFrom, RowsOK
  <2>3. \A p \in Approved : revision[p].validFrom \in Nat
    BY StartAssumption DEF RowsOK, Approved
  <2>4. \A p \in Approved : revision[p].validFrom < revision[q.rev].validFrom
    BY <2>1, <2>2, <2>3 DEF ApprovableFrom
  <2>5. n.op = "approve" /\ n.rev = q.rev /\ n.seen = revision[q.rev].config
    BY <1>0, <2>1, GoToFields
  <2>6. QED
    BY <1>0, <2>2, <2>4, <2>5 DEF Checked, Approved, Status
<1>4. CASE CheckWithdraw(w)
  <2>1. /\ GoTo(w, "write", None, <<>>) /\ q.op = "withdraw" /\ q.rev \in Revisions
        /\ Status(q.rev) \in {"draft", "approved"} /\ revision[q.rev].validFrom > today
    BY <1>0, <1>4 DEF CheckWithdraw, At, Rollback, Plan
  <2>2. revision[q.rev].validFrom \in Nat /\ today \in Nat
    BY <2>1, StartAssumption DEF RowsOK, TypeOK
  <2>3. \A i \in 1..Len(publications) : publications[i].rev # q.rev
    BY <2>1, <2>2 DEF RowsOK
  <2>4. n.op = "withdraw" /\ n.rev = q.rev
    BY <1>0, <2>1, GoToFields
  <2>5. QED
    BY <1>0, <2>1, <2>3, <2>4 DEF Checked, Status
<1>5. CASE LockCurrent(w)
  <2>1. PICK r \in Approved : GoTo(w, "write", r, <<r>>) /\ revision[r].validFrom <= today
    BY <1>5 DEF LockCurrent, CurrentRevision, Latest, Rollback
  <2>2. q.op = "publish"
    BY <1>5 DEF LockCurrent, At
  <2>3. n.op = "publish" /\ n.seen = r
    BY <1>0, <2>1, <2>2, GoToFields
  <2>4. QED
    BY <1>0, <2>1, <2>3 DEF Checked, Approved, Status
<1>6. QED
  BY <1>1, <1>2, <1>3, <1>4, <1>5

LEMMA ChecksStep ==
  ASSUME TypeOK, RequestsOK, ChecksHold, RowsOK, [Next]_vars
  PROVE  ChecksHold'
<1>0. RequestsTyped
  BY TypeOKImpliesTyped
<1>1. CASE NextDay
  <2> SUFFICES ASSUME NEW v \in Workers
               PROVE  Checked(request[v])'
    BY DEF ChecksHold
  <2> DEFINE q == request[v]
  <2>0. Plan(q) /\ Checked(q)
    BY DEF RequestsOK, ChecksHold
  <2>1. /\ request' = request /\ revision' = revision /\ publications' = publications
        /\ today' = today + 1
    BY <1>1 DEF NextDay, rows
  <2>2. CASE q.step = "write" /\ q.op = "publish"
    <3>1. q.seen \in Revisions /\ Status(q.seen) = "approved" /\ revision[q.seen].validFrom <= today
      BY <2>0, <2>2 DEF Plan, Checked
    <3>2. revision[q.seen].validFrom \in Nat /\ today \in Nat
      BY <3>1, StartAssumption DEF RowsOK, TypeOK
    <3>3. QED
      BY <2>1, <2>2, <3>1, <3>2 DEF Checked, Status
  <2>3. CASE ~(q.step = "write" /\ q.op = "publish")
    BY <2>0, <2>1, <2>3 DEF Checked, Status, Approved
  <2>4. QED
    BY <2>2, <2>3
<1>2. CASE UNCHANGED vars
  BY <1>2 DEF vars, rows, ChecksHold, Checked, Status, Approved
<1>3. ASSUME NEW w \in Workers, Arrive(w) \/ Run(w) \/ Crash(w)
      PROVE  ChecksHold'
  <2>0. Owns(w, request[w])
    BY DEF RequestsOK
  <2>1. \/ NoService /\ UNCHANGED today
        \/ \E r \in Revisions : AtomicService(w, r)
    <3>1. CASE Arrive(w) \/ Crash(w)
      BY <3>1 DEF Arrive, BeginCreate, BeginEdit, BeginDelete, BeginApprove, BeginWithdraw,
                  BeginPublish, Begin, Crash, Rollback, NoService, rows
    <3>2. CASE Run(w)
      BY <3>2, RunIsAtomic
    <3>3. QED
      BY <1>3, <3>1, <3>2
  <2>2. ASSUME NEW v \in Workers \ {w}
        PROVE  Checked(request[v])'
    <3>1. request'[v] = request[v]
      BY <1>0, <1>3, <2>0, OthersUntouched
    <3>2. QED
      BY <2>1, <3>1, CheckedStays
  <2>3. Checked(request[w])'
    <3>1. CASE Arrive(w)
      <4>1. request'[w].step # "write" \/ request'[w].op \in {"create", "delete"}
        <5>1. ASSUME NEW r, NEW day, BeginCreate(w, r, day)
              PROVE  request'[w].op = "create"
          BY <1>0, <2>0, <5>1, BeginFields DEF BeginCreate
        <5>2. ASSUME NEW r, NEW c, BeginEdit(w, r, c)
              PROVE  request'[w].step = "check"
          BY <1>0, <2>0, <5>2, BeginFields DEF BeginEdit
        <5>3. ASSUME NEW r, BeginDelete(w, r)
              PROVE  request'[w].op = "delete"
          BY <1>0, <2>0, <5>3, BeginFields DEF BeginDelete
        <5>4. ASSUME NEW r, BeginApprove(w, r)
              PROVE  request'[w].step = "lock"
          BY <1>0, <2>0, <5>4, BeginFields DEF BeginApprove
        <5>5. ASSUME NEW r, BeginWithdraw(w, r)
              PROVE  request'[w].step = "check"
          BY <1>0, <2>0, <5>5, BeginFields DEF BeginWithdraw
        <5>6. ASSUME BeginPublish(w)
              PROVE  request'[w].step = "lock"
          BY <1>0, <2>0, <5>6, BeginFields DEF BeginPublish
        <5>7. QED
          BY <3>1, <5>1, <5>2, <5>3, <5>4, <5>5, <5>6 DEF Arrive
      <4>2. QED
        BY <4>1 DEF Checked
    <3>2. CASE AcquireRow(w)
      <4>1. /\ request'[w] = [op |-> request[w].op, step |-> request[w].step,
                              rev |-> request[w].rev, arg |-> request[w].arg,
                              seen |-> request[w].seen, need |-> Tail(request[w].need)]
            /\ NoService /\ UNCHANGED today
        BY <1>0, <3>2, AcquireFrame DEF AcquireRow, NoService, rows
      <4>2. Checked(request[w])
        BY DEF ChecksHold
      <4>3. QED
        BY <4>1, <4>2 DEF Checked, NoService, Status, Approved
    <3>3. CASE Finish(w)
      BY <1>0, <3>3, FinishFrame DEF Checked, Idle
    <3>4. CASE Run(w) /\ ~Finish(w) /\ ~AcquireRow(w)
      <4>1. \/ CheckEdit(w) \/ LockLatest(w) \/ CheckApprove(w)
            \/ CheckWithdraw(w) \/ LockCurrent(w)
        BY <3>4 DEF Run, AbortDeadlock, WriteCreate, RejectCreate, WriteEdit,
                    WriteDelete, WriteApprove, WriteWithdraw, WritePublish, Rollback
      <4>2. QED
        BY <3>4, <4>1, CheckStep
    <3>5. QED
      BY <1>3, <3>1, <3>2, <3>3, <3>4 DEF Crash, Rollback
  <2>4. QED
    BY <2>2, <2>3 DEF ChecksHold
<1>4. QED
  BY <1>1, <1>2, <1>3 DEF Next

-----------------------------------------------------------------------------
(***************************************************************************)
(* The invariant, from which the theorems follow.                          *)
(***************************************************************************)
LEMMA StepIsAtomic ==
  ASSUME Inv, [Next]_vars
  PROVE  \/ NoService /\ (NextDay \/ UNCHANGED today)
         \/ \E w \in Workers, r \in Revisions : AtomicService(w, r)
<1>1. CASE NextDay \/ UNCHANGED vars
  BY <1>1 DEF NextDay, vars, rows, NoService
<1>2. ASSUME NEW w \in Workers, Arrive(w) \/ Crash(w)
      PROVE  NoService /\ UNCHANGED today
  BY <1>2 DEF Arrive, BeginCreate, BeginEdit, BeginDelete, BeginApprove, BeginWithdraw,
              BeginPublish, Begin, Crash, Rollback, NoService, rows
<1>3. ASSUME NEW w \in Workers, Run(w)
      PROVE  UNCHANGED today /\ (NoService \/ \E r \in Revisions : AtomicService(w, r))
  BY <1>3, RunIsAtomic DEF Inv
<1>4. QED
  BY <1>1, <1>2, <1>3 DEF Next

LEMMA RowsStep ==
  ASSUME Inv, [Next]_vars
  PROVE  /\ RowsTyped' /\ RowsOK' /\ ApprovedAsFrozen' /\ PublicationsStand'
         /\ LogTellsStatus' /\ ApprovedInOrder'
<1>0. RowsTyped
  BY DEF Inv, TypeOK, RowsTyped
<1>1. CASE NoService /\ (NextDay \/ UNCHANGED today)
  <2>1. RowsTyped' /\ ApprovedAsFrozen' /\ PublicationsStand' /\ LogTellsStatus' /\ ApprovedInOrder'
    <3>1. revision' = revision /\ log' = log /\ publications' = publications
      BY <1>1 DEF NoService
    <3>2. RowsTyped'
      BY <1>0, <1>1, <3>1 DEF NextDay, RowsTyped
    <3>3. ApprovedAsFrozen' /\ PublicationsStand'
      BY <3>1 DEF Inv, ApprovedAsFrozen, PublicationsStand, Approved, Status
    <3>4. LogTellsStatus'
      BY <3>1 DEF Inv, LogTellsStatus, Status
    <3>5. ApprovedInOrder'
      BY <3>1 DEF Inv, ApprovedInOrder, Approved, Status
    <3>6. QED
      BY <3>2, <3>3, <3>4, <3>5
  <2>2. RowsOK'
    <3>1. ASSUME NEW i \in 1..Len(publications)
          PROVE  /\ revision[publications[i].rev].validFrom \in Nat
                 /\ revision[publications[i].rev].validFrom <= today
      <4>1. publications[i].rev \in Revisions
        BY <1>0, EntriesTyped
      <4>2. Status(publications[i].rev) = "approved"
        BY DEF Inv, PublicationsStand
      <4>3. QED
        BY <4>1, <4>2, StartAssumption DEF Inv, RowsOK
    <3>2. today \in Nat /\ today' \in Nat /\ today <= today'
      BY <1>0, <1>1, StartAssumption DEF NextDay, RowsTyped
    <3>3. \A i \in 1..Len(publications) : revision[publications[i].rev].validFrom <= today'
      BY <3>1, <3>2
    <3>4. QED
      BY <1>1, <3>3 DEF Inv, NoService, RowsOK, Status
  <2>3. QED
    BY <2>1, <2>2
<1>2. ASSUME NEW w \in Workers, NEW r \in Revisions, AtomicService(w, r)
      PROVE  /\ RowsTyped' /\ RowsOK' /\ ApprovedAsFrozen' /\ PublicationsStand'
             /\ LogTellsStatus' /\ ApprovedInOrder'
  <2>1. /\ UNCHANGED today
        /\ InsertRow(r) \/ EditRow(r) \/ DeleteRow(r) \/ ApproveRow(r) \/ WithdrawRow(r)
             \/ PublishRow(r)
    BY <1>2 DEF AtomicService
  <2>2. RowsTyped'
    BY <1>0, <2>1, ServiceTypes DEF Inv
  <2>3. QED
    BY <1>0, <2>1, <2>2, ServiceLog, ServiceOrder, ServiceRows DEF Inv
<1>3. QED
  BY <1>1, <1>2, StepIsAtomic

LEMMA InvStep == Inv /\ [Next]_vars => Inv'
<1> SUFFICES ASSUME Inv, [Next]_vars PROVE Inv'
  OBVIOUS
<1>1. RequestsTyped' /\ RequestsOK' /\ ChecksHold'
  BY RequestsTypeStep, RequestsStep, ChecksStep, TypeOKImpliesTyped DEF Inv
<1>2. contractStatus' \in {"draft", "active"}
  <2>1. CASE NextDay \/ UNCHANGED vars
    BY <2>1 DEF Inv, TypeOK, NextDay, vars, rows
  <2>2. ASSUME NEW w \in Workers, Arrive(w)
        PROVE  contractStatus' = contractStatus
    BY <2>2 DEF Arrive, BeginCreate, BeginEdit, BeginDelete, BeginApprove, BeginWithdraw,
                BeginPublish, Begin, rows
  <2>3. ASSUME NEW w \in Workers, Crash(w) \/ AcquireRow(w) \/ AbortDeadlock(w) \/ LockLatest(w)
                                     \/ LockCurrent(w)
        PROVE  contractStatus' = contractStatus
    BY <2>3 DEF Crash, AcquireRow, AbortDeadlock, LockLatest, LockCurrent, Rollback, GoTo, rows
  <2>4. ASSUME NEW w \in Workers, RejectCreate(w) \/ CheckEdit(w) \/ CheckApprove(w) \/ CheckWithdraw(w)
        PROVE  contractStatus' = contractStatus
    BY <2>4 DEF RejectCreate, CheckEdit, CheckApprove, CheckWithdraw, Rollback, GoTo, rows
  <2>5. ASSUME NEW w \in Workers, WriteCreate(w) \/ WriteEdit(w) \/ WriteDelete(w) \/ WriteApprove(w)
                                     \/ WriteWithdraw(w)
        PROVE  contractStatus' = contractStatus
    BY <2>5 DEF WriteCreate, WriteEdit, WriteDelete, WriteApprove, WriteWithdraw, Rollback, rows
  <2>6. ASSUME NEW w \in Workers, WritePublish(w)
        PROVE  contractStatus' \in {contractStatus, "active"}
    BY <2>6 DEF WritePublish, Rollback, rows
  <2>7. contractStatus \in {"draft", "active"}
    BY DEF Inv, TypeOK
  <2>8. QED
    BY <2>1, <2>2, <2>3, <2>4, <2>5, <2>6, <2>7 DEF Next, Run
<1>3. TypeOK'
  BY <1>1, <1>2, RowsStep DEF TypeOK, RequestsTyped, Requests, RowsTyped
<1>4. QED
  BY <1>1, <1>3, RowsStep DEF Inv

(***************************************************************************)
(* Whoever is past its locks owns the rows it works on, what it checked    *)
(* holds until it writes, and the rows are what the services promise:      *)
(* the inductive invariant of the transactions.                            *)
(***************************************************************************)
THEOREM TransactionsInvariant == Spec => []Inv
<1>1. Init => Inv
  <2> SUFFICES ASSUME Init PROVE Inv
    OBVIOUS
  <2>1. TypeOK
    BY StartAssumption DEF Init, TypeOK, RevisionRows, Absent, Idle
  <2>2. RequestsOK
    BY NoneAssumption DEF Init, RequestsOK, Plan, Owns, ContractFirst, Idle, HoldsNothing
  <2>3. ChecksHold
    BY DEF Init, ChecksHold, Checked, Idle
  <2>4. /\ \A r \in Revisions : Status(r) = "absent"
        /\ log = <<>> /\ publications = <<>>
    BY DEF Init, Status, Absent
  <2>5. RowsOK /\ ApprovedAsFrozen /\ PublicationsStand /\ LogTellsStatus /\ ApprovedInOrder
    BY <2>4 DEF RowsOK, ApprovedAsFrozen, PublicationsStand, LogTellsStatus, ApprovedInOrder,
                Approved
  <2>6. QED
    BY <2>1, <2>2, <2>3, <2>5 DEF Inv
<1>2. QED
  BY <1>1, InvStep, PTL DEF Spec

(***************************************************************************)
(* Type correctness: a statement never writes a row of another shape,      *)
(* whatever the other workers did since the row was read.                  *)
(***************************************************************************)
THEOREM TypeCorrect == Spec => []TypeOK
<1>1. Inv => TypeOK
  BY DEF Inv
<1>2. QED
  BY <1>1, TransactionsInvariant, PTL

(***************************************************************************)
(* The properties of the rows, for any number of concurrent requests.      *)
(***************************************************************************)

\* The audit log tells the status of every revision: a decision and its event
\* commit together, and no draft that was decided is deleted.
THEOREM LogAgrees == Spec => []LogTellsStatus
<1>1. Inv => LogTellsStatus
  BY DEF Inv
<1>2. QED
  BY <1>1, TransactionsInvariant, PTL

\* Two approvals at once leave the revisions in the order of their dates: the
\* latest approved revision is read under the lock of the contract.
THEOREM ApprovalsInOrder == Spec => []ApprovedInOrder
<1>1. Inv => ApprovedInOrder
  BY DEF Inv
<1>2. QED
  BY <1>1, TransactionsInvariant, PTL

\* An approved revision has the composition its snapshot froze: an edit that
\* raced the approval was checked against the row it locks.
THEOREM ApprovedIsFrozen == Spec => []ApprovedAsFrozen
<1>1. Inv => ApprovedAsFrozen
  BY DEF Inv
<1>2. QED
  BY <1>1, TransactionsInvariant, PTL

\* What was published is not withdrawn afterwards, although publication and
\* withdrawal read the day and the status one after the other.
THEOREM PublishedStays == Spec => []PublicationsStand
<1>1. Inv => PublicationsStand
  BY DEF Inv
<1>2. QED
  BY <1>1, TransactionsInvariant, PTL

(***************************************************************************)
(* A request that locks the contract first and waits holds the contract,   *)
(* if it holds anything: two such requests cannot wait for each other.     *)
(***************************************************************************)
LEMMA WaitedForHoldsContract ==
  ASSUME RequestsTyped, RequestsOK, NEW w \in Workers, NEW v \in Workers,
         WaitsFor(v, w), request[w].op # "edit"
  PROVE  lock["contract"] = w
<1>1. Head(request[v].need) \in Rows /\ lock[Head(request[v].need)] = w
  BY DEF RequestsTyped, Requests, WaitsFor
<1>2. ~HoldsNothing(w)
  BY <1>1 DEF HoldsNothing
<1>3. QED
  BY <1>2 DEF RequestsOK, Plan, Owns

LEMMA NoDeadlockWithoutEdit == Inv => OnlyEditsDeadlock
  BY WaitedForHoldsContract, TypeOKImpliesTyped DEF Inv, OnlyEditsDeadlock

\* Of two requests that wait for each other one is an edit, which alone locks
\* its revision before the contract.
THEOREM EditsAloneDeadlock == Spec => []OnlyEditsDeadlock
  BY TransactionsInvariant, NoDeadlockWithoutEdit, PTL

(***************************************************************************)
(* Atomicity: every step leaves the revisions, the log and the             *)
(* publications alone, or is a whole service, whose conditions hold of the *)
(* rows as they are when it writes.  Only the comparison of a date with    *)
(* today is as old as the check: midnight may pass before the write.       *)
(***************************************************************************)
Service ==
  \E r \in Revisions : \/ InsertRow(r) \/ EditRow(r) \/ DeleteRow(r)
                        \/ ApproveRow(r) \/ WithdrawRow(r) \/ PublishRow(r)

ServicesAreAtomic == [][Service]_<<revision, log, publications>>

\* Every step of every worker is one service or none.
THEOREM Atomicity == Spec => ServicesAreAtomic
<1>1. Inv /\ [Next]_vars => [Service]_<<revision, log, publications>>
  BY StepIsAtomic DEF AtomicService, NoService, Service
<1>2. QED
  BY <1>1, TransactionsInvariant, PTL DEF Spec, ServicesAreAtomic

(***************************************************************************)
(* A decided revision is only ever withdrawn: no service writes another    *)
(* column of it.                                                           *)
(***************************************************************************)
LEMMA ServiceKeepsDecided ==
  ASSUME RowsTyped, NEW p \in Revisions, InsertRow(p) \/ EditRow(p) \/ DeleteRow(p)
           \/ ApproveRow(p) \/ WithdrawRow(p) \/ PublishRow(p),
         NEW r \in Revisions, Status(r) \in {"approved", "withdrawn"}
  PROVE  /\ revision'[r].status \in {"approved", "withdrawn"}
         /\ revision'[r] = [revision[r] EXCEPT !.status = revision'[r].status]
<1>0. revision[r] \in RevisionRows /\ revision[r].status \in {"approved", "withdrawn"}
  BY DEF RowsTyped, Status
<1>1. revision[r] = [revision[r] EXCEPT !.status = revision[r].status]
  BY <1>0 DEF RevisionRows
<1>2. CASE revision'[r] = revision[r]
  BY <1>0, <1>1, <1>2
<1>3. CASE revision'[r] # revision[r]
  <2>1. r = p /\ WithdrawRow(p)
    BY <1>0, <1>3 DEF InsertRow, EditRow, DeleteRow, ApproveRow, WithdrawRow, PublishRow,
                      RowsTyped, Status
  <2>2. revision'[r] = [revision[r] EXCEPT !.status = "withdrawn"]
    BY <2>1 DEF WithdrawRow, RowsTyped
  <2>3. revision'[r].status = "withdrawn"
    BY <1>0, <2>2 DEF RevisionRows
  <2>4. QED
    BY <2>2, <2>3
<1>4. QED
  BY <1>2, <1>3

\* A request that read a draft never writes over the decision another took in
\* the meantime.
THEOREM DecisionsAreFinal == Spec => DecidedIsFinal
<1>1. Inv /\ [Next]_vars =>
        [\A r \in Revisions :
           Status(r) \in {"approved", "withdrawn"} =>
             /\ revision'[r].status \in {"approved", "withdrawn"}
             /\ revision'[r] = [revision[r] EXCEPT !.status = revision'[r].status]]_vars
  <2> SUFFICES ASSUME Inv, [Next]_vars, NEW r \in Revisions,
                      Status(r) \in {"approved", "withdrawn"}
               PROVE  /\ revision'[r].status \in {"approved", "withdrawn"}
                      /\ revision'[r] = [revision[r] EXCEPT !.status = revision'[r].status]
    OBVIOUS
  <2>1. RowsTyped
    BY DEF Inv, TypeOK, RowsTyped
  <2>2. CASE NoService
    <3>1. revision[r] \in RevisionRows
      BY <2>1 DEF RowsTyped
    <3>2. revision[r] = [revision[r] EXCEPT !.status = revision[r].status]
      BY <3>1 DEF RevisionRows
    <3>3. QED
      BY <2>2, <3>2 DEF NoService, Status
  <2>3. CASE \E w \in Workers, p \in Revisions : AtomicService(w, p)
    BY <2>1, <2>3, ServiceKeepsDecided DEF AtomicService
  <2>4. QED
    BY <2>2, <2>3, StepIsAtomic
<1>2. QED
  BY <1>1, TransactionsInvariant, PTL DEF Spec, DecidedIsFinal

=============================================================================
