---------------------------- MODULE LotContracts ----------------------------
(***************************************************************************)
(* The contracts of one lot: their periods, versions and closing.          *)
(*                                                                         *)
(* The lot has one agency; a contract gives it to a company for a period.  *)
(* Contract.save checks what it is about to write against the rows it      *)
(* reads, and locks none of them: between the check and the statement any  *)
(* other request may commit.  What the database itself refuses are two     *)
(* overlapping periods and two equal versions of a company.                *)
(*                                                                         *)
(* A worker holds one request: a creation, or a form of the administration *)
(* site that was filled in from a row read earlier.  Check is what happens *)
(* up to the end of full_clean, Write the statement and its commit; a      *)
(* statement that waits for another transaction continues when it has      *)
(* ended, so that only committed rows are seen.                            *)
(***************************************************************************)
EXTENDS Integers, FiniteSets, FiniteSetsExt

CONSTANTS
  Contracts,      \* primary keys of contract rows
  Companies,
  Requests,       \* workers that serve a request each
  LastDay,        \* last day of the calendar of the model
  DefaultLength,  \* days of a contract without an end date (six years)
  MaxVersion,     \* bound on versions
  MaxForms,       \* bound on the forms that are opened
  None

\* What is assumed of the constants, by the modules that instantiate this one.
LotAssumption == LastDay \in Nat /\ DefaultLength \in Nat /\ {MaxVersion, MaxForms} \subseteq Nat

VARIABLES
  row,      \* the contract rows of the lot
  request,  \* what each worker is doing
  forms     \* how many forms were opened

vars == <<row, request, forms>>

Days == 0..LastDay
Statuses == {"draft", "active", "closed"}

(* The end of a contract without one is its start plus six years. *)
EndOf(start, end) == IF end = None THEN start + DefaultLength ELSE end

Rows ==
  [company : Companies, start : Days, end : 0..(LastDay + DefaultLength),
   status : Statuses, replacedBy : Contracts \cup {None}, version : 0..MaxVersion]

Idle == [pc |-> "idle", op |-> None, id |-> None, values |-> None]

TypeOK ==
  /\ row \in [Contracts -> Rows \cup {None}]
  /\ request \in [Requests ->
       [pc : {"idle", "checked", "form"}, op : {"create", "edit", None},
        id : Contracts \cup {None}, values : Rows \cup {None}]]
  /\ forms \in 0..MaxForms

-----------------------------------------------------------------------------
Existing == {c \in Contracts : row[c] # None}
Others(c) == Existing \ {c}

Overlap(a, b) == a.start <= b.end /\ b.start <= a.end

SameVersion(a, b) == a.company = b.company /\ a.version = b.version

(* Contract.full_clean.  A closed contract keeps its period: the rows it meets  *)
(* are those of the lot, whatever their status.                            *)
Clean(c, r) ==
  /\ r.start <= r.end
  /\ r.replacedBy # None => r.status = "closed"
  /\ r.replacedBy \in Others(c) \cup {None}
  /\ \A o \in Others(c) : ~Overlap(r, row[o])
  /\ \A o \in Others(c) : ~SameVersion(r, row[o])

Mut_StoresWithoutExclusion(c, r) ==
  r.start <= r.end /\ \A o \in Others(c) : ~SameVersion(r, row[o])

(* What PostgreSQL refuses: the exclusion and the unique constraint, the   *)
(* range, and a reference to a row that is gone.                           *)
Storable(c, r) ==
  /\ r.start <= r.end
  /\ \A o \in Others(c) : ~Overlap(r, row[o]) /\ ~SameVersion(r, row[o])
  /\ r.replacedBy \in Others(c) \cup {None}

(* _set_auto_version_and_type_for_new_contract: the type is that of the    *)
(* version, start for the first and renewal for the next ones.             *)
NextVersion(company) ==
  LET versions == {row[c].version : c \in {e \in Existing : row[e].company = company}}
  IN  IF versions = {} THEN 0 ELSE Max(versions) + 1

Init ==
  /\ row = [c \in Contracts |-> None]
  /\ request = [w \in Requests |-> Idle]
  /\ forms = 0

Done(w) == request' = [request EXCEPT ![w] = Idle]

-----------------------------------------------------------------------------
(* The page and the API create a contract that is not closed; the form of  *)
(* the administration site may create a closed one.                        *)
CheckCreation(w, c, company, start, end, status) ==
  /\ request[w] = Idle
  /\ c \notin Existing
  /\ \A v \in Requests : request[v].op = "create" => request[v].id # c
  /\ NextVersion(company) <= MaxVersion
  /\ LET r == [company |-> company, start |-> start, end |-> EndOf(start, end),
               status |-> status, replacedBy |-> None, version |-> NextVersion(company)]
     IN  /\ Clean(c, r)
         /\ request' = [request EXCEPT ![w] =
                          [pc |-> "checked", op |-> "create", id |-> c, values |-> r]]
  /\ UNCHANGED <<row, forms>>

(* The administrator is shown the row and edits any of its fields but the  *)
(* version and the type.  A closed contract is shown read only.            *)
OpenForm(w, c, r) ==
  /\ request[w] = Idle
  /\ forms < MaxForms
  /\ c \in Existing
  /\ row[c].status # "closed"
  /\ r.version = row[c].version
  /\ request' = [request EXCEPT ![w] = [pc |-> "form", op |-> "edit", id |-> c, values |-> r]]
  /\ forms' = forms + 1
  /\ UNCHANGED row

(* The form is sent.  The row is read again: if it has been closed, every  *)
(* field is read only and nothing is taken from the form.                  *)
Immutable(c, r) == row[c].status = "closed" => r = row[c]

CheckForm(w) ==
  LET c == request[w].id
      r == request[w].values
  IN  /\ request[w].pc = "form"
      /\ IF c \in Existing /\ Immutable(c, r) /\ Clean(c, r)
         THEN request' = [request EXCEPT ![w].pc = "checked"]
         ELSE Done(w)
      /\ UNCHANGED <<row, forms>>

(* The statement.  Model.save inserts again a row that is gone.            *)
Write(w) ==
  LET c == request[w].id
      r == request[w].values
  IN  /\ request[w].pc = "checked"
      /\ row' = IF Storable(c, r) THEN [row EXCEPT ![c] = r] ELSE row
      /\ Done(w)
      /\ UNCHANGED forms

-----------------------------------------------------------------------------
(* The first publication makes a draft active, under the lock of the row.  *)
Publish(c) ==
  /\ c \in Existing
  /\ row[c].status = "draft"
  /\ row' = [row EXCEPT ![c].status = "active"]
  /\ UNCHANGED <<request, forms>>

(* The administration site deletes a contract, unless it replaces another. *)
Delete(c) ==
  /\ c \in Existing
  /\ \A o \in Others(c) : row[o].replacedBy # c
  /\ row' = [row EXCEPT ![c] = None]
  /\ UNCHANGED <<request, forms>>

(* A worker dies, or the administrator leaves the form. *)
Abandon(w) ==
  /\ request[w] # Idle
  /\ Done(w)
  /\ UNCHANGED <<row, forms>>

(* The time and the reason of a closing come and go with its status: a form *)
(* that says otherwise is refused at once and left out.                    *)
Edits(c) ==
  {r \in [company : Companies, start : Days, end : Days, status : Statuses,
          replacedBy : Contracts \cup {None}, version : {row[c].version}] :
     r.start <= r.end /\ (r.replacedBy # None => r.status = "closed")}

Next ==
  \/ \E w \in Requests :
       \/ \E c \in Contracts, company \in Companies, start \in Days,
             end \in Days \cup {None}, status \in Statuses :
            CheckCreation(w, c, company, start, end, status)
       \/ \E c \in Existing : \E r \in Edits(c) : OpenForm(w, c, r)
       \/ CheckForm(w)
       \/ Write(w)
       \/ Abandon(w)
  \/ \E c \in Contracts : Publish(c) \/ Delete(c)

Spec == Init /\ [][Next]_vars

-----------------------------------------------------------------------------
(* Overlaps on the same lot are forbidden: however requests interleave, a  *)
(* day of the lot has one contract.                                        *)
OneContractPerDay ==
  \A c, d \in Existing : c # d => ~Overlap(row[c], row[d])

(* "Closed contracts are immutable (except automatic audit timestamps)":   *)
(* no request changes a contract once it is closed.                        *)
ClosedIsFinal ==
  [][\A c \in Existing : row[c].status = "closed" => row'[c] \in {row[c], None}]_vars

=============================================================================
