# Verification of rpsd-config

rpsd-config is the configuration and contract service of the Rapsodia platform.
It decides which configuration the data plane runs for a transport contract on a given day, and who may change it.
It is a Django application (django-ninja API, pages, administration site) over PostgreSQL; it also drives Keycloak, an object storage and a RabbitMQ broker.
Several gunicorn workers serve requests at the same time, without `ATOMIC_REQUESTS`: each service opens its own transaction, at READ COMMITTED, and takes the row or advisory locks it asks for.
What this project checks is what follows from that: what requests do to each other, and what remains when one of them dies or an external service refuses.

Paths below are relative to `src/src/rpsd_config/`; `services/` is `exchange_agreement/services/`.

## Inventory

### Contract configuration revisions (`services/contract_revisions.py`, `contract_drafts.py`, `publication.py`)

- State: the contract row (status, start, end), its revision rows (status, valid_from, profile, composition, replaced revision, snapshot), the status events, the publications. The revision in force is not stored: it is the approved one with the latest valid_from not after the day.
- Operations: create a draft, create a replacement, replace the composition, save indicator values, delete, approve, withdraw, move the dates of a draft contract, publish; profiles are retired from the catalogue; midnight passes.
- Interactions: the administration site writes the same rows through forms; the ingest API reads the revision in force; approval reads the catalogue.
- Hard: two approvals at once, an edit during an approval, deletion during approval, withdrawal during publication, an order of withdrawals and approvals nobody wrote a test for, forms that write back rows read long before.
- Correct when: a day has one configuration, derived periods agree with the resolution, the past is never rewritten, a contract once configured stays so, an approved revision is what was frozen, what is published stays approved.

### Configuration assets (`services/configuration_assets.py`)

- State: asset versions of a family (type, what), their files in the storage, the outbox of events, the advisory lock of the family, the locks of event rows.
- Operations: upload with or without activation, activate, archive, publish an event after the commit, retry from a command, the label form.
- Interactions: the storage is written before the row, the broker after the commit.
- Hard: a crash between commit and publication, a failed upload that must remove its file, concurrent activation, a retry that meets the request still sending.
- Correct when: one version is active, its file exists, the outbox tells the active version, every event is sent in the end and none again once published.

### Agency memberships (`services/agency_memberships.py`, `server/socialaccount_adapter.py`)

- State: the groups of a user in Keycloak, the groups in the claims stored at login, the membership row.
- Operations: acceptance of an invitation, change of role, revocation, login, the synchronisation command.
- Hard: there is no transaction over Keycloak and the database; a call is refused, or succeeds and its answer is lost, or the worker dies between the two.
- Correct when: an active row is backed by its group, a change stopped half way is on the row, a change of role never costs access, a revoked user has no group.

### Invitations (`views.py`, `api.py`, `services/agency_invitations.py`, `invitation_rejections.py`)

- State: invitation rows (status, target, role, expiry), contract memberships.
- Operations: create, accept, reject; expiry.
- Hard: acceptances of one user at once, the same open invitation taken by two, an error that rolls back the status it is reporting.
- Correct when: the role of a member is the highest accepted, and a decision is taken once.

### Agencies and their invitations (`services/agency_bootstrap.py`, `agency_invitations.py`, `server/keycloak_admin.py`)

- State: agency rows, pending invitations, the tree of groups and the accounts of the realm.
- Operations: bootstrap of an agency with its first administrator, later invitations, credentials set by who is invited.
- Hard: five or more calls to Keycloak inside one transaction, any of which is refused or unanswered; two requests making the same group.
- Correct when: every agency committed has its invitation, every invitation its groups and account, and the tree of groups has no orphan.

### What a user may do (`exchange_agreement/rbac.py`, `services/contract_revision_permissions.py`, `views.py`, `api.py`)

- State: none of its own; it reads the claims of the last login, the membership rows of agency, contract and authority.
- Operations: some twenty decisions, of pages, API and services, written one by one.
- Hard: the sources are copies of each other and disagree for a while; the rules read different ones.
- Correct when: the rules agree on the same user, or will at his next login.

### Contracts of a lot (`models.py`, `Contract`; pages, API, administration site)

- State: the contracts of a lot (company, version, period, status, replacement).
- Operations: creation in three places, forms of the administration site, publication, deletion.
- Hard: the rules are in `clean`, which reads rows without a lock before the statement; only exclusion and uniqueness are the database's.
- Correct when: a day of the lot has one contract, and a closed contract stays closed.

### M2M principals (`services/m2m_provisioning.py`, `m2m_secret_store.py`)

- State: the row of the principal and its encrypted secret, the client in Keycloak and its secret.
- Operations: provisioning with the company, rotation, revocation, deletion of the company, the status form.
- Hard: a compensation that takes away a client, two companies whose names give one client id, rotations and revocations at once.
- Correct when: a client has one owner, the stored secret is the accepted one, and who was revoked gets no token.

### Answers to M2M clients (`services/m2m_grants.py`, `ingest_resolution.py`, `validation_plans.py`, `api.py`)

- State: contract, principal, grants and revision in force, all written by others.
- Operations: list, detail, profile, inputs, indicators, publications, users, authorization, resolution and the plans v3 to v5.
- Hard: a request reads its rows one by one, in an order of its own per version of the API; day and moment are read in two time zones.
- Correct when: what a client was told it was allowed to be told, and list and decision agree.

### Technical catalogue (`services/dataset_catalog.py`, `flow_catalog.py`, `processing_profiles.py`, `indicator_catalog.py`, `indicator_dependencies.py`, `validation_models.py`)

- State: versions of rules, specifications, flows, orchestrations, indicators and profiles, and what each is built from.
- Operations: creation, composition, cloning, publication, deprecation, withdrawal, deletion, dependency edges.
- Hard: a publication reads many rows and locks some; two edges added at once; deletion of a part.
- Correct when: what is published rests on what is published, the graph has no cycle, a profile supplies what its indicators read, and what has left the draft keeps its parts.

### Composition of a revision and evaluations (`services/contract_revisions.py`, `revision_indicator_values.py`, `validation_plans.py`, `indicator_evaluations.py`, `evaluation_models.py`)

- State: the indicators and inputs of a draft, their values, the values of what they require; thresholds, penalties and their link; the snapshot.
- Operations: create, clone, compose, save values, save and link conditions, approve; forms of the administration site.
- Hard: three writers that read before they lock, values that belong to indicators chosen or only required, dates that move below a window.
- Correct when: an approved revision can be calculated and is served, and shows the rows it froze.

### Formal definitions and the import (`services/formal_definitions.py`, `catalog_import.py`)

- State: definitions, dependency edges, proofs, the specifications they read, the snapshot of an approval.
- Operations: save, link, prove, publish, retire; approval; import of a package.
- Hard: some of it is under the lock of the graph and some is not; the proof is compared and copied by different queries.
- Correct when: a published version is defined as it was proved, an approval freezes the proof of what it freezes, an import leaves what the package says.

### The rest

`PROJECT.json` lists every component with its status; what is left out is under "Not modelled".

## Modules

| Module | Models |
| --- | --- |
| ContractRevisions | one contract, its revisions and publications; one action per service |
| ConfigurationTimeline | what those rows promise: a calendar of configurations |
| TimelineRefinement | the mapping of the rows to the calendar |
| ContractRevisions_proofs | the theorems about ContractRevisions, with the forms and without, and that it implements ConfigurationTimeline |
| AdministrationForms | ContractRevisions with the forms of the administration site |
| RevisionTransactions | the same services as transactions of statements and row locks |
| RevisionTransactions_proofs | the theorems about RevisionTransactions |
| RevisionComposition | what a draft chooses from its profile, and what approval freezes of it |
| IndicatorEvaluations | thresholds and penalties of an indicator in the revisions of a contract |
| TechnicalCatalog | six kinds of version, their publication and the graph |
| TechnicalCatalog_proofs | the theorems about any such catalogue |
| Catalogue_proofs | the theorems about the two catalogues of MCCatalogue, RevisionComposition, FormalDefinitions and CatalogImport |
| FormalDefinitions | definitions, proofs, publication and approval |
| CatalogImport | FormalDefinitions with the import of a package |
| ConfigurationAssets | a family of asset versions, storage, outbox and broker |
| ConfigurationAssets_proofs | the theorems about ConfigurationAssets |
| LotContracts | the contracts of one lot |
| M2MPrincipals | the M2M clients of companies, here and in Keycloak |
| M2MPrincipals_proofs | the theorems about M2MPrincipals |
| IngestAccess | the answers to those clients |
| AgencyOnboarding | agencies opened and invited to, rows and Keycloak |
| AgencyOnboarding_proofs | the theorem about AgencyOnboarding |
| AgencyMemberships | one user in one agency: Keycloak, claims and row |
| ContractAccess | AgencyMemberships with the rules that read it |
| Invitations | invitations to a contract and the memberships they give |
| Agreements_proofs | the theorems about Invitations, LotContracts, IndicatorEvaluations, IngestAccess, AgencyMemberships, ContractAccess and AdministrationForms |

`MC*.tla` gives them small constants and symmetry; each `.cfg` is one question.
`Mut_` operators, beside the definition they alter, are plausible bugs of that definition: each property is known to fail under one of them.
`MCAgreements` and `MCCatalogue` check several components each, that share no state with each other: a variable `part` is chosen at first, and only that component moves in the behaviour. What the run says is what a run of each component by itself would say.

**ContractRevisions** takes each service as one step, which is sound for what it says because every service that decides locks the contract row first, or, for an edit, the revision row.
A revision's row is spread over functions named after its columns.
The composition of a revision (inputs, indicators, their values) is an element of `Configs`; `ConfigsOf` says which a profile admits, `ApprovableConfigs` which pass `validate_revision_for_approval`. RevisionComposition says what these are made of.
`LatestBy` is the ORDER BY of the resolution; `NextRevision` and `EndsBefore` are the derived period.
The forms may do more than the services, so they are added in AdministrationForms only; the status form of the contract, which has no service of its own, is in `Spec` with the dates left alone.

**ConfigurationTimeline** has a day, a calendar and the rule that only the future is rewritten.
`TimelineRefinement` instantiates it with the calendar read from the approved rows; `ImplementsTimeline` says that every behaviour of ContractRevisions is one of the calendar.

**RevisionTransactions** gives each worker a request: what it has locked, what it still has to lock (`need`, in the order of the code), and what it has read (`seen`).
A request begins, locks, checks, writes and commits in separate actions; a lock waits for its holder; a cycle of waits is broken as PostgreSQL does; a worker may die at any step and its transaction is rolled back.
The form of the administration site reads the whole row, is checked by `clean` against the row as it is then, and writes every column it has read.
The contract starts on StartDate and does not end.
Edits lock the revision and then the contract, every other service the contract and then the revision: they may deadlock, and PostgreSQL ends one of them. `OnlyEditsDeadlock` says that no other pair can.

**RevisionComposition** has the three tables a draft is made of: chosen indicators with their values (`own`), inputs, and the values of indicators that are only required (`implied`).
The page of a composition reads the values first and locks the draft afterwards (`post` is what it holds in between); the editor of values and the administration site write one row.
Approval resolves the closure again, checks one version per indicator, inputs for every specification read and a value for every parameter, and freezes the lot.

**IndicatorEvaluations** has one indicator in each revision, a window as a kind with its two days, and the dimensions a metric advertises.
Deletion and unselection take a linked penalty with its threshold, because the foreign key is PROTECT and the code deletes in that order.
Only the parts of the conditions that are checked against something else are there; amounts, limits and texts are not.

**TechnicalCatalog** has one variable for the rows of all six kinds, because their life is the same, and one relation for what is built from what.
A publication (`publish`) reads its parts one after another; `todo` is what is still to be read, `inputs` what was found. What it locks at first is `Locked`, and what a reading locks `LockedRead`, kind by kind.
The advisory lock of the graph is a row of `lock`.

**FormalDefinitions** describes a definition by what it rests on and what its checks mention; the fingerprint of a proof is the set of records it was taken of.
`VerifyDefinition`, `BeginPublish` and `SaveVersion` are under the lock of the graph, `SaveSpecification`, `RenameDataset` and the steps of the approval are not.
**CatalogImport** adds the import, a plan and a commit under that lock.

**ConfigurationAssets** serialises uploads and changes on the family lock and events on their rows.
Storage and broker are sets and counters; either may refuse, and the broker may take a message whose answer is lost.
A request goes on, after its commit, to publish its event, which is where it may die.
The label form writes a status back as it was read, and no event with it: `overwritten` remembers whether that has changed a status. `OutboxTellsActive` says that one version is active at most, with the form, and that the outbox tells which, where no stale form has changed a status.

**LotContracts** gives each request a check and a write; between the two any other may commit. The constraints of the database are guards of the write (`Storable`).

**M2MPrincipals** has Keycloak as a set of clients with their current secret, and each service as the calls and statements it makes, one step each.
`edited`, `spoiled` and `left` remember what explains a disagreement: a status form, a client that another request has touched, a client left by a fault. The properties are stated for the rest.

**IngestAccess** gives a request its reads in the order of the code, one per step; the endpoints differ in what they read and how often.
`held` is a history variable: what was true of the client's right at some moment of the request. `AnsweredWasAllowed` asks that all of it was.
A day has two moments, because between midnight and two the UTC day of the list is the day before.

**AgencyOnboarding** is one request as the calls it makes: look up and create each group of the path, find and create the account, insert. The rows of a transaction are in `request` until it commits.

**AgencyMemberships** keeps the groups apart from the row, so that any pair of them can be reached.
The calls are actions that succeed, are refused, or lose their answer.
`lost` remembers whether an answer was lost, a worker has died or old claims were synchronised: `RowTellsKeycloak` is stated for the behaviours where nothing was and no request is under way (`Quiet`), `ChangeKeepsAccess` for all.
**ContractAccess** reads that state with every combination of the standings that do not depend on it, and compares the rules of pages, API and services. `AccessFollowsKeycloak` has three parts: the row is backed by its group, the rules agree, and where the API refuses what the pages allow the next login settles it.

**Invitations** splits an acceptance into the statement that locks the invitation and reads the membership, and the commit.
The rejection is a single step. A refusal changes nothing, and the expired status an acceptance writes before it refuses is rolled back, so it is not a step.

## Runs

| Run | Checks | Bounds |
| --- | --- | --- |
| contract_revisions | the lifecycle: one configuration a day, periods, past, freezing, publications; that the rows implement the calendar | 3 revisions, 4 days, 1 profile, a composition that can be approved and one that cannot, 1 publication |
| first_revision_gap | shows the gap left by withdrawing the first revision | as above |
| revision_transactions | decisions, log, order, freezing, publications and deadlocks under concurrency | 2 workers, 3 revisions, 2 compositions, 3 days, 3 decisions, 1 publication |
| decided_by_form | shows the form undoing a decision | 2 workers, 2 revisions, 4 decisions |
| configuration_assets | files, active version, outbox | 2 workers, 2 files, 2 versions, 3 events, 1 delivery of each |
| asset_delivery | what is published was sent, and once; every event is sent | 2 workers, 1 version, 2 events, 2 deliveries of each |
| catalogue | datasets: TechnicalCatalog on a rule, specifications and indicators | 2 workers, a rule, a specification, 2 indicators with formal definitions |
| | profiles: TechnicalCatalog on the parts of a profile | 1 worker, 6 versions |
| | composition: RevisionComposition | 2 revisions, 2 profiles, 3 indicator versions, 2 flows, 2 edits |
| | definitions: FormalDefinitions and CatalogImport | 1 worker, 1 specification, 2 names, 1 edit, a package |
| profile_snapshot | shows a profile published over a part withdrawn meanwhile | 1 worker, one part of each kind |
| formal_snapshot | shows a proof frozen with other definitions | as definitions |
| agreements | onboarding: agencies and their invitations | 2 agencies, 1 address, 2 workers, 2 invitations |
| | invitations | 3 invitations, 2 users, 3 days |
| | agency: rows, groups and rules, with refused calls, lost answers, crashes and stale claims | 1 request at a time, 3 roles, all standings |
| | lot | 2 contracts, 2 companies, 2 requests, 2 days, 1 form |
| | m2m | 2 companies of one client id, 2 workers, 2 clients, 2 secrets, 1 status edit |
| | evaluations | 2 revisions, 2 days, 4 windows, 2 metrics, 3 changes |
| | access | 2 companies, 1 category and any, 2 revisions, 2 days of two moments, 1 change by hand |
| | forms | 2 revisions, 3 days, 2 compositions, 1 publication |
| membership_revoked | shows a group left after a revocation | as agency |
| closed_reopened | shows a closed contract opened again | 1 contract, 2 forms |

Why these bounds are enough to meet the interesting cases: three revisions give a first, a last and one in between, hence a period that closes and one that does not; four days give a past, a today, a future and a contract that starts or ends within the calendar.
Two workers give every pair of services at every pair of statements; lock cycles in this code have two members, because each service takes at most the contract and its revisions in one of two orders.
Three events let an older version be activated again after a newer one; two let one be replaced by another while the first is under way; two deliveries distinguish a message sent from one sent again.
The profiles of the catalogue need one worker only beside those of the datasets: with the parts in their places, retiring one is a single step that falls between any two reads of the publication.
Two versions of one indicator, one of them in another profile, are the least that makes a closure meet both; two clients and two secrets let a rotation be overtaken, and two companies of one id let a compensation meet the client of the other.
Every bound is a constant named in its module and stands in a guard or in the set of days.
Deadlock checking is off in all of them: the calendar ends, and so do the bounded counters.
Symmetry is used for interchangeable rows, compositions and workers, never in the run with a liveness property.

### Fairness

`ConfigurationAssets!FairSpec`: requests proceed; the command `retry_config_asset_events` is run again and again, for every event it may take; and a broker that is asked for ever takes a message in the end. Without the second, an event committed just before a crash is never sent: the code relies on that command. No other module needs fairness: its properties are about what a step may do and what a state may be.

## What is proved

ContractRevisions_proofs proves, for every calendar of naturals, every set of revisions and catalogue, and any number of publications:

- `TypeCorrect`: every row has the columns the model declares.
- `Lifecycle`: `LifecycleInvariant` is inductive. It says that approved revisions start on distinct days inside the contract, hold a snapshot equal to their content, and that what was published is approved, started, and equal to its copy. Neither conjunct is inductive alone: that a publication stands needs that its revision has started, and that a started revision keeps its date; that a frozen composition stays needs that only drafts are edited; that dates stay inside the contract needs that its dates move only while every revision is a draft.
- `NoDoubleConfiguration`: at most one revision governs a day, since the latest start is the start of one revision only.
- `PastIsStable`: no step changes what governs a day already past. What governs a day depends only on the approved revisions started by then and on the period of the contract (`SamePast`); each action leaves both alone, because it approves from today on, withdraws after today, or moves dates when nothing is approved.
- `PeriodsPartitionTheContract`: the periods derived from the next revision and the resolution agree on every day. It rests on the existence of a next revision when a later one exists, by the well-ordering of the naturals (`LeastNatural`).
- `NoHole`: a contract configured today and still within its period tomorrow is configured tomorrow: the revision started today stays (`StartedStays`), and among those started one is the latest (`LatestExists`).
- `FrozenAndPublished`: `ApprovedAsFrozen` and `PublicationsStand` hold always.
- `FormsKeepTheRows`, `NoDoubleConfigurationByForms` and `OnlyDatesRewriteThePast`, of AdministrationForms: what remains true when the forms of the administration site add drafts, edit and delete them and move the dates of a contract. `RowsInvariant` is `LifecycleInvariant` but for what it says of the period of the contract, which the form may move below decided revisions; it is inductive with the forms, and the services keep the rest. A past day is governed by another revision only after the contract has moved.

The assumptions are the named ones of the module: days are naturals, null values are not values, a profile proposes a composition it admits.

AgencyOnboarding_proofs proves, for any agencies, addresses and workers and any number of invitations:

- `OnboardingIsWhole`: `BootstrapIsWhole` holds always, whatever call is refused or unanswered and whenever a worker dies. The invariant is `Whole`: with the types, `BootstrapIsWhole`, `WorkIsDone` (a request past a step has what the step makes: past the groups, every group of its agency; past the account, the account) and `InsertedAlone` (an agency inserted and not committed conflicts with no other, since the unique index makes a second one wait). The promise alone is not inductive, because the commit rests on what the request has done before. Groups and accounts are never taken away by this code, so that what was found stays.

RevisionTransactions_proofs proves, for any number of workers, revisions, compositions and days:

- `TransactionsInvariant`: `Inv` is inductive. A request that has begun follows a plan: what its operation still has to lock, in the order of the code (`Plan`), and what it owns by then (`Owns`). A row has one owner, so that what a request has checked of the rows it owns still holds when it writes (`Checked`), and nobody sees between the lock and the commit what it writes.
- `Atomicity`: every step of every worker leaves revisions, log and publications alone, or is one whole service whose conditions hold of the rows as it writes them. This is what lets ContractRevisions take a service as one step. The day is the exception, and is stated as one: it was read before, and may be over (a hazard without a property).
- From these: `LogAgrees`, `ApprovalsInOrder`, `ApprovedIsFrozen`, `PublishedStays` and the action property `DecisionsAreFinal`. Two approvals overlap for as long as neither has locked the contract; after that the second reads what the first has committed.
- `EditsAloneDeadlock`: of two requests that wait for each other one is an edit. Only an edit locks its revision before the contract; every other operation that waits for a row another one holds has the contract already (`WaitedForHoldsContract`), and the contract has one owner.

The refinement is at the end of ContractRevisions_proofs. `Refinement` proves `Spec => ImplementsTimeline`: the rows start as an empty calendar; an approval is a takeover, because the days from its start on have no later start among the approved ones; a withdrawal is a retraction, because the days of the withdrawn revision go back to the latest one that starts before (`EveExists`); midnight is midnight; every other service leaves the revisions effective on each day as they are. It rests on `LifecycleInvariant`, by which a day names one revision, and on `CalendarAssumption`, that the calendar has no gaps.

ConfigurationAssets_proofs proves, for any versions, files, events and workers and any number of deliveries:

- `AssetsInvariant`: the holder of the family lock is alone in writing versions and in adding to the outbox; the holder of an event row is alone in writing that event; a file is stored before its row and is removed only while no row has it; a request under way knows of its event what the row says.
- `FilesAreStored`, `OutboxIsTrue`, `NothingIsResent`. The second is stated where no stale form has changed a status, as the property is.

Agreements_proofs is about the components that MCAgreements puts side by side, each for any constants:

- Invitations: an acceptance under way holds its invitation pending (`InvitationsInvariant`), so that `HighestRoleStays` and `DecisionsAreTakenOnce`. Roles are only ever raised to the role of the invitation just accepted, by whoever holds the row.
- LotContracts: `OneContractToADay`. Forms and pages check before they write, and what they check may have changed; what a request writes is a row that passed the checks of one row (`HoldsRow`), and the constraints of the database, which see all rows at the write, do the rest. `ClosedUnlessOvertaken`: a closed contract is not changed any more, however many forms were open on it when it was closed, as long as no two requests on one contract have both passed their checks before either writes (`OneAfterChecks`). What a request has passed then still holds when it writes (`CheckHolds`). This is how narrow the window of `closed_reopened` is: it takes two requests in flight, not a form left open.
- IndicatorEvaluations: `FrozenConditionsHold`. Nothing is kept valid while a draft is edited: the approval checks every condition again, and what is frozen is not written any more.
- IngestAccess: `AccessDecided`. The invariant (`PassedHeld`) says that what a request has passed was true at a moment of the request; then the list and the decision agree, and nothing is answered that was not allowed at some moment.
- AdministrationForms: `OneRevisionToADay` and `FormsKeepThePast`, from `FormsKeepTheRows` with the days 1 to `FormLastDay`.
- `TypesAreCorrect`: every part keeps its types. For AgencyMemberships this does not need `InTurn`: what is needed is that a request has read a membership before it acts on it (`AgencyRuns`).
- AgencyMemberships and ContractAccess: `ChangeGivesFirst` and `AccessIsBacked`, from `MembershipInvariant`: Keycloak is called first, and what stopped half way is on the row. They hold, for any number of workers, of every behaviour in which the requests on one membership follow each other (`[]InTurn`: of the requests on it at most one is under way), whoever serves each of them and wherever each is refused, unanswered or killed. The run has one worker, of which `OneWorkerIsInTurn` says that it is always in turn. The hypothesis cannot go: administrators who change one membership at once take no lock, and then one removes what the other has given, or a login writes back the role that another has just revoked, which is a hazard without a property. The invariant speaks of the request that is alone (`Alone`): whoever moves is alone before and after its step (`WhoMovesIsAlone`), because a request that arrives beside another one would leave two. `RevocationTakesItsGroup` adds, under the same hypothesis, that the user is not in the group a revoked row names; another group may remain (`membership_revoked`).

M2MPrincipals_proofs proves, for any companies, clients, secrets and workers, `RevokedIsOff`, `StoredSecretIsTaken` and `ClientsAreOwned`. `ClientsInvariant` says that a client keeps the id it was created with; that rows, and rows about to be committed, have distinct clients; that a request follows its course, from the calls to Keycloak to the commit; that a request which has disabled a client finds it disabled at its commit; that whoever disturbs a client another request relies on is recorded in `spoiled`; and that of the requests on a company nothing has disturbed, one at most has changed its client and not yet its row.

TechnicalCatalog_proofs proves, for any versions, kinds, dependencies and workers, that `CatalogInv` is inductive, and Catalogue_proofs cites it of the catalogues of MCCatalogue (`PublishedRests`, `ProfilesAreSupplied`, `GraphIsAcyclic`, `PublishedIsFrozen`, `ReadUnderLockStands`). A publication is many reads, and none of its promises follows from its commit alone:

- the versions it has visited were published once (`Visited`); each of their parts is visited too or still to be read, and each specification they read is among the inputs found. When nothing is left to read, the visited indicators are closed, and hold all that the roots reach;
- what it has read under a lock is still published (`Secured`), because the row is locked, or because the prerequisites of an indicator cannot be retired while it holds the lock of the graph;
- what has a date keeps its parts, which have a date too; so what a published profile supplies and requires stands for good;
- a link holds the lock of the graph, and its target does not reach its owner. An edge added then closes no cycle (`LinkKeepsAcyclic`: the set reached from any version stays closed and without it), and neither does a copy nobody refers to (`CopyKeepsAcyclic`). Reachability is stated by closed sets, and needs no induction.

Catalogue_proofs proves of the other two parts of MCCatalogue, for any profiles, versions, packages and workers:

- RevisionComposition: `SnapshotsAreCoherent` and `SnapshotsAreTheRows`. No draft is kept coherent while it is edited, and three writers may lose each other's values; what holds is that the approval checks, under the lock of the revision, exactly what it freezes (`ApprovedIsCoherent`), and that no writer touches the rows of a decided revision, because each looks at its status once it has locked it (`DecidedKeepsRows`). The closure is the least closed set that holds the selection, so that it needs no induction.
- FormalDefinitions: `ProofsOfPublishedStand`. A publication compares a proof and commits under the lock of the graph, so that what the proof says is still true at the commit (`PublicationsOK`); a published version rests on versions that were published (`Standing`), of which no text or edge is written again; and nothing is deleted that another version refers to (`GraphOK`). A commit requires that what the version refers to is published, so that nothing below it is a draft.
- CatalogImport: `ImportsAreThePackage`. The import plans and commits under the same lock, and between the two an edit that takes no lock may only delete what was found (`ImportsOK`); then nothing created refers to it.
- `TypesAreCorrect`, of the four parts.

The assumptions are named, and are evaluated by TLC with the constants of each run: null values are not values, days and bounds are naturals, the names of operations are not the null value, every version of the catalogue has a kind. The tables that the modules take as constants (what a metric advertises, what each API version reads) are of the types they say.

Only model-checked: `EveryEventSent`, because liveness under fairness is out of the reach of the prover; and the six properties that a run finds violated, as they stand. What remains true of each is proved: of `first_revision_gap`, `NoHole`; of `decided_by_form`, `DecisionsAreFinal` for the services and `FormsKeepTheRows` for forms that are not overtaken; of `membership_revoked`, `RevocationTakesItsGroup`; of `closed_reopened`, `ClosedUnlessOvertaken`; of `profile_snapshot`, `ReadUnderLockStands` and `ProfilesAreSupplied`; of `formal_snapshot`, `ProofsOfPublishedStand` for the versions themselves. `AccessIsBacked`, `ChangeGivesFirst` and `RevocationTakesItsGroup` say nothing of two requests at once on one membership, by hypothesis.

## Where the code and its own statements differ

Six are runs that TLC finds violated.

- `first_revision_gap`: `withdraw_contract_revision` lets the first approved revision go once a second one is approved. The contract then starts without a configuration, and no revision can be approved on the start date again, while `services/contract_revisions.py:957` says that the first revision must start there.
- `decided_by_form`: the revision form, checked against the row and then writing a row it read before, turns an approved revision back into a draft.
- `membership_revoked`: revocation removes the group of the row only; a group left by a change of role whose removal failed stays, and the next login makes the row active.
- `closed_reopened`: a form checked while the contract was open and written after it was closed opens it again.
- `profile_snapshot`: a profile is published over a flow, specification or indicator that was retired after it was read, since none of them is locked.
- `formal_snapshot`: an approval freezes a proof with definitions it is not the proof of; its readers refuse the snapshot from then on.

Others were met while translating the code. They are modelled as the code has them, without a run of their own: no document says otherwise, or a property is stated around them.

- `Contract.save` moves the dates of a contract whose revisions are decided, which `update_draft_contract_dates` refuses. `PastRewrittenOnlyByDates` says that it is the only way to rewrite the past. It also fills an end date that is missing.
- `_record_asset_event_result` writes the outcome the request holds in memory: a retry that published the event in between is overwritten, and the notice of the asset stays failed. Nothing orders the delivery of events: one that failed is sent after those that followed it.
- The acceptance of an expired invitation writes the expired status and raises in the same transaction: the invitation stays pending and blocks a new one for the same target, until it is rejected.
- A duplicate of a pending agency invitation raises a `ValidationError` that pages and API do not catch; the bootstrap does.
- `ensure_group_path` looks and then creates: of two requests that make the same group one is refused, and with it its whole transaction; groups and accounts already made stay.
- The list of contracts of an M2M client compares with the UTC day, the decision with the local one: they disagree from midnight to two. A client with grants of single categories only lists a contract whose v1 detail answers 403.
- A principal provisioned after its contract gets no default grant; grants survive a change of the company of the contract, and are not honoured.
- Values of a draft saved while a composition is being posted are lost (`views.py:1284-1300`); an indicator that passes from required to chosen loses the values it had; those of required indicators are not cloned; a clone takes indicators that the profile does not propose without their inputs; the administration site saves parameters that no schema has seen. Approval checks all of it again, and `FrozenIsCoherent` holds.
- An import reports as reused a draft that may be edited or deleted by the time it commits; what it creates is as packaged.
- The proof of a published version becomes stale when a draft of its context or a dataset changes, or if that happens while it is published; `PublishedProofStands` is about what it rests on.
- An administrator of the platform who is not superuser may write a contract through the API but neither prepare nor approve its revisions; an active row without claims (a role given back, or a worker that died before it cached the group) opens the pages, and the API answers 404 until the next login.

## Not modelled

- Parameter schemas, XSD bundles, the grammar of formal definitions, the executable definitions of validation rules, the inspection of uploads: each checks one document and keeps nothing.
- The export of the catalogue, which reads a file and writes another; seeds, migrations, settings and the reset of the database, run once.
- Schemas of the API, texts, guidance, layout and the forms of the technical catalogue, as far as they only call the services; the read-only audit.
- Tokens, URLs and payloads of Keycloak, broker and storage: a call is made, refused, or unanswered.
- The hidden forms of the administration site that add or delete agencies and companies by URL.

## Plan

1. Built: the modules above, each composed with those whose rows it shares (ContractAccess over AgencyMemberships, CatalogImport over FormalDefinitions, AdministrationForms and the calendar over ContractRevisions).
2. Proved: every safety property of the passing runs, and the refinement of the calendar.
3. Left: properties for the hazards that have none in `PROJECT.json`, where the code or its owners come to say what should hold: the day of an approval that lasts past midnight, two administrators on one membership, a role given back by an invitation. `AccessIsBacked` could then be stated of requests that overlap.
