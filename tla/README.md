# Verification of the deployment and migration tools

The repository is a collection of the tools and notes of a release-management team. This
project models the programs in it that keep state and can go wrong in ways a test would
hardly reach. The first, and the core, is the deployment of WebSphere (WAS) servers: the
Ansible role `base_was`, whose generated scripts write the one configuration repository that
all servers of a cell share. The second is the release history that MySQL triggers keep of
what is deployed where, the third the continuous integration job that builds each work item
with all it depends on, the fourth the job that prepares a release. Two smaller ones follow:
the migration of projects from SVN to Git, and the mock of the ERIS document service.

Paths below are relative to `src/`; `ROLE` is
`ansible/mloz_configuration/opt/svn/DEPLOY/roles/base_was`, `TRACK` is
`database/mysql/bdc_update_releaseTrack_table_triggers_procedures`, `CI` is
`jenkins/rtd-jenkins/ec-jenkins-scripts/local/data/jenkins-data/scripts/Jenkins/ci.sh`,
`REQUEST` is `request_build.sh` beside it, `SVN` is `MLOZ/container`, and `ERIS` is the package
`eu.europa.ec.rdg.eris` of `java_projects_RTD/applications/eris-ext-client/eris-mock`.

## Inventory

| Part | State | Operations | Interactions | What is hard | What makes it correct |
|---|---|---|---|---|---|
| **Deployment script** (`ROLE/templates/was_script.py`, `files/was_libraries.py`, `files/jaas.py`, `tasks/was.yml`) | configuration repository of the cell, workspace of the running script, jar on the host | the 14 `set_*` steps of `main()`, each a loop of `get_or_create_*` calls; one `AdminConfig.save()` | plays of several servers write the documents of their cluster and of the cell | concurrent plays, failure half way, repeated plays, lookups by parts of names | after a play everything the YAML declares is there, once, with its values, on its server; a failed play changes nothing |
| **After the script** (`ROLE/handlers/main.yml`, `files/updateNodeVariables.py`, `files/sync_nodes.py`) | copies of the configuration on the nodes, node agents | handlers at the end of the play | second wsadmin session; node agents restart while being synchronised | handlers skipped after a failed task, node skipped silently | saved configuration reaches every node that is up |
| **Creation of servers** (`was_libraries.py: create_was`, `files/createserver.py`) | servers, clusters, ports | create, configure, convert to cluster | deployment script expects the result | failure between two saves | a server is complete or absent |
| **SVN to Git migration** (`SVN/*.sh`) | clone directories, repositories at Bitbucket | convert, synchronise, report | batch over CSV files, one subshell per project; SVN goes on | directories one in another, names shared by projects, fetches that break off, errors that leave a subshell only | what is at Bitbucket is the history of one project; a clone is only removed to be made again |
| **CI of RTC work items** (`CI`) | CI workspace, one workspace per work item, lists of accepted items and change sets | compare, accept everything, accept each item (recursively), build in parallel | developers deliver to the stream meanwhile; workspaces outlive the job | recursion over shared variables, cyclic dependencies, results that are not looked at, lookups by parts of numbers | an item is built with all it depends on, nothing is accepted twice or unverified, the job ends and tells what happened |
| **Release requests** (`REQUEST`) | release workspace, staging and target streams | copy the target, accept the requested change sets, check in poms, deliver | developers deliver to both streams; one workspace for all requests | streams that move on, errors reported but not returned, what a failed job leaves in the workspace | the staging stream stays complete; nothing of a failed job gets there; a job has what was requested |
| **Release tracking** (`TRACK`; version 1 also in `MLOZ/mysql_bdc_project`) | tables `version` and `releaseTrack`, session variables | two triggers, two procedures | sessions of several users; all projects share one current release | session variables left from an earlier statement, year/month arithmetic, statements that fail half way | a version is tracked under the release it was deployed for, and history is kept |
| **Start of an environment** (`MLOZ/python_scripting`) | lists of clusters and servers | start in order | node agents | list made of running servers only | clusters start in the required order, all of them |
| **Bank account client** (`python_practices/python_OOP/bank_account_class_4_write.py`) | `accounts.txt`, balance in memory | login, deposit, withdraw, exit | several clients | read at login, write at exit; truncation | no deposit is lost |
| **ERIS mock** (`ERIS/ws/impl/document_management/v5`) | an XML file per document, a file per attachment | create, register, externalize, upload, remove; search, download | web service and servlet over one directory, a thread per request | read-modify-write without a lock, files emptied before they are written, names made of the time | what was acknowledged is kept and can be downloaded |
| **Order of the XSD files** (`ERIS/.../MockXmlFileLoader.java:163-206`) | list of files, three loop variables | exchange two files | every reading and writing of a document | it ends only when nothing is exchanged any more | it ends when there is an order, and the list is in it |
| everything else | – | – | – | exercises, notes, configuration data, vendored code | – |

`PROJECT.json` lists every component with its status, and under `hazards` each thing that is
hard to test, at its line.

## Modules

| Module | Models |
|---|---|
| `WasProvision` | The plays and the repository. State, one action per kind of call, play steps, properties. |
| `WasScript` | `main()` of `was_script.py`: from the YAML of a server to its sequence of calls. |
| `DeclaredCell` | Abstract specification: the cell as a set of keys per document, changed by whole plays only. |
| `WasProvision_proofs` | Theorems about `WasProvision`: which objects there are. |
| `WasContents_proofs` | Theorems about `WasProvision`: what the documents hold of them. |
| `ReleaseTrack` | The tables, the triggers and the procedures of release tracking. |
| `ReleaseTrack_proofs` | Theorems about `ReleaseTrack`. |
| `CiVerify` | The CI job, its recursion and its background builds. |
| `CiVerify_proofs` | Theorems about `CiVerify`. |
| `MCCiVerify` | Instances: items that depend on each other, and one whose number begins the others. |
| `MCReleaseHistory`, `MCReleaseFix` | Instances: three projects over the end of a year, hotfixes beside versions on their way; a project up to date. |
| `RequestBuild`, `RequestBuild_proofs` | The release request and the theorems about it. |
| `SvnMirror`, `SvnMirror_proofs` | The migration scripts over directories, clones and Bitbucket. |
| `ErisMock`, `ErisMock_proofs` | Concurrent requests to the ERIS mock and the theorems about them. |
| `SchemaSort`, `SchemaSort_proofs` | The sort of the XSD files. |
| `MCRequestBuild`, `MCSvnMirror`, `MCErisMock`, `MCSchemaSort` | Their instances. |
| `MCWasCluster`, `MCWasRefused`, `MCWasNames` | Instances for TLC: small YAML files, made of the kinds of values found in `app_yml_config`. |

### How `WasProvision` corresponds to the code

*State.* `master` is the saved repository: a sequence of objects for each document (one per
server, one per cluster or stand-alone server for its resources, the virtual hosts and the
security document of the cell). A run of the script (`status`, `pos`) works in its workspace
`ws`: a document is copied when it is first used (`opened`), changed there (`dirty`), and
published by `Save`. `ret` is the object the last `get_or_create` returned, which
`set_auth` and `set_custom_prop_entry` then use. `jar` says whether
`config_jndi.jar` is on the host. `stale`, `runs`, `saves` and `faults` are bookkeeping: which
opened documents were saved by another run, and the counters the bounds and the properties
refer to.

*Calls.* Each function of `was_libraries.py` that `main()` calls is an element of `Functions`
and is executed by exactly one action, in the order of `main()`: `GetOrCreateListed` stands
for the six functions that test with `find()` and choose with `startswith()`,
`GetOrCreateFound` for the two that do both with `find()`, `ModifySetting` for the three that
change one attribute of an object that came with the server; the others have an action each.
The exceptions over what the cell holds are disjuncts that end in `Raise`: an
`IndexError` of `[...][0]`, a `KeyError` of `del`, a `create` or `modify` on the empty id, a
name or jndiName that is taken. Those over what the YAML gives are `ArgumentError`: the call
has `ok = FALSE`, and the script ends there. Every other exception (a value with a quote in it, one that
cannot be encoded, a refused connection) is `Fault`, at any call.

*Arguments.* `ok` comes from the field `lacks` of an element in `WasScript`, which names what the script
takes for granted and the element does not give: an argument without default, or a `jndiName` to make the
name of (`key`), the list `customprop` of a resource entry, a `typeds` that
`get_or_create_jdbc_prov` knows (`type`), exactly one `/` in the alias to be split (`slash`, of no
consequence with a `user` beside it, but in `create_mqjms`, which splits it again). With an unknown `typeds`
the provider raises, so that `dsHelper` of `get_or_create_datasources` is never unbound. A data source with
neither name nor `jndiName` raises one call later in the model than in the code, in a script that saves
nothing either way.

*The jar.* `PushJar` is the end of a play whose script did not fail. It may leave the jar out: the play was
started for other tags, or one of the tasks of `was.yml:14-26` failed.

*Values.* A call writes its value as it is, but `set_jvm_prop`, which has the Booleans in lower case
(`JvmValue`).

*Names.* An object is found by its name in the line that `AdminConfig.list` prints for it.
`FoundIn` and `PrefixOf` say which names occur in, or begin, the line of which object; names
have no blanks (a listing puts those in quotes). The names themselves are opaque.

*Keys.* `Key` identifies an object by type and name, an alias also by its virtual host.
Values, jndiNames and authentication aliases are attributes.

*External.* `AdminConfig` and `AdminTask` are IBM's. What the model assumes of them, from how
the code uses them: nothing is visible before `save` (wsadminlib.py:7212-7239 has helpers to
discard the changes of a session); a process that ends without `save` leaves nothing; saving
a document that another session saved after it was read is a conflict and raises; creating
an MQ object of a taken name raises "already exists", which is what
`was_libraries.py:866-873` expects; `getid` of a missing object is the empty string, on which
`create` and `modify` raise; a property set is added each time it is created; a server has at
most one provider of resource environments besides what the role creates (its listing is used
as one object in `was_libraries.py:155`).

*The YAML* is a record in `WasScript` with one field per key of the template. `main(y)` is the
concatenation of the loops of `was_script.py:160-342`. JMS factories are given with both alias
and password or with neither.

### How `ReleaseTrack` corresponds to the code

*State.* `version` and `track` are the tables `version` and `releaseTrack`, each a function from
its primary key. A release is the number that the columns hold, year and month (1812).
`session` holds the two user variables that outlive a statement with a meaning,
`@releaseHotfixSpecific` and `@nextRelease`: `SELECT ... INTO` changes them only when a row
matches. All the others are assigned before they are read.

*Actions.* One per branch of the two triggers, each with everything that the statement does:
`InsertRef`, `InsertProd` and `InsertOther` for the insert trigger; `UpdateRef`, `UpdateProd`,
`UpdateFixed` (the version is, or is taken for, a hotfix), `UpdateHotFix`, `UpdateOther` for
the update trigger; `TooManyRows` for the error of its `SELECT`. `Connect` is a new connection
of a user. An UPDATE of several rows runs the trigger for each and is a sequence of
actions. `Track` is the end of every branch: the INSERT of `sp_common_triggers_track` is refused
for a key that exists and for a NULL release, and then the statement on `version` fails.
The insert trigger looks no hotfix up, so that `InsertRef` gives the next release to a hotfix too;
`HotFixInCurrent` is about all the other ways a hotfix gets to REF or production.
Whether its effects are undone depends on the engine of the tables, which the repository does
not tell: `Transactional` is a constant and the runs use both values.

*Abstractions.* Statements are taken one after the other, as the table locks of MyISAM make
them; on InnoDB two may overlap, which is not modelled. Identifiers have four digits, so
`LEFT` and `RIGHT` with `length - 2` are the year and the month. A version that is NULL is
tracked as little as `'EMPTY'`. `modificationdate` is left out (a NULL there refuses the
row too). Types that no trigger looks at are represented by 14. The initial state is the one
`populating_track_PROD_versions.txt` leaves, then edited by hand as its second option does:
nothing in the table is later than what is in production.

### How `CiVerify` corresponds to the code

*State.* RTC keeps the change sets of the stream and of the CI workspace, and a workspace for
each item that has one (`created`, `ws`). The job has the output of its comparison
(`compare`), the snapshot of the CI workspace from which those of the items are made, and the
list of the workspaces (`existing`). Three variables record, for the properties only, what fails
without the job noticing: `unseen`, the items for which line 89 or 90 failed since their workspace was
last created or replaced; `kept`, those of this job whose `replace-component` failed; `unaccepted`, what
was listed when the accept of the CI workspace failed. `stack` is the stack of calls of `recursive_accept`: what the
function declares `local` is in the frame, and the three lists it does not declare,
`DEPENDS_ON_WI_LIST`, `ACCEPTED_WIS` and `ACCEPTED_CSS`, are variables that all calls share. A frame
in its loop has `todo`, the items still to come: the shell expands the list when the loop
begins, so a nested call that appends to it does not change the loop of its caller, while
`ACCEPTED_WIS` is read in each round.

*Actions.* `Compare` starts the job, with a new shell. `AcceptAll` or `AcceptAllFails`, and
`ListWorkspaces`, follow, then for each item `CreateWorkspace` or `ReplaceComponents` and the recursion: a call
returns without doing anything (`NothingToAccept`), fails, is refused what the workspace has
(`AcceptAgain`), completes, or finds missing change
sets (`AcceptMissing`, with the list of line 89, the second accept, the entries in the lists and the error for a
change set that is not in the comparison); then it calls itself (`AcceptDependant`) or its loop
ends. `StartBuilds`, `CompileEnds`, `Wait` and `End` are the builds in the background.
`Deliver` is a developer, at any time. The results of `scm list missing-changesets`, of the second
accept and of `replace-component` are not looked at by the code, so their failure is a branch of their
actions: the list is empty then, nothing is accepted, the workspace stays as it was. The status of the
accept of the CI workspace is that of `tee`; where its output has none of the four phrases of line 207
it is `AcceptAllFails`, and the job goes on. A failure that the code notices is `Abort`, `AbortLoading`
(after the workspace was created or replaced) or `AcceptFails`; what "still has conflicts" has been
accepted all the same.

*Names.* The code compares work item numbers with `grep` and the names of workspaces with a
pattern. `Begins` holds the pairs of items where the number of one begins that of the other,
`Mentions` the other lines of the comparison that contain the number of an item, most of all
in a comment.

*Abstractions.* The lists are sets, and an order of the loop is any order. Numbers that are
appended by one command are compared with the list as it was before. The job does not run twice at
the same time. Any output of the accept command but "completed successfully" and "Missing change
sets found" counts as a failure, as it does in the code; a command takes all the change sets it is given
or none. `scm` is external: a workspace takes the change
sets it is given when it has all they need, and the accept with missing change sets takes those too.

### How `RequestBuild` corresponds to the code

*State.* RTC keeps the two streams, the workspace of the release and whether it has conflicts.
The poms that a job checks in are a change set of its own, named by the number of the job;
`basis` remembers what it was made on top of. The job has the requested items, the comparison and
the list `CHANGESETS`. `aborted` holds the jobs that ended with status 1.

*Actions.* One per command that reads or changes a stream or the workspace, in the order of the
script, since developers deliver in between; `ListItem` is a round of the loop over the items.
`Accept` is `multi_changesets_accept`: what the command does and prints is chosen by `Accepts`,
what the script makes of it is `Returns`. `CommandFails` is a command that fails in any phase.

*What the code does with missing change sets.* Line 85 reports them, but line 80 asks RTC for those
of `${items}`, a variable that is not set (the loop's is `item`, the list's `ITEMS`): the list is
empty and nothing is reported; the function returns 0, and in the first iteration the job delivers.
`RequestHonoured` therefore allows for it. Line 242 delivers the whole workspace, and so
brings hotfixes of the target stream into the staging stream, where line 237 speaks of pom
modifications only: `DeliversHotfixesOnly` says exactly what is delivered. The build is not acted
upon: in lines 231-233 the `;` before `cleanup_and_exit` is missing and it is an argument of `echo`.

*Abstractions.* Poms do not return to the target stream within the model. `scm` is external: an
accept takes all or nothing, refuses what lacks its dependencies, and may end with conflicts.

### How `SvnMirror` corresponds to the code

*State.* A project is its path below `trunk`. `clone[p]` is the directory of `p`: whether it has a
repository, how much of trunk was fetched, the branch `master`, and the folders that were deleted
from its working tree. `remote` has a repository per *last name* of a path, as line 200 of
`convertsvn2git.sh` makes it. `job` is the script that runs, with its file, the lines that are left
and, for `cloneStatus.sh`, the shell variables that survive from line to line.

*Directories* are why `SvnMirror` is not about one project: `find -maxdepth 2 | grep` finds a
project whose path occurs in another's; `cd` to a folder of an outer clone makes git work on that
clone (`IsRepositoryAt`); `rm -rf` of an outer project removes the clones within it.

*Actions.* One per command of a line that can fail by itself. The error of `getAuthors` leaves the
subshell of the line only. Both commits of a conversion may fail, and the script goes on to push what
is there. `SkipPush` is the push of `syncsvn2git.sh`: it is guarded by `git status`
saying "to be commited", which it never does, so nothing that is fetched reaches Bitbucket
(`SyncedIsPushed` is violated).
`Kill` ends a script anywhere.

*Abstractions.* One script at a time; no branches and tags; no two SVN repositories with the same
path below trunk; the two commits of a conversion are one; whether a project has a `.gitignore`
in SVN is a constant. `fullproject_convertsvn2git.sh` is not modelled: its loop has no input file.

### How `ErisMock` corresponds to the code

*State.* `xml` is the directory of documents, `stored` that of attachments, each named by the
millisecond it was made at, as in the code. A request `r` holds what it has read (`snap`) until it
has written it. `disturbed` and `promised` are bookkeeping: which documents two requests had in
their hands at once, and what the answers given so far say of each document.

*Actions.* A request that changes a document reads the file (`Take`), opens it, which empties it,
and writes it: nothing in the code keeps two requests apart. `removeDocumentAttachment` also
deletes a file before that; the name it makes has no extension, so it only finds the files of
attachments without one, and leaves the others behind. The caches it empties are never made in this
repository: the exception ends the request, or, with them, it goes on; both are modelled.
`SetTypeFails` is `setType` throwing. The marshaller validates while it writes into the open file, so a
request that it refuses (step `cut`) leaves a file that is not XML, without any overlap: nobody
can read, change or register that document any more, and every search fails. A removal that fails that
way answers like one that works. `ServedFor` is the search of `doGet` by name, in which the last attachment
of a name wins, while `removeDocumentAttachment` takes the first; `Searchable` is what search asks of each file.

*Choices the code leaves open.* What two threads writing one file leave there, and what the
marshaller makes of a response without a document. A download by a name without extension asks for a file
that no upload makes (`doGet` puts a dot after the id), and one by id only finds attachments without
extension; no property is about those.

### How `SchemaSort` corresponds to the code

The two loops with their indices, one comparison a step. `imports` is any relation on the files,
since it is read from the text of generated files. `SortEnds` has no bound on the number of
exchanges: it is the argument of `ExchangesDescend` that makes it true.

## Runs

| Run | Instance | Checked | States |
|---|---|---|---|
| `was_cluster` | two members of one cluster with messaging, two plays each, fair | `TypeOK`, `SavedRunIsComplete`, `NoDuplicate`, `ReferencesResolve`, `JvmValuesAsDeclared`, `LibraryOnRepeatedPlay`, `ImplementsDeclaredCell`, `ConflictMeansProgress` | 19916 |
| `was_refused` | six servers of which five scripts raise, one play each, one fault | `OnlySavedRuns` | 481650 |
| `was_names_work_manager` | two servers with names that begin others | `SavedRunIsComplete` is violated | – |
| `release_history` | a project behind with a hotfix, a new one with a hotfix, one session, not transactional | `TypeOK`, `ReleasesAreMonths`, `NothingBeyondNext`, `ProductionAdvancesByMonths`, `WaitingJoinNext`, `HistoryKept`, `HotFixInCurrent` | 104027 |
| `release_fix_stale` | a hotfix and a version of a project up to date | `ProductionAsPlanned` is violated | – |
| `ci_jobs` | four items, two of which depend on each other, two jobs, one fault besides those of the accept of the CI workspace, fair | `TypeOK`, `CompleteWorkItems`, `NeverAcceptedTwice`, `NoReentry`, `ExitTellsAll`, `JobEnds` | 510578 |
| `ci_race` | a delivery at any time | `AcceptedAreListed` is violated | – |
| `request_build` | two items, three change sets, two requests | `TypeOK`, `StagingClosed`, `RequestHonoured`, `DeliversHotfixesOnly` | 116038 |
| `svn_mirror` | a project in another and two of one last name, two scripts | `TypeOK`, `RemoteIsHistory`, `ConvertedStay`, `ReportedNotCloned`, `ConversionKeepsRemote` | 1545632 |
| `svn_sync` | the same, a project with a `.gitignore` in SVN | `SyncedIsPushed` is violated | – |
| `eris_mock` | three requests of any kind | `TypeOK`, `AttachmentIntact`, `SerialRequestsKept`, `SearchWorks` | 447408 |
| `schema_sort` | four files, every relation of imports, fair | `TypeOK`, `ImportedFirst`, `ExchangesDescend`, `SortEnds` | 123168 |

*Bounds.* `MaxRuns = 2` gives every play a repetition, where the code takes its "already
exists" branches; a third play finds the same documents as the second. Two plays are enough
for a conflict of saves and for a lost update: the interaction of any two is over the
documents they both open. `MaxFaults = 1` in `was_refused` puts one failure at every point of
every play; `was_cluster`, which is checked for liveness, has none of its own, and there scripts
end by conflicts.
`MaxRuns = 1` in `was_refused` because a play that raises leaves nothing to repeat; its six plays
cover every `Raise`, the unknown type of a data source standing for the arguments that are missing.
`was_cluster` has no name that begins another, so `JvmValuesAsDeclared` says nothing of the two cases in which
`set_jvm_prop` or the choice of the server goes by the beginning of a name; `NoCollision` excludes them in
the theorem. `CHECK_DEADLOCK FALSE`: when the plays of the bound are over the system
stops.
For `ReleaseTrack` the bound is `Deployments`, the rows that are written, in any order and any
number of times: the history only grows, so the states are finite. `release_history` starts in
November 2018 with a project up to date, one a month behind and one new, and so passes
December and January. One session there, which looks things up and may connect anew at any time:
what is left in its variables is compared with a fresh one that way, and the theorems are about any
number of sessions. `DeployedIsTracked`, which needs tables that undo a failed statement, is proved
and in no run. No state is the last one in practice,
since `UpdateOther` writes what is there again, but nothing makes a user write anything, so
deadlock is not asked about.
For `CiVerify`, 301 and 302 need change sets of each other, the smallest cycle; 303 comes to the
cycle from outside, and 30 has a number that is found in all the others and a comment that
mentions 302. The order of the items is free, so each is the first of the recursion. Two
jobs, which is what it takes to find a workspace that an earlier one left, with or without a
`replace-component` that worked; one failing command, at any place, and besides the accept of the CI
workspace in any job, since it takes that and a failed `replace-component` for a change set to be
accepted again; the delivery of what the stream does not have yet, at any time. `CompleteWorkItems` has a limit that the instance does not
reach: were the mentioned change set one that the item needs, and one of several of its own item,
it would not be "missing", and the rest of its item would not be accepted.
In `request_build` the second change set needs the first and the third is found under the other
item's number; two requests, because what one leaves in the workspace only matters to the next.
In `svn_mirror` each script may be started with any of the CSV files of `MCSvnMirror`, twice, which
is what it takes to convert again, to synchronise or report what was converted, or to convert an
outer project after an inner one. In `eris_mock` three requests are two that overlap and one that
sees what they leave; two milliseconds let ids coincide or not. Four files are the least
for which one exchange undoes another. `CHECK_DEADLOCK FALSE` in these four: when the bound is reached
or the last request is served the system stops, and a sort that is done is done.

*Fairness.* `FairSpec` assumes that a started wsadmin process goes on to its next call and
that Ansible goes on to the next task. Nothing makes an operator launch a play, so
`LaunchScript` is not fair; `ConflictMeansProgress` needs no retry. In `CiVerify` the shell goes on to
its next command and a compilation ends (`mvn` without a time limit is taken to return); nobody
has to deliver, to start the job or to make a command fail. `SchemaSort` is one thread that goes on.

### What the violations show

* `get_or_create_workManager` and four siblings test whether the name occurs *anywhere* in
  the listing. Where a work manager `wm_batch` exists, `wm` is "already exists": the play
  succeeds and `wm` is not there. (With a name that occurs inside another but does not begin
  it, the choice raises `IndexError` and the play fails; `was_refused` covers that.)
* Once a session has looked up a hotfix, `@releaseHotfixSpecific` stays set: the next version it
  puts in production, of whatever project, is recorded under the current release as though it
  were a hotfix, and its REF row stays under the next one.
* A change set that is delivered between `scm compare` and `scm accept` of the CI workspace is
  accepted there without being verified, and is in no later comparison. The comment at `CI:204`
  says that the order of the commands prevents that.
* A revision that a developer commits to SVN is fetched into the clone by a synchronisation in which
  nothing fails, and Bitbucket does not get it: the push waits for a text that `git status` does not print.
  (Where `sync-rebase` has made a commit of the scripts again after the new revisions, as it does for every
  project that had no `.gitignore` in SVN, a push that is not forced would be refused as well.)

Three more disagreements were found on the way and are not runs: `set_jvm_system_properties` takes
the first server whose line starts with the name of this one, and `DPZ_200` and `DPZ_20080` are both
servers of the reference environment; `@releaseID` is a maximum over all projects where
`TRACK/create_table.txt:37` says "for same project_id"; and an item whose missing change sets could not be
listed or accepted (`CI:89`, `CI:90`) counts as accepted, so that the exit status is 0 for something that was
never compiled.

## Theorems

`WasProvision_proofs`, for every set of servers, every YAML, every initial repository and
without the bounds (which are arbitrary constants):

| Theorem | Says |
|---|---|
| `TypeCorrect` | `Spec => []TypeOK` |
| `AllOrNothing` | `Spec => []OnlySavedRuns`: the repository holds only what was there before or what a play that saved declared |
| `SavedRunsComplete` | `NoCollision` gives `Spec => []SavedRunIsComplete` |
| `PlaysImplementDeclaredCell` | `NoCollision` gives `Spec => ImplementsDeclaredCell` |

*Assumptions.* The named `ASSUME`s of `WasProvision`, which TLC evaluates on every run:
shapes of the constants, every name begins its own line, the installed providers are those of
this role. `NoCollision` (no name is part of the line of another object) is a hypothesis of
the last two and cannot be dropped: the violated runs are its counterexamples.

*Argument.* What all calls have in common is stated once: `CallStep(s)` says that a call
touches only the workspace of `s` and adds only declared objects (`Adds`), takes none away
(`Keeps`), and afterwards the object it promises is there (`Delivers`). One lemma per action
shows that the action is a `CallStep` or a `Stop`. The invariants then only deal with
calls, stops and saves:

* `AllOrNothing`: `OnlySavedRuns` is not inductive, since `Save` publishes the workspace.
  `AtomicInv` adds `Above(s)`: a workspace document holds at most what the repository held plus
  what the YAML declares (as long as nobody saved it meanwhile).
* `SavedRunsComplete`: `CompleteInv` adds to it `Done(s)` (what the calls made so far promised
  is in the workspace), `Below(s)` (an opened document that is not stale holds all that the
  repository has, so saving it takes nothing away), `Clean(s)` (a document that was opened and
  not changed holds nothing that the repository lacks, so what the run found "already exists" is
  saved) and that providers have one name.
* The refinement follows from the same invariant: a `Save` is one `Apply`, everything else
  leaves `master` alone.

`WasContents_proofs`, for the same:

| Theorem | Hypotheses beside `NoCollision` | Says |
|---|---|---|
| `NothingTwice` | `SourcesApart` | `Spec => []NoDuplicate` |
| `JvmValuesKept` | `SettingsAgree` | `Spec => []JvmValuesAsDeclared` |
| `ReferencesStay` | `SettingsAgree`, `LinksOwnVhost`, `AliasesGiven` | `Spec => []ReferencesResolve` |
| `LibraryFollowsJar` | `ProvidersAsked` | `Spec => LibraryOnRepeatedPlay` |

*Assumptions.* `SourcesApart`: in a cluster a data source has one `jndiName`, and no document holds
an object twice before the first play (the code creates a data source whenever its `jndiName` is
free, whatever its name). `SettingsAgree`: a YAML gives a JVM property, or the web container, one
value. The other three describe what `main()` does: it creates the vhost that it links to
(`LinksOwnVhost`), a factory with an alias comes after the `configjaas` of that alias, and what is
there at the start refers to aliases that are there (`AliasesGiven`), and every server asks for the
provider of the library (`ProvidersAsked`). The `was_cluster` instance satisfies all of them.

| Theorem | Hypotheses | Says |
|---|---|---|
| `ScriptsMeetHypotheses` | `Rendered(yaml)` | `ProvidersAsked`, `LinksOwnVhost`; `AliasesInstalled` gives `AliasesGiven`, `PropertiesAgree(yaml)` gives `SettingsAgree`, `SourcesAgree(yaml)` gives `SourcesApart`; `VhostsFirst`; `FactoriesGiven(yaml)` gives `FactoriesSecured`, `ResourcesAgree(yaml)` gives `ResourcesMatch`, `FilesComplete(yaml)` gives `ArgumentsGiven` |
| `DeployedAsDeclared` | `Rendered(yaml)`, `NoCollision`, `PropertiesAgree(yaml)`, `SourcesAgree(yaml)`, `AliasesInstalled` | `Spec => [](SavedRunIsComplete /\ NoDuplicate /\ ReferencesResolve /\ JvmValuesAsDeclared)`, and `Spec => LibraryOnRepeatedPlay` |

These two replace what the others suppose of the calls by the script itself: `Rendered(yaml)` says that
the calls of each server are `main(yaml[s])` of `WasScript`, for any YAML of the right shape. What
remains to be supposed is about the YAML files (they agree with each other), about the names, and about what
is in the cell before the first play. The order of `main()` is what makes it true: a factory comes after
the `configjaas` of its alias because `create_mqjms` is called after it.

| Theorem | Hypotheses | Says |
|---|---|---|
| `NoScriptRaises` | `NoCollision`, `SettingsInstalled`, `FactoriesSecured`, `VhostsFirst`, `ArgumentsGiven`, `ResourcesMatch` | `Spec => [][FailsFromOutside]_vars` |
| `DeployedWithoutError` | `Rendered(yaml)`, `NoCollision`, `SettingsInstalled`, `FilesComplete(yaml)`, `FactoriesGiven(yaml)`, `ResourcesAgree(yaml)` | the same |

`FailsFromOutside` says that a play which fails does so by a `Fault` or because another play saved an open
document first (`SaveConflict`). It is a statement about the exceptions that the model lets a call raise, and
no more: an exception for another reason is a `Fault` by definition. These exceptions are, and the
`was_refused` run shows them happen: an argument that is missing or malformed, a setting whose object is
not listed, a listed name that does not start with the one sought, an alias for a vhost that is not
there, a connection factory without an alias, and a queue or a data source that is found by one attribute
and created by the other. Each hypothesis excludes one: `NoCollision` makes what `find` finds the object
with that name; the YAML files lack nothing that the script takes for granted (`ArgumentsGiven`, or
`FilesComplete(yaml)` of the files); `SettingsInstalled` is what a server comes with; the queues and data sources of a cluster
are given the same pairs of name and `jndiName` in all files and before the first play
(`ResourcesMatch`). This is the safety half of `ConflictMeansProgress`: without a `Fault`,
a play can only lose to one that saved.

*Argument.* `EditStep(s)` says what a call does to each document it opens: it only `Alters` what was
there (a value to that of the call, an alias only in `set_auth`) and `Makes` at most one object of a
type, which has a key of its own or, for data sources, a `jndiName` of its own. One lemma per call
shows it; the invariants then deal with that formula instead of one action per call.

* `DistinctInv`: no workspace and no repository document holds a key twice. For data sources this needs
  that one with the name of a call has its `jndiName`, so that a free `jndiName` is also a free name.
* `SettingsInv`: what a script has set so far is in its workspace with that value, and stays so, since
  the document is dirty and only its own server writes it; after a save it is in the repository.
* `AliasInv`: an alias referred to in a workspace is in the security document that this workspace sees
  or in the repository, and the repository's references are resolved in it. A save keeps this: if the
  security document was changed it is saved with the resource, and if not, what it showed is in
  the repository already (`Clean`).
* `FitInv`: what was installed stays, in the repository and in every open document, and their queues and
  data sources have the names and `jndiName`s of the YAML files (a call makes only such, and an open
  document is a copy of a repository document). The vhost of an alias is there by `Done(s)` of `CompleteInv`.
* `LibraryInv`: a script that runs after the jar was pushed and has come past its provider has the
  library in its workspace, and so saves it or finds it saved.

The inductive invariants of both modules were checked with TLC on the instances above before they were
proved.

`ReleaseTrack_proofs`, for every set of projects, versions and sessions, every history to start
from, and both kinds of tables:

| Theorem | Says |
|---|---|
| `TypeCorrect` | `Spec => []TypeOK` |
| `MonthsOfYears` | `Spec => []ReleasesAreMonths` |
| `NothingPlannedAhead` | `Spec => []NothingBeyondNext` |
| `MonthByMonth` | `Spec => ProductionAdvancesByMonths` |
| `HistoryIsKept` | `Spec => HistoryKept` |
| `WaitingVersionsJoin` | `Spec => WaitingJoinNext` |
| `HotFixesAreCurrent` | `Spec => HotFixInCurrent`: hotfixes put in production, or in REF in the place of another version |
| `DeployedAreTracked` | `Transactional` and `InstalledIsTracked` give `Spec => []DeployedIsTracked` |
| `ReleasedAsPlanned` | `Spec => [][\A p \in Projects, v \in Versions : ReleasedWithRef(p, v)]_vars`: while no session remembers a hotfix, a version that replaces one in production is released under the month of its REF row |

*Assumptions.* `PopulatedAssumption`: the history to start from has a production release, holds
years and months, and nothing later than production. `DeployedAreTracked` has two hypotheses: tables
that undo a failed statement, without which a refused row leaves its version deployed and untracked,
and `InstalledIsTracked`, that the history to start from has what is deployed then.

*Argument.* None of the three state properties is inductive without the others: `MAX` needs rows
to choose from, a new release is a month only if the last one is, and a row may be written
from `@nextRelease`, so what sessions remember must itself be a month that is not beyond the
next. `IInv` is their conjunction with that statement about the sessions
and with the existence of the maxima. Month arithmetic is two lemmas on `NextRelease` and
`PreviousRelease`: the next release is the least month above, and previous undoes next. The
latter decides `WaitingVersionsJoin`: a project that is *not* behind in the sense of the
procedure has all its waiting rows under the next release already. `DeployedAreTracked` needs that
every branch of the trigger either adds the row of the version written or fails with the whole statement.
`ReleasedAsPlanned` is the other side of the violated `release_fix_stale`: it shows that the remembered
hotfix is all that goes wrong there, besides a project that is behind (whose REF row the procedure moves
in the same statement, so that the rows of REF and production still agree) and a first production version,
which the insert trigger puts under the current release.

`CiVerify_proofs`, for any items, change sets, dependencies and numbers, any number of jobs,
deliveries and failures:

| Theorem | Says |
|---|---|
| `TypeCorrect` | `Spec => []TypeOK` |
| `AcceptsOnlyOnce` | `Spec => []NeverAcceptedTwice`: no accept is given a change set the workspace has, unless the workspace was not replaced and an earlier job has listed it without accepting it |
| `RecursionIsAcyclic` | `Spec => []NoReentry`: the depth of the recursion is at most the number of items |
| `ExitStatusTellsAll` | `Spec => []ExitTellsAll` |
| `AcceptedAreComplete` | `NumbersApart` gives `Spec => []CompleteWorkItems`: an item to be built is complete, unless line 89 or 90 failed for its workspace since that was last created or replaced |
| `ListedWhenQuiet` | `[][Next /\ (phase = "compared" => UNCHANGED stream)]_vars` gives `[]AcceptedAreListed` |
| `JobIsBounded` | for finitely many items, `StepsLeft` is a natural number; `Compare` sets it to at most `JobSteps`, every step of the job and of the compilations, a failing one too, takes from it, and a delivery leaves it |

*Assumptions.* Dependencies are transitive and no change set needs itself; the stream and the CI
workspace hold, at the start, all that their change sets need; every number begins itself.
`NumbersApart` is a hypothesis of `AcceptedAreComplete`: a change set whose line mentions an item, without
being selected by its number, is one that nothing needs, and the number of an item that something
depends on begins no other. Numbers that begin others are harmless as long as nothing depends on their
items: the instance of `ci_jobs` has one (30 begins the other numbers) and satisfies the hypothesis.
Neither half can be dropped: when a needed item 30 begins the numbers of others, or the line of a needed
change set mentions another item, TLC finds items that are built without what they need.
`ListedWhenQuiet` is the other side of the violated `ci_race`: a delivery between the comparison and the
accept is the only way in for change sets that are not validated. `JobIsBounded` needs finitely many items.

*Argument.* `Calls` says of the stack that only its top is before its accept, that a call in its
loop has its item in `ACCEPTED_WIS`, and that all are for different items. A new call is made only
for an item that is not in that list, so it differs from all below. `Tracked` says that
`ACCEPTED_CSS` has all of the comparison that is in the workspace, but for what `Excused` allows: where the
workspace was not replaced, what an earlier job listed and did not accept. It holds at the first call
because a workspace holds, before its item is handled, nothing of the comparison but that; and that needs
the history of the streams (`History`): the comparison is what the CI workspace lacked, an item's
workspace holds nothing but what is in the CI workspace or was listed when it was not accepted there, and
after the accept the CI workspace has all of the comparison or nothing of it (`Decided`). For
`AcceptedAreComplete` the leftovers must do no harm either (`Leftovers`): a workspace in which no accept
failed unnoticed and that has something the CI workspace lacks has a change set of its own item, so the
first accept is refused (`AcceptAgain`) and nothing is built on top of them.
`ExitStatusTellsAll` follows the status through the job (`BuildInv`): while items are handled it is 0
exactly as long as every item handled but the current one is to be built, and while builds are awaited
it is 0 exactly as long as those awaited have compiled and no item was left out.
`AcceptedAreComplete` is about lists that nested calls extend while the outer ones read them
(`CompleteInv`): what is accepted has, of the comparison, all it needs, and belongs to the item or to
`DEPENDS_ON_WI_LIST` (`Accounted`); and each item of that list has been accepted whole or is still before
some call on the stack (`Settled`). When the stack is empty only the former is left.
`JobIsBounded` counts what is left to do with weights: an item that is not accepted yet counts more than
everything its acceptance can put into a loop, an item in a loop more than its call (`CallsLeft`, decreasing in
every step of the recursion), an item that is not handled more than the whole recursion for one
(`LoopLeft`), and the builds two steps for each item. It needs that a call begins only for an item
that is not accepted (`CallIsNew`), and that no item is built twice.

`RequestBuild_proofs`, for any items, change sets, dependencies and streams and any number of requests:

| Theorem | Says |
|---|---|
| `TypeCorrect` | `Spec => []TypeOK` |
| `StagingStaysClosed` | `Spec => []StagingClosed` |
| `NothingOfAborted` | `Spec => []AbortedLeaveNothing` |
| `RequestsAreHonoured` | `Spec => []RequestHonoured` |
| `OnlyHotfixesDelivered` | `Spec => DeliversHotfixesOnly` |

*Assumptions.* Dependencies are transitive, and both streams are closed under them at the start.

*Argument.* One invariant of five parts, proved action by action. `AllClosed`: not only the staging
stream but the target stream and the workspace are closed, since the one becomes the other and then
is delivered. `FromStreams`: what the workspace has is in one of the streams, and it is free of
conflicts while a job is under way. `OwnNumbers`: the poms in it are those of this job or none.
`ListedSoFar`: the list has what the comparison has for the items the loop has come to.

`SvnMirror_proofs`, for any paths, CSV files, bounds and projects:

| Theorem | Says |
|---|---|
| `TypeCorrect` | `Spec => []TypeOK` |
| `BitbucketIsHistory` | `Spec => []RemoteIsHistory` |
| `ConversionsKeepRemote` | `Spec => ConversionKeepsRemote` |
| `ReportsAreTrue` | `Spec => []ReportedNotCloned` |
| `ConversionsStay` | `Spec => []ConvertedStay` |

*Argument.* A push sends a clone's `master`, so `RemoteIsHistory` needs the same of every clone,
whatever broke off (`HistoryInv`). For `ConversionKeepsRemote`, `PushedInv` says that commits made by the
scripts have numbers that were used, and that a conversion about to push has none, or one that is not
at Bitbucket yet: its `master` cannot then extend what has one of them, and the push is refused. `ReportInv` says that a directory that is not a clone has fetched nothing, that only
`cloneStatus.sh` reports, and that a synchronisation fetches in clones only. `ConvertInv` says that the
lines left are the last ones of the file and that the clone of the current line is complete by the time
it is pushed; which clones a step leaves alone is one lemma (`Spared`).

`SchemaSort_proofs`, for any number of files, any order of generation and any imports:

| Theorem | Says |
|---|---|
| `TypeCorrect` | `Spec => []TypeOK`: the list stays a permutation of the files |
| `ImportsComeFirst` | `Spec => []ImportedFirst` |
| `EveryExchangeDescends` | `Spec => ExchangesDescend` |

*Argument.* As long as `sorted` holds in a pass, the pairs it has come to are in order; an exchange
clears it; when none was made, all pairs are in order, and their order is one of the imports
(`EndsOnlyWithAnOrder`: with imports in a circle it never ends). `SortRunsOut` needs that there is no infinite
descent in the lexicographic order of lists. No induction theorem of the library can be used
for it, but its premise can: a set of lists without a least one is narrowed, place by place, to those that
are least up to that place, and a set of natural numbers without a least element does not exist
(`Least`, from `WFMin`). With the place of the sort and the end of the pass as the minor terms,
every step descends.

`ErisMock_proofs`, for any requests, names, extensions and any clock:

| Theorem | Says |
|---|---|
| `TypeCorrect` | `Spec => []TypeOK` |
| `AttachmentsIntact` | `Spec => []AttachmentIntact`: a download by name returns the content of the last attachment of that name, if it has an extension and no two uploads share a millisecond |
| `SerialKept` | `Spec => []SerialRequestsKept`: a document that no two requests had at once is what the answers promise, or cannot be read since a write of it was cut off |
| `SearchStays` | `Spec => []SearchWorks`: the same for what makes a search fail |

*Argument.* A document is not only read from its file but carried by requests that will write it,
so `KnownInv` says of the files *and* of what requests hold that every attachment was uploaded;
`KeptInv` says that an upload alone under its name has its content. For the others, `SerialInv`
says of a document that was never shared what an induction over the answers would: one request at
most holds it, that request will write exactly what its answer will promise (`PromiseKept`), and
while nobody writes, the file is what was promised (`FileKept`). Where a write of the document was cut off the
file has no document, nor has what a removal then writes; that is all that is let through.

*Only model-checked.* The liveness properties `ConflictMeansProgress`, `JobEnds` and `SortEnds`: liveness
under fairness is out of the reach of the prover. For the last two the theorems have the measure that
their steps descend in (`JobIsBounded`, `SortRunsOut`); what TLC adds is that there is a step to
take. The induction theorems of the library cannot be used, since they are about operators; where an
induction is needed it is by a least counterexample, which `WellFoundedInduction` gives for sets.

## Not modelled

* *Deployment.* `create_was`, `createserver.py` and what they call, which nothing calls and which
  never save; three data source wrappers (`get_or_create_toolbox_datasources` and its siblings)
  that no caller reaches; attributes of objects beyond one value and one alias; file pushes other
  than the jar, which change no WAS state. The handlers that synchronise the nodes: `nonotify: True`
  (`ROLE/vars/main.yml:73`) has precedence over the variables of a play, so they are skipped unless it
  is given on the command line.
* *Release tracking.* Versions 1 and 3 of the triggers, dates, DELETE (no trigger), overlapping
  statements.
* *RTC jobs.* The report and the mails, the compilation of the CI workspace, whose result only
  the report shows, unloading. `prepare_release.sh` does not parse (lines 204 and 208);
  `request_build.with.dep.validation.sh` and `request_build_preparation.sh` are drafts for one request.
* *Start of an environment.* `start_REF.py` is a straight sequence of calls to AdminControl that
  ends in a NameError; it has no state to say anything about.
* *Bank account client.* An exercise; nothing in it keeps two clients apart, so a model could only say
  that deposits are lost.
* *One-pass scripts.* `transferJenkinsJobs_eflux.sh`, `build-maven.sh`, `detectNewHosts.sh`,
  `ci_ws_cleanup.sh`, monitoring scripts: they do one thing after the other for each line of a list.
* *Not this repository's code.* More than half of its implementation lines are third-party or no
  program: `wsadminlib.py` (10589 lines), tplmap, `blackjack.py` (1728 lines, a saved web page),
  `daemonize.sh` and `startNodeManager.sh` (vendors' templates). The scripts in `localDev`,
  `bkp_scripts` and `RM_utils` are copies of those of `SVN`. Configuration data, XSD and WSDL files,
  exercises and notes make up the rest.

## Plan

All programs of the inventory with a protocol of their own are modelled. What is left, in order:

1. An abstract job that `CiVerify` implements: an item is built with the closure of what it needs.
2. Branches and tags in `SvnMirror`, and two scripts at a time.
