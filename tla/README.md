# A verification development for DonDude

DonDude backs up the configurations of a fleet of MikroTik routers: it logs into
each router over SSH, exports its configuration, and commits the export to a Git
repository that is pushed to a remote. A web server shows the fleet and starts
runs by hand or on a schedule; the same binary starts them from a command line.
PostgreSQL keeps the fleet, the settings and the records of the runs.

This directory holds TLA+ models of the parts of that program where order,
failure and concurrency matter, the TLC configurations that check them, and
proofs of the safety properties that do not depend on the size of the instance.
`PROJECT.json` maps every definition to the lines it models.

    tlc -workers 2 -config MCRunControl.cfg MCRunControl.tla
    tlc -workers 2 -config MCBackupRepo.cfg MCBackupRepo.tla
    tlc -workers 2 -config MCDeviceStore.cfg MCDeviceStore.tla
    tlc -workers 2 -config MCFleetSweep.cfg MCFleetSweep.tla
    tlc -workers 2 -config MCCapture.cfg MCCapture.tla
    tlc -workers 2 -config MCAccess.cfg MCAccess.tla
    tlc -workers 2 -config MCArchive.cfg MCArchive.tla
    tlapm RunControlProofs.tla
    tlapm BackupRepoProofs.tla
    tlapm DeviceStoreProofs.tla
    tlapm FleetSweepProofs.tla
    tlapm CaptureProofs.tla
    tlapm AccessProofs.tla
    tlapm SequenceLemmas.tla
    tlapm ArchiveProofs.tla

## Inventory

| Component | State it keeps | Operations | Interacts with | What is hard | What makes it correct |
|---|---|---|---|---|---|
| Run manager (`web/runner.rs`) | one in-memory slot `Option<Live>` | start, execute, finish, snapshot | lock, run rows, engine, mail; called by request handlers and scheduler | awaits between claim and release; handlers can be dropped | the slot shows the one run in progress and is given back |
| Run lock, run rows (`db/mod.rs`) | PostgreSQL advisory lock held by a connection; table `backup_runs` | try_lock_run, start_run, finish_run, abort_run, recover_after_restart | all starters | lost sessions, delayed release, restarts beside a command-line run | runs exclude each other; verdicts are final |
| Command line, serve (`main.rs`) | a process each | backup run, serve, fleet, settings, user, db, update | all | kills | as above |
| Scheduler (`web/mod.rs`) | none; asks the database | tick | run manager | a minute that is missed | a run a day |
| Backup engine (`backup.rs`) | the report of one run | run, fold_capture, push_if_needed | SSH, Git | partial failure | the report tells what is committed and pushed |
| Git repository (`git/mod.rs`) | refs, HEAD, index, working tree; the remote | open_or_init, sync, store, push | engine, history pages | kills between write, stage and commit; a remote that moves; pages that move HEAD | no commit is lost, nothing torn is committed |
| Configuration (`config.rs`) | none | runtime_config, validate, select, slugify | every run, test and sweep | read in two queries while devices are edited; collisions | a named device is that device; devices do not share a file |
| Devices, settings (`db/mod.rs`, `routes.rs`, `main.rs`) | tables `devices`, `tenants`, `settings` | create, update, delete, record_probe, set policy, update_settings | configuration | partial updates, decisions on rows read earlier | credentials and method agree; a token is not lost |
| Monitor (`monitor.rs`) | table `device_samples` | poll, insert, prune | SSH, database | a failing row, threads that outlive their timeout | a sweep stores what it can, and ends |
| Firmware checks (`firmware/mod.rs`) | table `device_updates`, one flag | spawn_check, upsert | SSH, database | a flag nobody clears | one sweep at a time, and always another one |
| SSH (`routeros/mod.rs`, `ssh.rs`) | `known_hosts` | connect, verify, export, download | engine, monitor, checks | abandoned threads, a file written by many | pinned keys stay pinned |
| Export text (`routeros/export.rs`) | none | parse, merge, split, render | capture | a clock and live state in the text, prints that fail, output cut short | the file is the configuration, and changes only with the router |
| Operators (`db/mod.rs`, `session.rs`) | tables `users`, `sessions`, `login_attempts` | set up, log in, log out, passwd | pages, command line | check and record apart, a slow hash between | guesses are bounded, sessions end when they should and not before |
| Archive (`backup_archive.rs`, `db/mod.rs`) | files | dump, restore, seal | database | no snapshot | a dump restores to what was dumped |
| Update (`main.rs`) | the deployment's checkout | update now | git, docker | half-done sequences | the operator's changes come back |

Rendering (`views.rs`, `notify.rs`), cryptography (`crypto.rs`) and error texts
are not modelled: they keep no state, and their properties are not about order.

## Modules

* **RunControl** — who may run a backup and what the operator is told. The
  actors are handlers of POST /runs, the scheduler, and command-line processes.
  `slot` is `RunManager.shared.current`, `lock` and `rows` are what PostgreSQL
  holds, `pc` is the await an actor stands at. One action stands for the code
  between two awaits (`Claim` is the mutex block of `RunManager::start`, `TakeLock`
  the answer of `pg_try_advisory_lock`, `Record` the commit of `finish_run`).
  Faults are actions too: the lock's session dies, a client hangs up and its
  handler's future is dropped, a command-line run is killed, the server stops.
  Releasing the lock is two steps, as in the code: the `RunLock` is dropped
  (`Leave`, or a fault), and PostgreSQL notices later (`ServerNotices`). One server
  listens. `ServeStarts` may happen while it does: a second `dondude serve` closes
  every running row before it finds the address taken and ends. Two servers that
  listen at different addresses of one database are not modelled.
* **BackupRepo** — one run over the repository and what it leaves for the next.
  A branch is the sequence of its commits, so "descends from" is "has as a
  prefix"; a tree, the index and the working tree map paths to contents. A run
  walks `open`, `sync`, `walk` (awaiting captures), `write`, `stage`, `commit` for
  each file, `done`; kills and failures come between these. A fast-forward is two
  steps, as in the code: the branch moves (`FastForward`), then the files and the
  index follow (`Checkout`), and a kill in between leaves any mix of the two trees. `OpenForReading` is
  the history page, `ForeignPush` another machine. RunControl keeps runs apart,
  so this module has one run at a time; the case in which a lost lock session
  lets two overlap is RunControl's `RunsExclusive` and not followed further here.
* **DeviceStore** — the tables `devices`, `tenants` and `settings` under the
  handlers of the web and the commands `fleet`, `settings` and `device test`.
  `job[o]` is what an operator's handler has read and is about to do. What a
  handler reads before its transaction is an action of its own
  (`ReadForUpdate`, `AddLookup`, `FleetLookup`, `ReadSettings`, `OpenPage`,
  `LoadSettings`), so that other writes come between. `LoadDevices` is the second
  query of `runtime_config` with `validate`, `select` and the filter; `PasswordStored` is
  the check of `update_device` on the row it read, `PasswordCheck` the table's CHECK
  constraint as the first UPDATE meets it. A stored secret is known by what it was
  typed as, a password or a key's passphrase; `overtaken` remembers the devices whose
  password an update kept although another one had taken it away since. A save of
  the settings changes the template and the token in any combination.
* **FleetSweep** — backup runs, the monitor's polls and the update checks as what
  they have in common: a selection, permits, one blocking thread a device, a
  timeout that gives the permit back and leaves the thread. `tasks` are the
  threads, `known` is the file `known_hosts`, which each first connection reads,
  extends and truncates to write back; `samples` and `updates` are the tables the
  sweeps write. Devices are deleted and the server stops while all this goes on.
  `settled` is what `known` was when last no connection was about to rewrite it, and
  `torn` that one was extended as read half written, or left so: both are for the
  properties only. Devices are numbers, their positions in the configuration.
* **Capture** — what one of these conversations asks and what `export.rs` makes of
  the answers. A text is a sequence of blank, comment and live lines. Each print
  is an action that answers or fails; `Export` takes any prefix of the output,
  since a channel closed without an exit status counts as success. `began` is the
  router of the conversation, as long as it stays the same, and `taken` describes
  the export the file was made from: both are for the properties only.
* **Access** — accounts, throttle, sessions, cookies. Each browser has one request
  whose database calls are steps (`Login` the throttle's count, `Verify` the hash,
  `Record` the attempt, `CreateSession`, `Respond`), which may die between any two.
  Each sign-in comes from any address: `client_ip` takes it from a header.
  Failures and sessions carry ages, not dates, so time passes without a bound.
* **Archive** — `dump_sql` table by table beside writers, the SQL text as tokens
  with its JSON in a literal, the archive's entries, `split_statements`, and the
  replay in one transaction. PostgreSQL's part of it (foreign keys, cascades,
  literals) is modelled from how the code relies on it. The code lists all
  statements of the text before it runs the first; `Replay` splits each off the rest
  of the text when its turn comes, which gives the same statements.
* **Deployment** — what Archive promises: rows come and go, a copy is made, and a
  restore is one step to the rows of a copy. Archive implements it (`AllOrNothing`
  is `Promised!Spec`, with `db` as the rows). The copies are the archives' rows as a
  restore gives them back (`Returned`): where a text has two apostrophes in a row,
  PostgreSQL reads one.
* **MC...** — what TLC runs; they define the values of constants that a cfg cannot
  write, and the symmetry of file contents (BackupRepo) and of operators and ids
  (DeviceStore): no definition compares these with a constant.
* **RunControlProofs**, **BackupRepoProofs**, **DeviceStoreProofs**,
  **FleetSweepProofs**, **CaptureProofs**, **AccessProofs**, **ArchiveProofs** —
  theorems about the models they are named after.
* **SequenceLemmas** — what CaptureProofs and ArchiveProofs both need: least and
  greatest elements, sequences joined end to end, finite sets as sequences.

The modules share the program's seams: RunControl lets one run in, DeviceStore
says what it works on, FleetSweep runs its conversations, Capture is one of them,
BackupRepo stores what they return. Each seam is a nondeterministic choice on
the side that does not model it.

Each model also has *slips*: definitions as a plausible mistake in the code would
have them, each before or beside the one it is a form of. They are not part of
the specification. Replacing the real definition by its slip must break one
property; `PROJECT.json` lists which.

## Runs

| Run | Instance | States | What it shows |
|---|---|---|---|
| run_control | one handler, the scheduler, one command-line run; 2 run ids; 3 faults | 0.09 M | all safety properties of RunControl, and that slot and lock are freed |
| backup_repo | one device with export and binary backup, 2 contents, 2 branches, 2 events | 0.4 M | all safety properties of BackupRepo |
| device_store | 2 device ids, 2 tenants, 3 names that collide by case or by file, 2 operators, 5 handlers | 0.8 M | edits, fleet commands, tests and runs of devices leave usable credentials, the right facts, the right device |
| fleet_sweep | 2 routers, one known; 2 sweeps of any kinds, 2 permits, 1 deletion or stop, 1 orphan | 0.3 M | every sweep accounts for its devices and ends; versions and flag are right; no settled key leaves `known_hosts` |
| capture | any router of 3 kinds, 2 exports, any prints failing, any cut, 1 change | 0.3 M | the file is the configuration, and the same for the same router |
| access | 2 browsers, 2 addresses any of them may give, one account, 2 passwords, 2 sessions, 1 command | 0.2 M | throttle, setup, sessions |
| archive | 4 tables written to, 3 texts (a semicolon, one apostrophe, two), 4 writes, 1 dump | 0.8 M | Archive implements Deployment; what a dump restores to |
| run_control_stuck | 1 fault | | finding: a dropped request keeps the slot for good |
| backup_repo_missing | no binary backup, 1 event | | finding: commits of an interrupted run are never pushed while the remote lacks the branch |
| backup_repo_page | no binary backup, 4 events | | finding: a history page opened during a fetch costs an unpushed commit |
| device_store_switch | as device_store, 3 handlers | | finding: a device without a secret cannot be switched to a typed password |
| archive_quoting | as archive, fewer writes | | finding: a dump with an apostrophe in it cannot be restored |

More of what comments and documents say does not hold of the code. Each of these
instances states it as one property, which TLC refutes in a short trace. They are
run by hand and are not among the runs of `PROJECT.json`:

| Configuration | Property | What is said | What the code does |
|---|---|---|---|
| `MCRunControlRecovered.cfg` | `RecoveredNeverFinish` | "A run marked `running` after a restart can never finish" (`db/mod.rs:410`) | a command-line run is a process of its own: a server start closes its row, and it records its verdict over it |
| `MCDeviceStorePassphrase.cfg` | `PasswordIsStored` | keeping the password "is only valid if one is already stored" (`db/mod.rs:1002`) | the test reads the row before the transaction; an update in between puts a key's passphrase there, and the CHECK constraint sees a secret |
| `MCDeviceStoreStale.cfg` | `StaleCredentialDropped` | "switching away from password auth drops it, so a stale credential is not left behind" (`db/mod.rs:1044`) | only a switch to `agent` drops it |
| `MCFleetSweepPins.cfg` | `FirstUsePinned` | "the key is recorded on first connection and a later change is refused" (`src/README.md:160`) | of two first connections at a time the later rewrite drops the other's key |
| `MCFleetSweepSamples.cfg` | `BadRowCostsItself` | "per-row inserts keep a single bad row from costing the whole batch" (`db/mod.rs:1624`) | the loop ends at the first row that fails |
| `MCAccessLockout.cfg` | `LockedSinceMostRecent` | "Locked until the window has passed since the most recent failure, so continuing to guess extends the wait" (`db/mod.rs:586`) | refused attempts are not recorded, and the lock ends when the oldest counted failure leaves the window |
| `MCAccessSetup.cfg` | `OneAccountBySetup` | "Guard against a second account being created through this open endpoint" (`routes.rs:241`) | two first visitors both count no users, and create an account each |
| `MCArchiveEveryTable.cfg` | `EveryTableComesBack` | "logical dump of every table" (`backup_archive.rs:9`) | `TABLES` has no `device_updates`, and a restore empties it |

*Bounds.* Two actors are enough for every race in RunControl, because each
hazard is between one start and another; the instance has one of each kind. Two
run ids let a run follow another one whose row was left open; an actor that
finds no id left gets no row and fails its start, so the bound stops no behaviour
early. Three faults let a lost session, a crash and a restart's recovery meet. In
BackupRepo the two files of one device are two paths of the index, which is what
the interplay of commits needs; two branches are the configured and the default
one; two events let a kill meet a foreign push, a change of the device or of
the settings, or another kill: a file cut short with a remote that moved on, a
checkout cut short. The instance with a third event holds too (5.4 million states,
minutes instead of seconds), and the proofs cover any number of them. Histories are bounded only through the events: a run commits
when something changed.

In DeviceStore `MaxHandlers` bounds the handlers that begin: five are enough for
two devices to be created, one to be renamed or deleted while a page of it is
open, and what was opened to be carried out. In FleetSweep `MaxSweeps`,
`MaxSelected`, `MaxEvents` and `MaxOrphans` let two sweeps of two kinds meet at one
router, with a thread that has timed out and still writes; a row that is deleted
hits each place of a sweep. Two connections to the unknown
router, of two sweeps, can rewrite `known_hosts` over each other, with the known one's key
in it to lose. In Capture `MaxCaptures` and `MaxChanges` allow one
capture before and one after, or during, a change, and no third one would see
more than the last file. One configuration has a remark in it that reads like a
banner, and one table of accounts has a title line: the text RouterOS prints may
have both, and `split_export` must not be misled. In Access `MaxPerUser`, `MaxPerIp`, `Window` and `Ttl` stand
for `LOGIN_MAX_PER_USER` and the other constants of the code, which are larger;
the throttle is the same count. Equal limits make the two of them meet, and with as
many addresses as failures an account is locked out from addresses that are not. In
Archive `MaxWrites` allows a tenant, a device and two rows that refer to it, in
and out of the dump's order.

*Deadlock* is checked in the runs of RunControl, BackupRepo and Access. The others
set `CHECK_DEADLOCK FALSE`: their handlers, sweeps, captures and writes are bounded
and come to an end, which is a stop of the instance and not of the system.

*Fairness* (`RunControl.Fairness`). An actor that has begun goes on, because tokio
polls a ready task, every SSH conversation is under a timeout
(`routeros::with_timeout`), and database calls return or fail. One thing is
assumed that the code does not bound: a fetch or push of libgit2 that neither
answers nor fails would hold run and lock. PostgreSQL ends the session of a
closed connection, which is the fairness of `ServerNotices`. No start and no
fault is fair. BackupRepo states safety only and has no fairness.

`FleetSweep.Fairness` is one weak fairness for each sweep, of its own steps
together with the timeouts of its threads: `tokio::time::timeout` fires whatever
the thread does. Nothing is fair to a thread, which may hang in libssh2 for good.
DeviceStore, Capture, Access and Archive state safety only.

## What the properties say

* `RunsExclusive`: two runs overlap only if the database session of one of them
  died under it. The slot alone does not give this (it is one process's), and the
  lock gives it only because release follows the drop of the `RunLock`.
* `SlotShowsRun`: a start that fails clears the slot without looking, and `execute`
  finishes whatever is in it; they never hit another run's entry.
* `LiveMatchesRow`, `RowOpenWhileRunning`, `VerdictsFinal`: slot, row and run agree,
  and a recorded verdict never changes, although no UPDATE looks at the old one. A
  server start may close the row of a run that is alive; `recover_after_restart` says
  such a run can never finish, which `MCRunControlRecovered.cfg` shows to be wrong of
  command-line runs.
* `SlotFreed`, `LockFreed`: both are given back, the slot with one exception, which
  `run_control_stuck` shows.
* `NothingTornCommitted`, `ReportedIsCommitted`: kills between write, stage and
  commit never put half a file into history, and never make a run report
  "unchanged" for something that is in no commit.
* `HistoryKept`: neither sync nor push loses a commit on either side, unless a page
  moved HEAD under the run.
* `PushedIsOnRemote`, `OnlyBinariesLeftBehind`: the push report tells the truth.
* `CredentialsUsable`: what a password device has stored was typed as a password,
  however edits of it overlap, with one exception. The CHECK constraint sees that
  there is a secret, the code's own test of the row it read sees that it is a
  password; an update that keeps a password another one has just replaced by a
  passphrase passes both, which `MCDeviceStorePassphrase.cfg` shows. The reverse,
  a password left behind for a key, takes no race: `MCDeviceStoreStale.cfg`.
* `FactsAreTheDevices`, `RunsWhatWasNamed`: pages know ids, `runtime_config` is asked
  for names, and names are unique only within a tenant and by case. A test or a
  run still reaches the device it was asked for, unless that was renamed.
* `TokenNeverDropped`: two saves of the settings overwrite each other's fields, but
  the Git token changes only in a save in which it was itself typed or cleared,
  whatever that save changes besides.
* `EachOnce`, `SweepsEnd`: a late answer is not counted twice, and no thread holds
  up a sweep. `LastGoodShown`: a failed check keeps the last versions.
  `FlagIsACheck`: a check that ends clears the flag, on each way out but a panic.
  What a poll stores is less than the comment of `insert_samples` says, as
  `MCFleetSweepSamples.cfg` shows.
* `PinsKept`: first connections that rewrite `known_hosts` over each other take away no
  key that was there when none of them was under way: each of them has read those
  keys. They may take away each other's, which `MCFleetSweepPins.cfg` shows against the
  documents. Two cases are excepted: a connection that reads the file while
  another has truncated it, and a write that is cut short.
* `QuietRouterSameFile`, `FileIsTheConfig`: change detection and restore rest on
  these. The first holds for equally answered prints: one that fails thins the
  header, which is a change of the file. The second holds for output whose banner
  arrived: from a router that prints none, or cut short before it, the `/user`
  prints are stored as live lines. Both take the
  prints for free of anything volatile, as `render`'s comment does.
* `GuessesBounded`: parallel logins pass on one count, but by no more than one each.
  When a lockout ends is not what the comment of `login_lockout` says:
  `MCAccessLockout.cfg`.
* `NoTakeover`, `OldPasswordShut`, `LoggedOutIsOut`, `StaysSignedIn`: what a second
  setup, a change of the password, a logout and a restart may and may not do to
  accounts and sessions. A changed password leaves open sessions open, as the code
  does; it opens no new ones. A second setup cannot take an account over, but it can
  create one of its own: `MCAccessSetup.cfg`.
* `QuietDumpsRestore`, `RestoresTheDump`, `AllOrNothing`: a dump that no write
  overlapped with can be restored unless some text has an apostrophe; a restore
  is all of the dump or nothing. `RestoresTheDump` speaks of the tables in `TABLES`;
  that `device_updates` is not among them is `MCArchiveEveryTable.cfg`.
  `AllOrNothing` holds for texts with apostrophes as well: a text with one of them
  makes the restore fail as a whole, a text with two comes back with one.

## What is proved

`RunControlProofs` proves, for any sets of actors and run ids and any bound on
faults, `TypeCorrect`, `Exclusion`, `SlotFaithful`,
`SlotMatchesRow`, `RowsOpen` and `Final`. The
assumptions are those of `RunControlAssumption`: the three kinds of actors are
disjoint, and `Nil` and `NoOne` are not among ids and actors. The argument is the
inductive invariant `IInv`. None of the properties is inductive alone:
exclusion needs `LockHeld` (whoever holds a `RunLock` that is not lost is the
owner PostgreSQL knows); the slot's faithfulness needs `SlotSettled` (a server that
is down has no slot and no tasks, an abandoned claim stays as it is); the rows
need `RunIds` (one actor per id, every id has a row) and `RowsFollow` (how far the
row is at each stage). `TypeStep` and `InvStep` show each action preserves it,
`Invariance` concludes; `Final` uses it once more on the step.

`BackupRepoProofs` proves, for any fleet, any branches and contents and any
bound on events, `RepoTypeCorrect`, `NothingTorn`, `Reported`, `PushedAll`,
`LeftBinaries` and `History`, from `BackupRepoAssumption` (binary backups are of
devices of the fleet, the default branch is one of the branches, and `Absent`,
`Torn` and `NoRemote` are not among what they mark the lack of). The parts of its
inductive invariant:

* `NothingTornStaged`: only the working tree has files cut short, and never at the
  path about to be staged. That is why the history has none, although a commit
  takes the whole index and nothing removes a torn file: `store` writes again
  whenever bytes, index or HEAD differ.
* `OnBranch`: a run is at the branch HEAD is at unless a page has moved it. Without
  it a fast-forward could take one branch's comparison for another's, which is
  what `backup_repo_page` shows to happen when a page does move HEAD; with it every
  step appends to a branch, creates it, or replaces it by one it is a prefix of
  (`GrowStep`).
* `ReportedIsStaged`: what a device is reported with stays in the index. A commit of
  another device takes the whole index, so without this a later commit could undo
  an earlier one and the report would be false.
* `FileHeld`, `ReportGrows`, `CommittedHere`: which of the run's fields are set at
  which stage, and where its commits are; `LeftBehind` carries from the sync to the
  decision not to push what the remote lacks.

`DeviceStoreProofs` proves, for any ids, tenants, names, operators and any way
names fold and slug, `StoreTypeCorrect`, `Credentials`, `Facts`, `NamedRuns` and
`TokenKept`. The assumptions say what forms a handler can be sent
(`InputAssumption`), that `None` and `Gone` are no values of their own
(`NoValueAssumption`), and what the constants are. `CredentialsUsable` needs
`UpdatesValid` (what is about to be written passed `validate`, and the check of the row
it read) together with the CHECK constraint; the facts and the runs need `PageKept` (the device of a page
still has the name the page knows, or was renamed, or is gone) and `OneSelected` (a
configuration made for that name has one device, and that one unless it was
renamed or deleted). `TableSteps` says once which rows each step may touch and how.

`FleetSweepProofs` proves, for any finite fleet, any number of sweeps and permits
and any policy, `SweepTypeCorrect`, `FlagFollowsCheck`, `OnceEach`, `LastGood` and
`Pins`, and of the operator `InOrder` that it keeps every row and puts them in order
(`ReportOrder`): the code sorts the report by each device's position in the
configuration, which is its number here. The centre of the
invariant is `AllParted`: each device of a selection waits, is under way or is
reported, one of the three, and a thread that was given up belongs to a device
that is reported already, so its late answer finds nobody. `EachOnce` is that with
the cardinalities. `OneCheck` and `KindsFit` make the flag follow the one check;
`HostsKept` says that every first connection that is about to write has read all that
was settled before it began, so what it writes, with or without the others' keys, has
that too. `FlagIsACheck` and `LastGoodShown` are parts of the invariant themselves.

`CaptureProofs` proves, for any names, versions, configurations and accounts and any
number of captures, `CaptureTypeCorrect`, `FileIsConfig` and `QuietSameFile`.
`CaptureAssumption` is what is asked of RouterOS: an export starts with a line that
RouterOS executes, after the banner, and no line of the `/user` prints reads like a
banner. Configurations and accounts are any texts otherwise. The argument has two
halves. About the texts: `PartsOfAnExport` says what `Split` makes of any prefix of
an output with the banner in it (the accounts before it, a prefix of the
configuration behind), `Imported` that what `Render` puts before the configuration
has no live line, and `ClockUnseen` that two outputs of one router at two times make
one file: `FromBanner` reads the version from the line with the clock and nothing
else, and `StripBanner` takes the line away. About the conversation: `Collected` (what is known of a router that has not changed
depends on the prints answered, not on their order in time) and `FileMade` (the
file is that of the router, the prints answered and some clock). The lemmas on
texts are proved without recursion: a text ends or starts at a least or greatest
index, which `LeastNatural` provides.

`AccessProofs` proves, for any browsers, names, passwords, addresses and any limits,
`AccessTypeCorrect`, `Throttled`, `OldPasswords`, `LoggedOut`, `Takeover` and `Stays`,
from `AccessAssumption` (there are finitely many browsers, limits are positive,
`None` is not a name). `GuessesBounded` is inductive as it stands with the types of
rows and requests (`Rows`): it counts the requests that have passed the throttle
together with the failures recorded. `OldPasswordShut` needs `RequestsSound` (what
was verified is the password, or was when it was verified); that a browser stays
signed in needs `TokensNew` (a token on its way has a session and is newer than the
cookie it replaces) and `NewerLasts` (no session expires before an older one);
`LoggedOutIsOut` needs `EndedShut`.

`ArchiveProofs` proves, for any rows, any texts and any number of writes and dumps,
`TypeCorrect`, `QuietDumpsCanBeRestored`, `DumpIsRestored`, and `RestoreIsOneStep`,
which is that Archive implements Deployment. `ArchiveAssumption` says that texts are
sequences of characters, bounds are numbers, and `None` is no state of the tables. The
parts of the inductive invariant: `TablesInv` (references hold, tables are finite),
`DumpInv` (a dump in progress is the text of the tables it has read, and of the
tables as they are if nothing overlapped), `CopyInv` (an archive holds the text of
what its dump read), `RestoreInv` and `RefusedInv`. The centre is `AtTable`: after any
number of statements a restore is before some table of `TABLES`, its transaction has
the rows of the tables before, and the rest of the text is that of the tables from
there on. The argument for it:

* `AcceptedIsWhole`: a statement that PostgreSQL accepts is the whole INSERT that was
  printed. `split_statements` ends a statement at the first semicolon with an even
  number of apostrophes before it. If an apostrophe in some text makes that another
  one than the printed end, what is split off does not parse and all is rolled back.
* `ObjectsReadBack`: the literal of an accepted INSERT gives its rows back, by induction
  on their number, which is done as a least counterexample (`LeastNatural`).
* `InOrder`: `TABLES` has each table after those it refers to, so each statement finds
  the rows its own refer to; `TableReplayed`, `NextTable` and `AllReplayed` put this
  together, table by table.
* `CascadeRefers`, `CascadeOwn`: after a delete and what it takes along, every reference
  holds, and the table deleted from has lost that row only. They rest on `TwoDeep`: no
  chain of references is longer than two.

In the refinement `Insert` and `Delete` are Deployment's, `WriteArchive` is `Backup`,
`Commit` is `Restore`, and every other step stutters.

*Lemmas and TLC.* Every inductive invariant (`IInv` of each model) was checked by
TLC on the instance of its run before it was proved, that of Archive also on one with
two writes and two dumps, and without the conjuncts that only say an element is in an
infinite set (`Seq(Token)`, `Copies`, `Archived`), which TLC cannot enumerate.

*Model-checked only.* The liveness properties `SlotFreed`, `LockFreed` and `SweepsEnd`,
which are out of the prover's reach. Every invariant, every action
property and the refinement that a run checks are also proved.

## What the models leave out

Log lines, mail, wording, and the remote's URL (repointing it to a
server with other branches). Directories, file modes and `.gitignore` in the
working tree. Captures run concurrently, but their results are folded one at a
time, in the order they land: the model picks any device next. The run's copy of
the device list is fixed at its start; a device deleted during the run is a
`RecordFails` in RunControl. Two repository handles in one process (a page and a
run) interleave at the granularity of the actions; libgit2 locks each ref and
index file while it writes it.

In DeviceStore host, port, SSH username and tags, and the settings no rule looks
at. In FleetSweep the interval and the daily pruning of the monitor, the values of
samples, a panic of the check's task (which would leave the flag set), and the
commands `monitor poll` and `update check`, which sweep from a process of their own.
In Capture characters, line endings and decoding. In Access the cost of hashing,
the shape of tokens and of cookie headers, `last_login_at`, and attempts with empty
names, which are refused before anything is written. In Archive the columns of rows,
comments in the dump, the version and date of the manifest, and the cipher, whose
failure is a flag of the archive.

Not modelled at all:

* `update now` (`main.rs`): `git stash`, `pull`, `stash pop`, `docker compose build`
  and `up` in a row, in front of the operator who typed it. Its state is that of
  git and docker, and the code adds only the order.
* the clock guards of `scheduler_tick` (the minute, and no scheduled run in the last
  five): RunControl lets the scheduler start at any time, which is more.
* mail (`notify.rs`), pages (`views.rs`), error texts (`error.rs`) and cryptography
  (`crypto.rs`): they keep no state, and their properties are not about order.
  Access takes verification of passwords and tokens for equality.

## What a next version could add

Five of the hazards in `PROJECT.json` have no property a run checks. A switched
method that keeps its password, and a sample that cannot be inserted, are not races:
the configurations above refute what the comments say of them. `latest()` between the
claim of a run and its publication needs the pages as readers of the slot. A
dirty tree beside a remote that moved on needs a liveness property of BackupRepo, and
with it fairness of its runs and an operator who cleans up. Two tenants' devices with
one name need an operator who has to rename one of them before any run succeeds.
