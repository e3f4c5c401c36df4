# MADMIN Hub: a TLA+ verification development

This directory holds TLA+ models of the MADMIN Hub backend (`src/backend`), the
TLC runs that check them on small instances, and TLAPS proofs of the results that
matter most for every instance. Paths below are relative to `src/backend/hub/`
unless they start with `core/` or `src/`.

The hub is one asyncio process with a PostgreSQL database. A coroutine runs alone
from one `await` to the next, and at every `await` any other coroutine may run. A
restart loses everything in memory (registry, waiters, outboxes, listeners, rate
limiter) and keeps the tables. Sessions are made with `expire_on_commit=False,
autoflush=False` (`core/database.py:33-39`): an object keeps the values it was
read with, and what a coroutine assigns to it is written at its session's next
commit, at the latest the one `get_session` issues when the request ends. These
three facts are where the system is hard to test, and each module follows them:
**an action is one stretch between two awaits, or one transaction at its commit.**

## 1. Inventory

| Component | State | Operations | What must hold | Module |
|---|---|---|---|---|
| Registry of live connections (`agents/registry.py`) | `_conns`, `_waiters` | register, unregister, disconnect, waiter, resolve, drop_waiter | it names the connections being served and no others; no waiter is left behind | `Registry`, `Commands`, `AgentChannel` |
| Command dispatcher (`agents/dispatcher.py`) | Command table, outboxes | queue_command, run_command, send_ephemeral, resend_pending, handle_result, expire_task | the lifecycle of a row; every command is executed or expires; what the caller was told is what the table says | `CommandLifecycle`, `Commands` |
| Agent control channel (`agents/router.py`, `agents/auth.py`) | one handler per websocket | authenticate, hello, register, resend, receive loop, finally | only valid identities are connected; frames are handled in order | `AgentChannel`, `Commands` |
| Instances and revocation (`instances/`, `provisioning/`) | Instance, AgentCertificate, InstanceAddress | revoke, decommission, unenroll, delete, edits | revocation throws the instance out and stays | `AgentChannel`, `Enrollment`, `Backups`, `Support` |
| Enrollment tokens (`enrollment/service.py`, `enrollment/router.py`) | EnrollmentToken | create, revoke, enroll, renew | a token is used at most `max_uses` times; re-enrollment ends the old identity | `Enrollment`, `AgentChannel` (its connection) |
| Registration requests (`enrollment/requests.py`) | EnrollmentRequest | create, poll, approve, reject, expire | a request is decided once; the pending cap | `Enrollment` |
| Support sessions (`support/service.py`) | SupportSession, listeners | open_ui, open_ssh, new_ticket, close, on_instance_expired, restore_listeners, expiry_task | a port belongs to one session; a closed session has no listener; one SSH grant per instance | `Support` |
| Support tunnels (`support/tunnels.py`) | `_pending`, `_listeners`, writers | accept, attach_agent, stop_listener | conn_id used once; at most 32 connections; both ends close | `Tunnels` |
| Backups (`backups/`, `agents/router.py:182-247`) | Backup rows and files | upload, download, retention, delete, scheduler | a row has its file; retention keeps the newest; one scheduled backup at a time | `Backups` |
| Licenses (`licenses/`) | License | create, issue_token, revoke, renew_task | a revoked license is not installed again; one active license per feature | `Licenses` |
| Login rate limiter (`core/auth/rate_limiter.py`) | records, LoginAttempt | begin_attempt, record_failure, record_success, load_from_db, cleanup | a burst cannot pass the threshold; blocks survive a restart | `RateLimiter` |
| Operators (`core/auth/`) | User, backup codes, sessions | login, 2FA, password, tokens | a revocation ends the sessions before it; a second-factor code is used once | `Operators` |
| Audit writer (`core/audit/writer.py`) | queue, task | submit, run, flush, stop | an accepted entry is written, except one the database refuses | `AuditWriter` |
| Provisioning API and API keys (`provisioning/`, `apikeys/`) | ApiKey, last use | the handlers of the components above, for an external system | the same promises as for an operator | `Enrollment`, `Licenses`, `AgentChannel`, `RateLimiter` |
| Groups, settings | rows | CRUD and reads | stateless checks per request | not modelled |
| PKI and secrets (`hub/pki.py`, `core/secrets.py`) | key files | sign, encrypt | cryptography | not modelled |
| Frontend (`src/frontend`) | none the hub depends on | rendering | - | not modelled |

**How they interact.** HTTP handlers and background tasks call `queue_command` and
`run_command`. Those put frames on the outbox of the connection the registry names;
a writer task per connection sends them. Results come back through the control
channel's handler into `handle_result`, which resolves the waiter and closes the
row. Revocation and enrollment write the database and pop the registry. Support
sessions own TCP listeners and use commands to open and close accesses on the
instance. Everything shares the database and the event loop; nothing takes a lock
except the enrollment token row (`with_for_update`) and the rate limiter.

**What is hard**, with its line, is the `hazards` list of `PROJECT.json`: values
checked before an await and used after it, dirty ORM copies flushed late, a
connection that ends after its successor registered, a restart between resolving a
waiter and storing the row, lost frames, results that arrive after the expiry,
full queues.

## 2. Plan

The order of the work, the most important behaviour first:

1. `Registry`, `Commands` with `CommandLifecycle` as its abstract specification. *Done, proved.*
2. `AgentChannel`: handshakes against revocation and re-enrollment. *Done, proved.*
3. `Support`: sessions, ports, listeners, the SSH grant of the agent with its
   queued revoke, expiry on both sides, restart. *Done, proved.*
4. The handlers that keep their state in rows: `Enrollment`, `Licenses`, `Backups`,
   `Operators`, composed for TLC in `MCRecords`. *Done, proved.*
5. The services that keep it in memory: `Tunnels`, `RateLimiter`, `AuditWriter`,
   composed in `MCServices`. *Done, proved.*
6. Proofs about 1 to 5: every safety invariant and action property the runs check is
   a theorem for all values of the constants. *Done: see section 5.* Left to TLC:
   the liveness properties, and the runs that end in a violation.

All modules avoid RECURSIVE, take every parameter as a CONSTANT with a named
assumption and keep one action per operation, so that each can be proved about.

## 3. The modules

### Registry

The dictionary `_conns` as `online : Instances -> Conns + {NoConn}` and the three
operations on it as operators. A connection is an identity used once, so "is the
same object" (`registry.py:70`) is equality.

### CommandLifecycle

The abstract specification of one column, `Command.status`: which moves a row may
make, read from the model's docstring (`models.py:186-188`), the dispatcher's
docstring and the WHERE clauses of its statements. A late result may close an
expired row (`dispatcher.py:148`); an answer is never taken back.

### Commands

| Code | Model |
|---|---|
| `Command.status`, `created_at`, `expires_at` | `row`, `age`, `overdue` |
| `queue_command`, `run_command` | `task[c]`: `Issue` (the row object, with its `created_at`), `Insert` (the commit), `SendNow`, `MarkSent`, then `CallerCommit`/`CallerRollback` (the dirty copy) or `CallerReturns`/`CallerTimesOut` |
| `_waiters`, the futures | `waiters`, `future` |
| `control_channel` after the handshake | `phase[k]`: `Connect`, `ResendSelect`, `ResendSend`, `ResendMark`, `Receive`, `ReadRow`, `StoreResult`/`StoreFails`, `ChannelEnds` |
| the outbox and `_writer` | `outbox`, `Deliver` |
| the agent (external, by `docs/PROTOCOL.md`) | `executed[c]`, the cached result every copy is answered with |
| `expire_task` | `ExpireSweep` |
| process restart | `Restart` |

`task[c] = "dirty"` is the copy `queue_command` leaves behind with `status = "sent"`
(`dispatcher.py:78`). `seen[k]` is the status `handle_result` read: SQLAlchemy writes
the column only when the assigned value differs from it.

Time is the set `overdue`; a deadline may pass at any moment, and `ExpireSweep`
expires what is overdue. The handshake is left to `AgentChannel`: here a connection
starts by registering. `created_at` is taken when the row object is made, before the
commit that makes it visible, so two callers may commit in the other order; the clock
is assumed not to go back, nor to give two commands for one instance the same
microsecond. `CallerFails` is either transaction of a caller failing.

Four variables are history, read by the properties alone: `handed` and `dropped` say
which commands the outbox of a live connection accepted and which connections had one
refused, `early` which frames a caller sent to a connection before its resend, and
`overlapped` which pairs of commands were issued before the older one was sent.
`ExecutedInOrder` is the docstring of `resend_pending` ("everything not answered yet,
oldest first") as the agent sees it. Its exceptions are real: the code promises
nothing of callers that overlap, and a caller that sends between `register` and
`resend_pending` goes ahead of what the resend will bring.

### AgentChannel

Connections run `Open` (authenticate), `Hello`, `Attach` (register), `End`. Jobs
are the coroutines that change an identity, split where others can run between:
`Begin*` reads and checks, `RevokeCerts` is the uncommitted UPDATE, and then either
commit and kick (`revoke_instance`: `CommitRemoval`, `Kick`) or kick and commit
(`target_instance`: `KickFirst`, `CommitEnroll`); `CommitRenew` and `CommitDelete`
do one transaction. `JobFails` rolls back. Row locks are not modelled: two UPDATEs of
the same rows would wait for each other, the model lets them overlap, which only
adds behaviours. Certificates do not run out (nginx refuses those before the hub
sees them). `escaped` is a history variable: the connections alive, past
authenticate, when a job that should have ended them was over.

### Support

| Code | Model |
|---|---|
| `SupportSession.status`, `port`, `expires_at` | `row`, `port`, `due` |
| `open_ui`, `open_ssh` with their route | `op[s]`: `Check`, `ReadPrevious` (SSH), `Allocate`, `Granted`, `OpenFails`, `Insert`, `Bind`, `BindFails`, `Registered` |
| `close` and its callers | `at[p]`: a read (`OperatorReads`, `ExpiryReads`, `EventReads`, `RevokeReads`, or the opener itself), then `Stop`, `Commit`, `Tell` |
| `start_listener`, `_listeners` | `bound` (the socket), `listeners` (what `stop_listener` finds) |
| `close_support_sessions` in `revoke_instance` | the closer of kind `revoke`: all sessions and `active` in one commit |
| the agent's SSH grant (external) | `grant[i]`, one per instance, with the session it was written for |
| commands to the agent | `wire[i]`, `held[i]`: in order while the link holds, behind newer ones after a resend |
| `restore_listeners` at startup | `Restart` |

`Stop` and `Commit` are two steps because `close` awaits its commit, and the row is
not looked at again: `Commit` overwrites what another closer wrote. `CloseFails` is
the commit that fails, that of `close` and of `revoke_instance` or the one
`queue_command` makes for them: the listener is stopped by then, the row stays open,
and the exception ends the pass with all it had still to close (the expiry task logs
it and wakes up again). `unrestored`, `unserved`,
`overlap`, `overtaken`, `late` and `crossed` are history variables; each names one
order of events in which the code does less than it says, and the properties say
that there is no other. The agent's order of execution, which `wire` and `held` stand
for, is what `ExecutedInOrder` says of the dispatcher in `Commands`: two commands change
places only when their issues overlap, and then their sessions are already `crossed`. A
link that breaks may reorder slightly more commands than `created_at` would, and a command
whose TTL passes is one that is never resent.

### Enrollment

| Code | Model |
|---|---|
| `Instance.status`, `external_ref`, `AgentCertificate` | `inst`, `bearing` (one reference stands for all), `cert` |
| `EnrollmentToken`, its row lock | `token`, `locked` |
| `EnrollmentRequest` | `request`, `settled`, `lapsed` |
| a handler that reads, awaits, commits | `job[c]`: `EnrollLocks`, `ApproveReads`, `RejectReads`, `ExpiryReads`, `CountPending`, `AssignReads`, `DeleteReads`, `RemoveReads`, `RenewCertReads`, then its steps up to the commit |
| `target_instance`, `apply`, `issue_identity` | `Target`, `RefTaken`/`Issue`, `Identity` in `CommitEnroll` and `CommitApproval` |
| `create_request` | `CountPending` (the cap), `ReplacePending` (the UPDATE, whose rows `Held` keeps), `CommitRequest` |
| `revoke`, `decommission`, `unenroll`: `revoke_instance` | `RemoveReads` (the status, before the awaits), `RevokeCertificates` (the UPDATE), `CommitRevoked` (the status, over whatever is there by then) |
| `POST /agent/renew` | `RenewCertReads`, `CommitRenewCert`; the certificate it was asked with stays valid |
| errors, lost CSR, restart | `CallFails` |

A handler's copy is what `job[c]` holds: `was` is the status it read (the column is
written only when it changes), `taken` the certificates or requests its UPDATE
found, `line` the certificates a renewal goes back to. Every renewal leaves two valid
certificates on purpose (`agents/router.py:166-167`), so `TwinsOnlyOverlapping` counts
the certificates of one line as one. Two removals that both read "active" may commit in
either order, and a "decommissioned" written over a "revoked" gives a bearer of the
reference its life back: `givers` counts that call as one that gave it.
`overlap` (history) holds the pairs of calls that ran at the same time:
most of what the code promises it promises of calls that do not overlap, and the
properties say that overlap is the only exception.

### Licenses

| Code | Model |
|---|---|
| `License` | `license`, `over`, `signed` (a token is its age), `last` (the token ends with the entitlement) |
| a creation, a revocation, a pass of `renew_task` | runs `grant[g]` of several transactions: `CreateReads`, `InsertLicense`, `SignToken`; `RevokeLicenseReads`/`RemoveLicenseReads`, `CommitRevocation`; `RenewReads`, then `RenewNext` for each row it selected |
| `queue_command` | the row object as soon as the commit before it returns (`Makes`, in `older`), `QueueCommand` (the commit), `SendCommand` |
| `control_channel`, `resend_pending` | `stage[k]`: `Connect`, `ResendSelect` (`batch`), `ResendSend` |
| outbox, websocket | `wire`, `ahead`; `LoseLink` |
| `Command` table | `unanswered`; `Expire` after 7 days |
| the instance (external) | `InstanceTakes`: the first command on the wire; `holds` |
| errors, restart | `Cut` |

One instance and one feature. Of the dispatcher the module keeps what decides in which
order the instance executes its commands, with what `Commands` has for it: they are held
while it is away, sent again oldest first by each connection, lost with it, refused for
want of room or capability, and sent at once when they are queued, also to a connection
that has yet to send what it held. `older` and `ahead` are the two orders, of `created_at`
and of the wire. `HeldOnlyOverlapping` exempts a license whose commands went astray on
one of the ways the code leaves open (`astray`, history): its revocation overtook what
was held, or expired, or a token was refused by a connection.

### Backups

`row[b]` is the time of the row of archive `b`, `file` the archives on disk. An upload
goes `UploadStarts`, `Place` (`os.replace`), `MakeRow` (the object, which takes its
`created_at` there: a `default_factory`, `models.py:211`), `CommitRow`, `Retain` (unlinks
what is beyond the newest), `CommitRemoval`; a deletion, alone or with its instance,
starts at its unlink (`RemoveBackup`, `DeleteInstance`). `Halt` cuts a run between the
file and the row. Rows may be committed in another order than they are dated in, so the
retention is the promise of the upload whose row was committed last (`latest`): an older
one that commits after a newer one's retention is what removes the surplus, itself
included. `ever` is what was ever committed. `asked`, `sent` and `planned` are the
`backup.run` commands and the scheduler between its look at the open ones and its insert.

### Operators

One account. A visit is a request: `Visit` checks its token and reads the row
(`copy`), a decision (`DecideLogin`, `SecondSucceeds`, `CompletePasswordChange`,
`Enable2fa`, ...) makes the new row and the answer, and `Commit` writes the columns
that differ from the copy (`Written`): the password hash is computed in a thread in
between. `dead` is `tokens_valid_after`, as the set of the tokens it refuses. `now` is
the TOTP step, `step` the last one used, `failures` the counter in memory. `began`
(history) is what was committed before a visit began. `CodeServesOnce` excuses a code
used twice only when one of the two visits overlapped with another that used a code of
the same sort (`Uses`, `Alike`): other visits that overlap with it do not count.

### Tunnels

`_serve_connection` is `link[l]`: `Serve` checks the limit and asks the agent without
an await in between, `GotResult`, `GotSocket`, then the pump; every way out is `Ends`,
its `finally`. `attach_agent` is `endpoint[e]`: `Attach` checks the conn_id, `Accepted`
sets the future after the await of `accept`, `Released` ends it. The agent may open any
number of WebSockets for a conn_id it was given.

### RateLimiter

`record` is the dictionary, `stored` the table, `copied` what a transaction has yet to
commit. `BeginAttempt` looks at all keys and counts all, with the clean-up before it,
under the lock; `RecordFailure` reads one key at a time; `RecordSuccess` empties the
dictionary, `DeleteRows` and `CommitSuccess` the table. Time is what it decides:
`BlockEnds` ends one block wherever its end was written. `Reboot` loads the rows that
block.

### AuditWriter

`queue`, `batch` and `retry` are the writer's; `entry[e]` says where an entry is.
`WriteBatch` fails on an entry the database refuses or in an outage, and more than one
is written again by `WriteOne`. `Stop`, `Flushed` and `CancelWriter` are the shutdown.
`NothingLeftBehind` is the safety half of `QueuedIsSaved`, and holds whatever the writer
does or leaves undone.

### The MC modules

`Enrollment`, `Licenses`, `Backups` and `Operators` share no more than the row of the
instance, and `Tunnels`, `RateLimiter` and `AuditWriter` share nothing: interleaving them
would multiply states and show nothing. `MCRecords` and `MCServices` are the sums of the
components: `which` is chosen at the start and never changes, one component runs and
the others rest. A property of one component is thus checked over all its
behaviours, and holds in the others' because nothing has happened there.

`MCCommands`, `MCAgentChannel` and `MCSupport` give the constants of one module small
values. Definitions named `..._Mutant` are plausible mistakes in the definition that
follows them; they are not part of any specification and serve to show that each property
can fail.

## 4. The runs

| Run | Checks | Instance |
|---|---|---|
| `commands_safety` | `TypeOK`, `NothingForgotten`, `RunLifecycleHolds` | 1 instance, 3 connections, a queued and a run command of which one is issued, outbox 2, 1 restart, 1 failing transaction |
| `commands_batch` | `NothingForgotten`, `ExecutedInOrder` | 2 queued commands, 2 connections (an agent may announce both commands or neither), an outbox of two frames, no deadline passes |
| `commands_live` | `Delivered`, `Settled`, `ReturnedIsRecorded`, `NoOrphanWaiter` | 2 connections, one command of either kind, 1 restart, no failing transaction |
| `commands_lost_update` | `QueueLifecycleHolds`, **violated** | 1 queued command, 1 connection |
| `channel_safety` | `TypeOK`, `ServedIsRegistered`, `RegisteredIsServed`, `OnlyHandshakesEscape`, `RevokedOnlyOvertaken` | 1 instance, 2 connections, 3 certificates, 3 jobs, 1 restart |
| `channel_revoked_online` | `RevocationIsImmediate`, **violated** | the same with 1 job |
| `support_safety` | `TypeOK`, `SharedOnlyOverlapping`, `GrantStands` | 2 SSH sessions on 1 instance, 2 ports, the expiry task and one other closer, 1 commit that fails |
| `support_live` | `StrayOnlyOvertaken`, `OpenIsServed`, `RevokedOnlyLate`, `DueSettles` | an SSH and a UI session on 1 instance, 2 ports, the expiry task and one other closer, 1 commit that fails, or 1 restart |
| `support_two_grants` | `OneSshPerInstance`, **violated** | the instance of `support_safety`, no commit fails |
| `hub_records` | `TokenCounts`, `RevokedTokenUnused`, `SharedRefOnlyOverlapping`, `TwinsOnlyOverlapping`, `StandingNotDeleted`, `RequestsHold` | 2 instances, 1 token of 2 uses, 2 requests with one key, a cap of 1, 3 calls |
| | `HeldOnlyOverlapping`, `OneActiveUnlessOverlapping` | 2 licenses, one with an end, 3 runs: two beside each other over a connection that lasts, or one after the other, of which 1 is cut, over 2 connections that break |
| | `FilesMatchRows`, `RetentionExact`, `ScheduledOnce` | 3 archives of which 1 is kept, 1 deletion, 1 halt; 3 commands |
| | `SessionsEndWithRevocation`, `CodeServesOnce` | an old session and 3 visits, 1 backup code, 2 TOTP steps, a lock after 2 failures |
| `licenses_reinstalled` | `RevokingStopsRenewals`, **violated** | 2 licenses, 3 runs, none cut, 1 connection |
| `core_services` | `OneEndpointPerLink`, `ClosedSessionEnds` | 2 connections, a limit of 1, 3 endpoints |
| | `ScheduleHolds`, `BlocksAreStored` | 3 requests, 2 keys of which two requests count both, thresholds 1 and 1, 1 restart |
| | `NothingLeftBehind`, `QueuedIsSaved` | 4 entries of which 1 is refused, a queue of 3, batches of 2, 1 outage |

**Bounds.** Instances do not share anything but the event loop, so one is enough for
each question; the proofs cover any number. Two connections are what a replacement
needs, three let a connection displace one that displaced another with a frame in
flight on each. Two commands and an outbox of two frames overflow when a frame sent
before is still in it; that no deadline passes there (`InTime`) leaves the states to
the interleavings of callers and resends, and `commands_safety` has the deadlines.
An agent that supports nothing (`UnevenCaps`) is met there too, where a second one
may follow that supports everything, or the other way round. Three
jobs are two that overtake each other and one that re-enrolls. `MaxIssued`,
`MaxRestarts` and `MaxDbErrors` bound how often a command is issued, the hub restarts
and a transaction fails. Deadlock is not checked: every command and connection is used
once, so a run comes to rest. Two sessions share a port, a grant or a moment;
the expiry task and one task close the same session twice; two ports are enough
for both sessions to pick the same or different ones. `Tasks` bounds how many
closes others start. One thing
goes wrong beside the closers at a time (`OneTrouble`): the hub restarts only in behaviours
in which the one task starts nothing and no commit fails, so what is cut short then is an
opening or the expiry; and a commit fails when the task is not closing or is its own, after
which only the expiry task and the openers close. The proofs have no such bound.

`commands_safety` and `support_safety` compare states by a VIEW (`SafetyView`) that leaves
out history variables which no guard reads and no property of that run names: `early` and
`overlapped`, `overtaken`, `late` and `unserved`. States that differ only there have the same
successors and satisfy the same properties, so nothing is lost.

In `hub_records` three calls are two that overlap and a third that undoes or decides
what they worked on; runs and connections start in the order of their numbers (`InOrder`),
which are interchangeable, and instances and requests are symmetry sets. Licenses
are looked at in two worlds: in `licenses` runs overlap, two at a time, over one connection
that lasts (`Lasting`), past its resend, on which a command is sent as soon as it is
committed; in `delivery` the runs follow each other, and their commands are held, lost,
sent again, sent early, refused or expire while the tokens stay fresh (`DeliveryStep`), and
one run is cut. Three runs are a creation, a revocation and a
renewal or a second creation; two connections are one that breaks and one that resends. The
two kinds of trouble meet in the proof, which has neither bound. Of an operator's
visits two are under way at a time (`AtMostTwo`): what a third could add
beside them it can add before or after. The clock of
the codes stands still while nothing holds a secret to make codes from (`ClockMatters`),
where it could not be told. Enrollments by token and by request are
started from different tables (`tokens` without open requests, `requests` with its
tokens revoked), and so are uploads and the scheduler, which meet only in rows both have. In
`core_services` the thresholds of 1 make each attempt block, so three reach the third
stage of the schedule, and of the two from one address, which are interchangeable, one
comes first (`InOrder`); the limit of one connection is exceeded by the second; a queue
of three fills while a batch of two is being written.

**Fairness** (`FairSpec`, liveness run only). Weak fairness for each step of a coroutine
the event loop keeps runnable: the caller, the connection's handler, the writer with the
agent behind it, `expire_task`; and for `Connect`, since agents reconnect for ever. None
for issuing a command, a broken link, a deadline, a restart or a failing transaction. A
link breaks only while a fresh connection is left (`Replaceable`), which says that
failures are finitely many. In `Support` (`support_live`, under `FairSpec`): weak fairness
for `ExpiryReads`, which runs every 30 seconds, and for the steps of the expiry task's own
closes; the constraint `OneTrouble` holds none of them back. None for the openers, the
other closers, the instance, the link, the clock, restarts or commits that fail; these
fail finitely often (`MaxDbErrors`), and the task logs the exception and goes on
(`support/service.py:214-215`). In `core_services`: for the steps of `_serve_connection`
whose await is over, with its timeouts and the pump of a closed socket (`LinkRuns`; it
assumes that `transport.close()` ends the reader, which for an operator that has stopped
reading is once the system gives the connection up), for those of `attach_agent`
(`EndpointRuns`), and for the audit writer (`WriterRuns`); none for the agent, the
operator's side of an open connection, requests or the shutdown.

**What the violations show.**

- `commands_lost_update`. `queue_command` ends with `cmd.status = "sent"` on the
  caller's row object. Any later commit of that session writes it, without
  condition. A result stored in between goes from `done` back to `sent`; the row is
  then resent or expired although the agent answered. `_mark_sent` guards its own
  UPDATE with `status == 'queued'` for this very reason. `OnlyCommitUndoes` states,
  and the proof shows, that this is the only step that takes an answer back or reopens
  an expired row.
- `channel_revoked_online`. The identity is checked when the websocket opens; the
  connection registers only after the hello, up to 15 seconds later, without a
  second look. An instance revoked in between stays online, against
  `agents/auth.py:10-11`. `OnlyHandshakesEscape` states, and the proof shows, that
  this is the only way.

- `support_two_grants`. `open_ssh` looks for open sessions, awaits the instance, and
  inserts its row afterwards; two that overlap both see none. `SharedOnlyOverlapping`
  says that this is the only way to two open SSH sessions.

- `licenses_reinstalled`. `_renew_once` selects the rows to renew and signs them one
  after the other; `issue_token` does not look at `active`. In the run a renewal selects a
  license whose revocation is not committed yet; the revocation commits and makes its
  `license.revoke`; the renewal signs the license again afterwards and makes a
  `license.install` behind it, against `licenses/service.py:7-8` ("Revoking stops the
  renewals"). `HeldOnlyOverlapping` says when a revoked license can stay on the
  instance at all: when such runs overlapped, when one was cut short before its command
  was queued, or when the dispatcher did not bring the commands in their order. One case
  of the last needs no second run: a `license.revoke` issued between `register` and
  `resend_pending` goes ahead of a `license.install` that was held for the connection.

`Support` shows more orders that its properties exempt by name. A session closed while its
listener is starting leaves a stray listener, since `stop_listener` runs before
`tunnels.py:174` enters it (`overtaken`); nothing closes it before the hub stops. Two
openings may pick one port, against `service.py:12`; the second bind fails, or, with a
restart before it, one of the two open rows comes back without a listener (`unrestored`).
When the commit of a close fails, the open row stays without a listener (`unserved`),
until its deadline or a restart. A session may be opened on an instance revoked meanwhile
(`late`). The grant of an open session may be removed by an older `support.ssh.revoke`
that was resent or told late (`crossed`), or taken over by an `open_ssh` that overlapped
with its own (`overlap`).

Another disagreement is visible in the model but has no run of its own: when
`_mark_sent` fails inside `run_command` (`dispatcher.py:99`), the waiter stays in the
registry until a result comes, which `registry.py:85-86` says must not happen.
`NoOrphanWaiter` is therefore checked with `MaxDbErrors = 0`.

## 5. The proofs

TLAPS checks the theorems of eight modules, for all values of the constants that
satisfy the named assumptions. An assumption says that null values are not members of
the sets they stand beside, that sets whose members are told apart by their role are
disjoint, that limits are natural numbers (positive where the code needs it), and, where
a cardinality is compared, that the set it is of is finite (`Cmds`, `Requests`). Every
proof has the same shape: an inductive invariant, checked by TLC on a small instance
before it was proved; `Init` implies it; one lemma per action or group of actions keeps
it; the properties follow from it.

| Module | Theorem | States |
|---|---|---|
| `CommandsProofs` | `CommandsTyped` | `[]TypeOK` |
| | `RunLifecycleCorrect` | `RunLifecycleHolds`, the refinement of `CommandLifecycle` |
| | `NothingForgottenCorrect` | `[]NothingForgotten` |
| | `OldestFirstKept` | `ExecutedInOrder` |
| | `OnlyCommitUndoes` | no step but `CallerCommit` takes an answer back, or reopens an expired row without one, for any row |
| | `ReturnedAgrees` | what `run_command` returned is what the agent produced, and the table never says another result |
| | `NoneOrphaned` | `[](dbErrors = 0 => NoOrphanWaiter)` |
| `AgentChannelProofs` | `TypeCorrect` | `[]TypeOK` |
| | `RegistryCorrect`, `RegisteredServed` | `[]ServedIsRegistered`, `[]RegisteredIsServed` |
| | `OnlyHandshakes` | `[]OnlyHandshakesEscape` |
| | `RevokedStays` | `RevokedOnlyOvertaken` |
| `SupportProofs` | `SupportTypes` | `[]TypeOK` |
| | `StraysOvertaken`, `OpenServed` | `[]StrayOnlyOvertaken`, `[]OpenIsServed` |
| | `RevokedLate`, `SharedOverlap`, `GrantKept` | `[]RevokedOnlyLate`, `[]SharedOnlyOverlapping`, `[]GrantStands` |
| | `TunnelTypes`, `EndpointsMatched` | `[]TunnelsTypeOK`, `[]OneEndpointPerLink` (module `Tunnels`) |
| `EnrollmentProofs` | `EnrollmentTypes` | `[]EnrollTypeOK` |
| | `TokensCounted`, `RevocationFinal` | `[]TokenCounts`, `RevokedTokenUnused` |
| | `RefsShared`, `CertsTwinned` | `[]SharedRefOnlyOverlapping`, `[]TwinsOnlyOverlapping` |
| | `StandingKept`, `RequestsKept` | `StandingNotDeleted`, `[]RequestsHold` |
| `LicensesProofs` | `LicensesTyped` | `[]LicensesTypeOK` |
| | `OneActive`, `Removed` | `[]OneActiveUnlessOverlapping`, `[]HeldOnlyOverlapping` |
| `BackupsProofs` | `BackupTypes` | `[]BackupsTypeOK` |
| | `FilesMatched`, `RetentionKept`, `OneScheduled` | `[]FilesMatchRows`, `[]RetentionExact`, `[]ScheduledOnce` |
| `OperatorsProofs` | `OperatorTypes` | `[]OperatorsTypeOK` |
| | `SessionsEnded`, `CodesServeOnce` | `[]SessionsEndWithRevocation`, `[]CodeServesOnce` |
| `ServicesProofs` | `LimiterTyped`, `OnScheduleAlways`, `BlocksSurvive` | `[]LimiterTypeOK`, `[]ScheduleHolds`, `[]BlocksAreStored` (module `RateLimiter`) |
| | `AuditTyped`, `LeftBehind` | `[]AuditTypeOK`, `[]NothingLeftBehind` (module `AuditWriter`) |

### The arguments

**AgentChannel.** The two registry properties need that a connection past authenticate
uses a certificate somebody owns, and that no registered or greeted connection is
closed, since otherwise `Attach` could register a closed one. `OnlyHandshakesEscape`
speaks of the registered connection; a connection that is about to register must
already satisfy it, so `StaleEscaped` says the same of every connection past
authenticate. It needs in turn that the certificates a job's UPDATE took belong to the
job's own instance, or its commit would make other instances' connections stale.

**Commands.** The type invariant is not inductive alone: a result is stored from the
agent's cache, and nothing but `ChannelsKnown` says that a result that travels has an
execution behind it. `RowsKnown` adds that an answer in the table is the agent's, so a
second copy of it, over any connection, writes the same value; this is why the
unconditional assignment of `handle_result` takes no answer back. For `NothingForgotten`
the invariant is `HeldOrSent`, with two facts that came out of the proof: the registry
names running handlers under their own instance (`RegisteredRuns`), and a row that is
open now was open before or was just inserted (`OpenBefore`), also when the
unconditional `CallerCommit` reopened it. `ResendSendEffect` says once what the second
half of `resend_pending` does; every step about it cites that lemma.

`ExecutedInOrder` speaks of the instant a frame leaves a live outbox. Its invariant,
`OrderInv`, speaks of all frames in it: each has the older open commands before it
(`QueueOrdered`), and what was handed to the connection and not executed is still in
the outbox (`QueueKnown`). A frame of `SendNow` keeps that because of
`NothingForgotten`: past its resend, a connection was handed whatever is older. Frames of
`ResendSend` keep it because what was selected leaves no older command out
(`BatchesOrdered`), whatever callers inserted between the select and the send, since
such a caller overlaps with every younger one (`AgesKnown`); and because the list that
is sent is sorted (`SortedPrefix`), which is all the proof needs of the ORDER BY. It
does not matter which handler sends it, nor that its own connection may be displaced.

A waiter is that of
a `run_command` whose future is open (`WaitersKnown`), as long as no transaction failed:
the theorem has that hypothesis because the code leaves the waiter of a failed
`_mark_sent` behind (section 4).

**Support.** `IndInv` is five groups. `RowsInv`: how far each opener's row, listener and
closes are (`Stages`, `Listening`, `Closers`, `Failing`), and that what is being closed is
not bound again unseen (`ClosedUnbound`); a close that fails leaves rows open whose
listeners are gone, and they are `unserved` from then on. `RevokeInv`: a revocation has
read every open session of its instance, or that session is late. `ShareInv`: an
`open_ssh` has still to close every open session that it did not overlap with. `GrantInv`
follows the grant through the link: of all commands on their way to the agent of a
standing session, held ones included, and of all closes that have still to tell it
something, none is newer than the session's own grant (`StandingMeets`, `Asked`,
`Tellers`), unless the session is crossed, due or shared. The sequences of commands are
reasoned about through the last of them, so no induction is needed.

**Tunnels.** An endpoint that waits is the one its link's future was given, and a link
that is served is among the writers, which `Admits` counts.

**Enrollment.** Most promises hold "unless the calls overlapped", so the invariant says of
each call under way what it has met: whatever was committed against the copy it holds was
committed by a call that overlaps with it (`Together`), with one fact for each thing a
call reads: its token (`EnrollHolds`), its request (`DecidersMet`), the number of pending
requests (`RoomKept`), the bearers of the reference (`AssignMet`, `TargetMet`), the valid
certificates (`IssuerMet`), the status (`DeleteMet`, and `RemoveMet` for a removal:
whatever bears the reference beside its instance has come to it in calls that overlapped
with it, or with those that gave it to the instance). A renewal knows that its own line is
as old as the certificate it was asked with (`RenewMet`, `LinesDone`), so whoever shares
no line with it met a call of it. The row lock of `enroll` makes the token's facts hold
without exception.

**Licenses.** A creation looked for active licenses when it began and inserts later, so
`InsertKnows` says that one that is about to insert has met, for each license active by
now, a run that worked on it. `HeldOnlyOverlapping` speaks of a revocation that is over;
the invariant, `HeldInv`, says where the removal of a license stands before, as long as
nothing the property exempts has happened to it (`Straight`): with the run that will queue
it, in the table, or executed; and that on each leg the tokens of the license come first
(`OrderHeld`): they were made before it, a resend that selected the removal selected them,
and on the wire they are ahead of it. No token comes later, because a run that could still
issue one has met the run that revoked the license (`IssuesMeet`) and leaves its mark
(`TokensMarked`). A removal that is sent at once finds them on the wire because the
connection has sent what it held (`SentUp`), and what travels is unanswered (`Live`).
That the resend is sorted enters as the order it puts on the wire, nowhere else.

**Backups.** What a run has unlinked it names until it removed the row or was cut
(`MissingTaken`, `OldsGone`). The upload whose row was committed last has left at most
`Keep` of the rows it found, and none is added until another commits, which is the last
then (`WithinKeep`): this does not need the dates. That the newest stay does: dates are
distinct and older than the clock (`RowsDated`, `Dated`), whatever the order of the
commits, and what is missing on disk has `Keep` newer ones beside it (`NewestKept`), which
stay when the rows of the missing go.

**Operators.** A visit decides on the row it read and writes what it changed in it: the
invariant says what its copy can still hold of what was committed before it began
(`CodesGone`, `StepsPast`: unless a use of the same sort overlapped), and of a revocation
that it ends whatever was issued before it began (`EndedCovers`, `RevokedDead`).

**RateLimiter.** `ScheduleHolds` carries itself: a record, a row and a copy on its way to
the table change only as wholes (`CountedSound`, `PastSound`). `BlocksAreStored` speaks of
a memory record and a row that different requests write at different times. The
argument follows the requests of one record: a key is `Clean` as long as none of them
overlapped with another request or was dropped. What a request has read of a clean
record is still the record (`HandFits`), a request whose record a success reset under it
has met whoever counted since (`ResetSeen`), so a commit by anyone else leaves the row of
a clean key alone, and a blocked clean record is in the table or about to be written by
the request that counted (`BlockKept`).

**AuditWriter.** What the shutdown waits for, the counter of the queue, is what is in the
queue and in the batch together (`QueueCounted`), and an accepted entry is in one of the
two until it is written or lost.

### What the proofs changed in the models

- `Commands`: the row object and its commit were one step, so `created_at` was the order
  of the commits, and no command could be created before, and inserted after, another
  one. `ExecutedInOrder` is about exactly that, so they are two steps now.
- `Enrollment`: `SharedRefOnlyOverlapping` could not be proved. With four calls, one
  more than the run has, an instance that bears the reference is revoked while a call
  that enrolls it again is under way; that call brings the reference back to life, and
  the history variable `givers` did not count it. It does now, as it counts a
  decommission that overwrites a revocation.
  `Requests` is assumed finite, since the cap compares a cardinality.
- `Operators`: a request that checks a TOTP code (`second`, `setup2fa`, `on`, `codes`)
  decrypts the secret of the row first (`core/auth/router.py:914`); `Allowed` did not ask
  for one.
- `Support`: `GrantStands` exempted sessions whose instance is not active, and asked only
  that some session hold the grant. The proof needs neither: the session itself holds
  it, on any instance, so the property says so. `BindFails` marked sessions as `crossed`
  without need and no longer does.
- `Tunnels`: an endpoint is neither of the values its link's future has without one, which
  is now said in `TunnelsAssumption`.

### What stays with TLC

Liveness, for want of a rule for fairness in the prover: `Delivered`, `Settled`,
`ReturnedIsRecorded`, `DueSettles`, `ClosedSessionEnds`, `QueuedIsSaved`. The safety half
of `ReturnedIsRecorded`, that the table never holds another result than the one returned,
is the theorem `ReturnedAgrees`. Every invariant
and every action property of the passing runs is a theorem. The type invariants of
`Enrollment`, `Licenses`, `Backups`, `Operators`, `Tunnels`, `RateLimiter` and `AuditWriter`
are theorems that no run repeats. The
four violations of section 4 are counterexamples, and each is matched by a theorem that
says what else can lead there: `OnlyHandshakes`, `SharedOverlap` and `OnlyCommitUndoes` that
it is the only way, `Removed` which ways leave a revoked license on the instance.

## 6. Not modelled, and why

- Formatting and validation of frames, facts and forms; cryptography and key files
  (`hub/pki.py`, `core/secrets.py`); the byte pump of the tunnels and the source
  address check; the frontend: no state the properties depend on.
- Groups and scope, settings, attributes, addresses and notes of an instance, roles,
  access and group columns of a user: rows edited in one transaction and read
  afterwards.
- The rows of support sessions that `delete_instance` removes without `stop_listener`
  (`instances/router.py:364`): they are those opened on an instance while it was revoked
  (`late` in `Support`), whose listeners then stay until a restart.
- What `poll_request` hands to the agent (`cert_pem`) and when it is forgotten.
- `init_first_user`, the expiry times of session tokens, and the throttled
  `last_used_at` of API keys.
- A crash that loses what the audit queue holds: it is in memory and the code
  accepts that. Runs of `load_from_db` on a host whose clock is not UTC: it reads a
  naive timestamp as local time (`core/auth/rate_limiter.py:84-85`), the model
  assumes UTC.
- Startup migrations and systemd notification; pruning of old commands and old audit
  rows, except `cleanup_old_logs`.
- Heartbeats write columns nothing here reads. Several hub processes: the code is
  written for one (the registry is a module-level object).
