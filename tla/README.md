# EmbyProxy: formal model

TLA+ modules that model the stateful core of EmbyProxy, TLC configurations that
check them on small instances, and TLAPS proofs of the properties that matter
most.  EmbyProxy is a controller (Go) that fronts media servers with a set of
proxy nodes, moves one public DNS name between them, enrols and decommissions
nodes, and publishes routes to edges.

## 1. Inventory

State, operations and what makes each component correct.  "hard" names the
behaviour a test hardly reaches.

| component (source) | state | operations | interacts with | hard | correct when |
|---|---|---|---|---|---|
| Public ingress switcher (`internal/admin/public_ingress*.go`) | current operation and its history in KV, mutex | switch, rollback, scheduler evaluation, recovery, confirm-previous | DNS client, node registry, resolvers, public requests | crash or lost save between intent, DNS change and result; node health changing meanwhile; other DNS writers | database accounts for the record; each operation commits or is undone; pinned entries stay; interrupted failovers resume |
| Spaceship DNS client (`internal/spaceship`) | the provider's records | ExactRecord, ReplaceExactA, EnsureA, PresentStreamACME, CleanupStreamACME | provider API | several calls per change, each of which may fail after it took effect | one A record, never half replaced unnoticed |
| Proxy node registry (`internal/storage/proxy_nodes.go`, `internal/admin/proxy_nodes_api.go`) | node rows, enrolment hashes, priorities, connections | create, enrol, heartbeat, drain, revoke, decommission, priority, traffic | edge agents, ingress switcher | counters lost in a crash, concurrent row updates | a revoked node never serves; drains finish; priorities are a permutation |
| Edge agent (`cmd/edge-agent`, `internal/edgecontrol`, `internal/edgecleanup`) | used nonces, outbox, local job | poll, accept job, clean up, report | registry over HTTP | lost and repeated messages, restart between steps | at most one cleanup, only when ordered, and its completion known |
| Edge usage outbox (`internal/storage/edge_usage.go`) | queued events, event ids seen | queue, send, acknowledge, delay | controller's accounting | lost acknowledgements, resends | every event counted exactly once |
| Edge ACME lease (`internal/storage/edge_acme_lease.go`, `internal/admin/edgecert/acme_hook.py`) | one lease row, one TXT record, the hook's file on each edge | order, present, clean up, recover | DNS client, other ACME clients | the hook dies or gives up while a provider call is in flight | a challenge stands until its own edge cleans it up; no TXT value outlives its lease |
| Failover controller (`internal/failover`) | mode, active node, counters, events, dry runs, provider's record | set mode, health and traffic, evaluate, apply, prepare and apply DNS, restart | DNS provider, stats | decision stale when applied; restart between the provider's change and its record; failed writes | cooldown and switch limit hold; no return in the cycle that was left; the database accounts for the record |
| DNS policy runner (`deploy/failover/embyproxy_failover_policy.py`) | state file, provider's record | timed run: probe, measure, decide, apply, verify, roll back, save | DNS provider, the nodes' counters | a run killed, or a call failing, between switch and save; rapid runs, reboots, new cycles | the record changes for a reason and stays where it was seen to serve |
| Publication workflow (`internal/admin/publications.go`, `internal/publicationagent`) | stored publications, nginx files on authority and edges | publish, refresh, unpublish, reconcile | agent socket, edges | one of several targets fails; crash in the middle | all targets agree or the record says reconciliation is needed |
| Node scheduler (`internal/nodes`) | none | eligibility, selection with policy | ingress, failover | ties, boundary of quota | the chosen node is eligible and minimal |
| Node business monitor, ingress watchdog (`internal/admin/proxy_node_runtime_monitor.go`, `public_ingress_watchdog.go`) | failure counters per node | probe, count, reset | ingress switcher | read-modify-write of a row | two failures in a row, and no fewer, make a node untrusted |
| Playback proxy: lines (`internal/proxy/handler.go`, `websocket.go`, `direct.go`, `media.go`, `ttl.go`) | active line, bans, throttle of reports | walk of a request over the lines | upstream servers | walks of concurrent requests change each other's active line and bans | a failure is answered only when every line failed; the active line is left only after it failed |
| Playback proxy: images (`image_cache.go`, `image_limiter.go`) | files, fills under way, slots, turns | look up, fill, wait, copy, commit, clear | upstream servers, settings | the leader of a fill goes away; clear or a new cache in the middle of a copy | only whole images are served; whoever waits is waited for by none |
| Playback proxy: streams (`resume.go`) | what was sent of one response | copy, break, resume | upstream servers | the resource is replaced between two responses | what a client gets is one version, without a gap |
| Playback statistics (`internal/storage/stats.go`) | state of a play, plays, sessions, buckets, queue | record, log, traffic | playback proxy | repeated, late and lost reports | no moment counted twice; a day is the sum of its buckets |
| Authentication (`internal/auth`, `internal/admin/admin.go`) | sessions, pending setups, failure counters, enrolment, last TOTP step | login, begin, confirm, disable, logout, bare token, restart | storage | requests overlap between check and use | no code twice; no more guesses than the limit; what is granted follows from the enrolment of now; a logout ends the family |
| Identity and capture (`internal/identity`, `internal/capture`) | client profiles, capture buffer | pick, rotate, record | proxy | file lock | bounded buffers |
| Log statistics (`internal/statslog`, `cmd/stats-collector`, `cmd/stats-sync`) | cursor file, rows of the edge, snapshot, central rows | scan, ingest, move the cursor, snapshot, fetch, import | nginx, logrotate | lines written and a rotation while the log is read; a run killed between rows and cursor; late or repeated snapshots | nothing before the cursor is skipped; nothing is counted again but for a known reason |
| Storage, configuration, validators, logging, telegram, time, fixtures, build info | tables, settings | read, write, format | everybody | none of their own | - |
| Admin page, certificate helper, deployment scripts | - | - | - | run by hand | - |

## 2. Plan

In this order; the most important behaviour first.

1. `SpaceshipRecord`, `PublicIngress`, `IngressTransaction` (abstract) and
   `PublicIngress_proofs` - done, described below.
2. `ProxyNode` and `ProxyNode_proofs`: one node from creation to removal under
   concurrent reports and administrators - done, described below.
3. `Decommission` and `NodeRemoval` (abstract): registry, edge agent and cleanup
   helper with lost messages and restarts, and `Decommission_proofs` - done,
   described below.
4. `EdgeUsage` and `Accounting_proofs`: the outbox of an edge and the controller's
   accounting - done, described below.
5. `PublicationAgent` and `Publication`: one server's publication as the
   controller's handlers, the agent with its two edges, and the helper, and
   `Publication_proofs` - done, described below.
6. `FailoverPolicy`, `FailoverController` and `Control_proofs`: the policy as operators,
   the controller that asks it, the guarded DNS change and a restart - done.
7. `AdminAuth` and `AdminAuth_proofs`: sessions, two-factor authentication and their
   locks - done.
8. `LineRouting`, `ImageCache`, `StreamResume` with `RequestPath_proofs`: the path of a
   playback request; `PlaybackStats` and `StatsLog` with `Accounting_proofs`: its
   statistics and the collection of an edge's access log - done.
9. `EdgeCertificate` and `Control_proofs`: the ACME lease, the hook and the TXT record - done.
10. `PolicyRunner` and `Control_proofs`: the run of the DNS policy runner, its state file
   and the record - done.
11. Not begun: the order of priorities, and node selection.

The runs stay few.  Components that share no state share a run (section 3,
`MCControl`, `MCRequestPath`, `MCLifecycle`); the known limits of the design are
among the assumptions the passing runs need (section 4).

## 3. Modules

### SpaceshipRecord

The A records of one name at the provider: `dns` is the set of addresses.
`ExactRecord`, `PutA`, `PutVerified` and `DeleteA` are the calls of
`internal/spaceship/client.go`.  `ReplaceExactA` is not atomic; the module that
uses it drives list, PUT, list-and-DELETE, list as separate steps.  The program
is written for a provider whose PUT may leave the old record beside the new one
or replace it; `PutKinds` selects what the provider does.

### PublicIngress

The switcher.  One mutex makes its operations exclude each other, so there is
one goroutine: `pc` says where it stands, `job` which `ReplaceExactA` it is in,
`loc` is the state struct, `req`, `todo`, `seen` the other locals.  `op` and
`prior` are the database: the current operation and the history record its
`PriorVerifiedID` names.  `Crash` clears the locals and keeps the database.

| actions | code |
|---|---|
| `AdminSwitch`, `StartSwitch`, `OpenOperation` | API handler, in-flight check and first save of `switchToLocked` |
| `Preflight`, `ReadProvider` | target checks; reading the record, saving the intent |
| `ReplaceCompare`, `ReplacePut`, `ReplacePrune`, `ReplaceConfirm` | `ReplaceExactA` call by call |
| `Readback`, `Submitted`, `WaitRecursive`, `VerifyRequest` | rest of `switchToLocked` |
| `Rollback`, `RollbackRead`, `RollbackVerify` | `rollback` |
| `SettleStep` | the last save of a handler, whose error `fail` and `rollback` ignore |
| `RestoreVerified`, `RetryEnds`, `UpgradeLegacyPin`, `Evaluate`, `NextCandidate`, `NoCandidate` | `reconcile` and its candidate loop |
| `RecoverStart`, `RecoverNext`, `RecoverVerify` | `recoverAutomaticHealthLocked` |
| `ConfirmPrevious` | `confirmPreviousIngress` |
| `Crash`, `HealthChanges`, `NodeGoesUpOrDown`, `ForeignWrite`, `Propagate`, `CooldownExpires` | the environment |

`op`, `dns`, `answers` (the resolvers), `health` (what the registry shows of a
node) and `up` (whether it really serves) are separate variables: the hard part
of this code is that they differ.

What is abstracted: operation ids are unique; of `publicIngressState` the fields
kept are those a decision reads (phase, trigger, mode, active node, previous,
source and desired address, the class of the error, whether the cooldown of
`CompletedAt` runs); `RequestVerified` is the phase `verified`; the TTL, unrelated
records and the AAAA check are provider errors; a node's address is fixed and of
its own; all resolvers answer alike; the deadline of an operation's context shows
as a lost save or a failed call; the list and the DELETE of the second half of
`ReplaceExactA` are one step, as are the checks and the save of
`ConfirmPrevious`; an unreadable KV entry (`recovery_required` without
addresses) and a changed `PublicIngressHost` are left out.  A PUT or DELETE that
reports an error has taken effect or not, at once; one that takes effect later
is another writer (`ForeignWrite`).

### IngressTransaction

What the switcher promises: a change of entry is a transaction on the record. It
opens, writes anything but "no address", and ends committed at the new owner's
address or aborted with the record as it was.  `PublicIngress!Transaction` maps
`undo` to the operation's `previous`, so the property also says that what undoes
the change is in the database before the change is made.

### ProxyNode

One row of `proxy_nodes` with its enrollments, the agents that hold credentials
for it and the streams through it.  SQLite has one connection (`store.go:88`), so
a statement or a transaction is one step.  Handlers that read and write in
separate statements take several: `patch` (the administrator's PATCH, which reads
the row, perhaps calls `SetProxyNodeScheduling`, reads again and writes every
field back), `beat` (a heartbeat chooses its state before it writes) and `probe`.

| actions | code |
|---|---|
| `Create`, `Regenerate`, `Expire`, `CompleteEnrollment` | `createProxyNode`, `RegenerateProxyNodeEnrollment`, the expiry, `completeEnrollment` |
| `BeatArrives`, `BeatWrites`, `Silence` | `HeartbeatProxyNodeWithCapability`, the five minutes of `Eligible` |
| `ProbeAnswers`, `ProbeReads`, `ProbeWrites` | `startProxyNodeIngressProbe`, `SetProxyNodeIngressHealth` |
| `PatchReads`, `ScheduleReads`, `ScheduleWrites`, `PatchRereads`, `PatchWrites` | PATCH handler, `SetProxyNodeScheduling`, `UpdateProxyNodeWithPriority` |
| `StreamBegins`, `StreamEnds` | `BeginProxyNodeConnection`, `EndProxyNodeConnection` |
| `BeginDrain`, `Drain`, `ForceRevoke` | the drain and revoke endpoints |
| `Decommission`, `CompleteDecommission` | what the two ends of a decommission do to the row |
| `Crash` | the controller restarts; the tables stay |

A credential is named after the enrollment that issued it; an expired enrollment
and a revoked one are the same (`closed`).  Names, addresses, quota, priorities
and error texts are left out; a changed address shows as `ingress_healthy` reset.
`seenAt` is the heartbeat's age as the scheduler sees it.  The jobs of a
decommission are not part of the module: `cleaning` only says that one is open.

Two constants say how careful the console is.  `Overlap` names what may run in
the middle of a PATCH (`report`: agents and the probe write; `lifecycle`: other
administrators and stream ends).  `DrainedFrom` are the states in which the
non-forced revoke is asked for.  The code guards neither: each is needed for
`EligibleHasIdentity`, as section 4 shows.

### Decommission

The removal of one node, from the order to the helper's report.  Four handlers of
the controller (`order`, `poll`, `retry`, `report`), each at most once at a time,
keep in `handler` where they stand and what they hold.  `jobs` is the table,
`memory` the map `decommissionJobs` (the signed payloads, never stored), `nonces`
the agent's file.  A token stands for the whole signed payload: its nonce, its
completion token and its fifteen minutes.

| actions | code |
|---|---|
| `OrderReads`, `OrderWrites`, `OrderRereads` | `DecommissionProxyNode` and what the handler does with the job it returns |
| `IssueChecks`, `IssueWrites`, `IssueRemembers` | `IssueProxyNodeDecommissionJob`, for order, poll and retry |
| `DnsStep`, `DnsFailed`, `DnsDeleted` | `DeleteOwnedProxyNodeDNS` and the mark of its result, for order, retry and report |
| `Retry` | the console's retry, `RetryProxyNodeDecommission` |
| `PollAsks`, `PollAnswered`, `PollLost`, `AgentVerifies`, `AgentAccepts`, `AgentStarts`, `AgentRestarts` | the agent's loop and the two endpoints it calls |
| `HelperCleans`, `ReportReads`, `ReportLost`, `ReportFinishes`, `ReportForgets` | the cleanup helper, `CompleteProxyNodeDecommission` |
| `Silence`, `Expire`, `Restart` | the environment |

What is abstracted: the edge can be decommissioned, the key and the DNS transport
are there and the node owns a record; the display rows of the steps are left out;
the reads a handler makes in a row are one step, and so are the read and the
guarded write of accept; a helper that fails half-way reports as little as one
whose report is lost; two orders never share a second (`created_at` orders jobs).
The manual cleanup command of a silent node is run outside the system.

### NodeRemoval

What a removal promises whatever is lost or restarted: an edge cleans itself only
on order, its DNS record goes only when it is clean or was given up, and its
identity is taken only then.  `Decommission!Removal` maps the job table to
`ordered` and the node's credential to `identity`.

### EdgeUsage

The traffic of one edge, from the end of a response to `used_bytes`.  The agent
keeps a table of events and sends the oldest due one again and again until the
controller answers 200; any other status delays it by ten minutes.  The controller
adds an event's bytes once (`proxy_node_usage_events` remembers its id), in the
billing cycle it was sampled in.  A request the agent gave up may still be served
beside the next one, so `call` holds several handlers.

| actions | code |
|---|---|
| `Queue` | `QueueEdgeUsage` at the end of a response |
| `Posts`, `Sleeps`, `Fails`, `Finishes`, `AgentRestarts` | the sending goroutine of `cmd/edge-agent`, `NextEdgeUsage`, `AcknowledgeEdgeUsage`, `DelayEdgeUsage` |
| `Begins`, `Resets`, `Records`, `Answers`, `Aborts`, `ControllerRestarts` | the endpoint `/api/edge/usage/`, `advanceProxyNodeCycle`, the transaction of `RecordProxyNodeUsageEvent` |
| `ResetReads`, `PatchReads`, `OperatorWrites`, `Revoke`, `Tick` | `ResetProxyNodeUsage`, the PATCH handler, a revoke, the end of a cycle |

Time is the number of the billing cycle.  `NextMonthlyReset` maps an instant to the
end of its cycle, so `next_reset_at <= now` is `next < now`, and an event is of the
current cycle when `sampled = next`.  The agent's clock may be one cycle off at the
boundary; what is two minutes ahead or 45 days old is of another cycle, and may be
refused for that.  The delay is counted in rounds of the sender.  `used` keeps the
bytes of each event apart.  Left out: a changed reset day or time zone (after which
"the cycle" of a sample is another one), values an administrator types in
(`used_bytes`, `next_reset_at`, the endpoint `usage`), bytes that could not be
queued, an event id with other bytes, and `AddProxyNodeUsage`, which nothing calls.

### PublicationAgent, Publication

The publication of one server (a slug) on the two edges.  `PublicationAgent` is the
root agent beside the controller and the helper it runs; it reads the database the
controller writes.  `Publication` extends it by the controller's handlers.

A handler holds `publicationMu`, so there is one.  It is the list of steps it has yet
to take: `Program(kind)` when nothing fails, `Undo(kind, step)` once a step has.  A
step is a save that works or fails, or a call of the agent.  A call puts a request on
the socket (`queue`) and waits 45 seconds; the agent goes on whether or not somebody
waits, so a handler that gave up may run beside the request it gave up.

| actions | code |
|---|---|
| `PublishBegins`, `RefreshBegins`, `CanaryBegins` | the checks of `handlePublicationAPI` for publish and of the playback canary |
| `UpdateBegins`, `Retarget`, `Reline` | `save` of a published server, `syncPublishedNodeTargets` |
| `CleanupBegins`, `NormalizeBegins`, `UnpublishBegins` | cleanup, reconcile and unpublish, and what they check |
| `Mark`, `Stage`, `Commit`, `Settle`, `Drop` | the saves of the row and of the managed route |
| `Redrop`, `Renode`, `Reroute`, `Rerow` | the saves of the rollbacks, whose errors are ignored |
| `Calls`, `Hears`, `TimesOut`, `Skips` | the client of the socket |
| `Takes`, `OnBWG`, `OnNOSLA`, `UndoesBWG`, `Probes`, `Stores` | `Agent.handle`: publish, unpublish, canary and its publishUpdate |
| `ConsoleReads`, `ConsoleWrites` | save, delete, toggleFav, saveOrder and batchTag, which do not take the mutex |
| `ClientLeaves`, `ControllerCrashes`, `AgentRestarts` | a cancelled request and the two restarts |

`files` is what the include directory of an edge holds and `loaded` what its nginx
runs with; they differ when a helper is killed between the rename and the reload.
A run of the helper is one step with all its outcomes: `Runs` when it works, `Breaks`
when a check, a write or a reload fails and the old fragment is put back, `Killed` when
the agent takes it down, `Dropped` when the connection to NOSLA breaks.  A fragment is
what it is rendered from: the lines of the server and whether the agent's store
lists the endpoint a canary found (`found`).

Left out: a public URL from before the workflow, dry-run and verify-proxy, which
change nothing; credentials; the column `playback_status`; reads that fail, which end
a request before it changes anything; more than one endpoint found by a canary and
the patterns of redirect hosts; a controller without an agent configured; other
servers, whose publications reload the same nginx; another primary upstream, which
is refused for a published server; the administration of managed routes; a fragment
the agent did not write.

### FailoverPolicy, FailoverController

`FailoverPolicy` is `internal/failover/policy.go` as operators without state:
`Requested` is what the policy asks for, from the nodes, the sample of the primary's
traffic, the state and the time.  `FailoverController` extends it by what keeps state.
Every operation holds the controller's mutex and is one step, with two exceptions: a
decision is computed by `Evaluate` and applied later, and `ApplyDNSAndCommit` writes a
row, calls the provider and writes a transaction, and the process may die between.

| actions | code |
|---|---|
| `SetMode`, `SetHealth`, `SetTraffic` | the setters of `state.go` |
| `Evaluate`, `ApplyEvaluated`, `DropEvaluated`, `AdminSwitches` | `Evaluate`, `ApplyDecision`, the switch handler |
| `PrepareDNSApply`, `RejectDNSApply`, `BeginDNSApply`, `ProviderUpdates`, `DNSApplied`, `DNSFailed`, `ConfigureDNSGuard` | `dns.go`, `dns_guard.go`, `CommitDNSUpdate` |
| `FailoverRestart`, `FailoverTick` | a new process restores what `storage/failover.go` kept; the clock |

`foState` is memory and `foStored` the row; a write of the database may fail, and
memory then stays (`CommitTransition`, `CommitDNS`).  `foLeft` is history: the cycle in
which the primary was last left.  What the code does and a reader may not expect: a
restart restores the last 200 events only (the model has fewer), the mock provider's
record is lost with the process, a sample's own threshold is not stored, a DNS apply
sets no cooldown and is not counted by the switch limit, and the address of a dry run
is not tied to its node.  `cmd/embyproxy/main.go` does not start the scheduler of the
package, so the caller of `Evaluate` is the one of the tests.

### AdminAuth

Sessions, two-factor authentication and their locks.  A request is a flow through
phases (`waiting`, `code`, `compare`, `save`, `grant`, `replace`, `authorised`);
`authStateMu` is read-locked by logins, the beginning of a setup and bare-token
requests and write-locked by the others, `totpMu` covers `compare` to `save`.

| actions | code |
|---|---|
| `TokenRequest`, `WrongToken`, `ConfirmRequest` | `verifyAdminCredential` and the checks of the handlers before the locks |
| `EntersReading`, `EntersDisabling`, `EntersConfirming` | what each does first when it has the lock |
| `ChecksLimit`, `ComparesCode`, `SavesStep` | `verifyStoredTOTP`, before and with `totpMu` |
| `CreatesSession`, `CreatesSetup`, `StoresEnrolment`, `DeletesEnrolment`, `ReplacesSessions`, `Dispatched` | what the request was made for |
| `Logout`, `ForgetExpired`, `AuthTick`, `AuthRestart` | logout, expiry of sessions and counters, a restart, perhaps with `ADMIN_2FA_DISABLED` changed |

A code is the step it is for, so that "wrong" is a choice and not a computation.
`auEpoch` counts changes of the enrolment and every session carries the one it was
issued under.  A family all of whose sessions expired and were deleted cannot be ended
by a later logout; `auLapsed` keeps that case out of `LogoutEndsFamily`: a request that
confirms or disables and had checked its session before may still issue a successor.

### EdgeCertificate

The DNS-01 challenges.  `acAt` is the place of each edge in the hook and, while a
request of it is open, in the controller's handler; `acPending` is the hook's file,
`acLease` the row, `acTxt` the provider, `acFlight` the calls to it that have not taken
effect.

| actions | code |
|---|---|
| `OrdersCertificate`, `CertbotFinishes`, `Recovers`, `HookDies` | `acme_hook.py` and the manager that runs it |
| `AcquiresLease`, `AsksCleanup`, `ReleasesLease` | the endpoints, `AcquireEdgeACMELease`, `ReleaseEdgeACMELease` |
| `ListsBeforePut`, `VerifiesPut`, `ListsBeforeDelete`, `VerifiesDelete`, `TakesEffect`, `IsLost` | `PresentStreamACME`, `CleanupStreamACME`, call by call |
| `PresentFails`, `CleanupFails` | errors, time-outs and retries |
| `ForeignChanges` | another ACME client, or an operator, at the same name |

A request the hook gives up is cancelled: of its handler only the provider call in
flight is left, which may take effect later.  `AbsentEverywhere` is the wait before the
lease is released: 65 seconds, while a provider call takes 15 at most, so none is in
flight then.  Resolvers show what the provider serves.  The first write of present is
merged with the arrival of the request; a change of unrelated records shows as a
provider error.  The lease's expiry is stored and never read.  An edge that is removed
for good keeps it, and an operator has to release it.  So does a challenge whose file was
dropped while it held the lease: the endpoint answers a database error as it answers the lease
of another (`proxy_nodes_api.go:1221`), and the hook takes that for "never written".  A value
that certbot draws is new: no lease, record or call in flight has it (`NewToTheWorld`).

### LineRouting

The walks of concurrent requests over the lines of one node.  A walk (`lrWalk`) holds
the list it was given, the active line it started from, the lines left, the form in
which it asks the current one, and the pass.  `lrActive`, `lrBans` and `lrThrottle` are
the tables of the handler, shared by all walks and locked only for a moment.

| actions | code |
|---|---|
| `LineArrives`, `TakesOrder`, `NextLine`, `WalkEnds` | `handleNode`, `handleWebSocket`, `getActiveTarget`, `targetOrder` |
| `Throttled`, `PassesThrottle`, `StartsThrottle` | the throttle of progress reports in `handleMediaProxy` |
| `LineAnswers`, `ClientLeaves` | the answer to a form; `markTargetHealthy`, the ban |
| `LineChanges`, `EditsLines`, `LineTick` | lines go down and come back, an administrator edits the list |

`GeneralForms` to `SocketForms` say in which order each kind of request tries its
forms.  What a reader may not expect: nothing calls `ResetNodeRoutingState`, so an edit
keeps the active line and the bans; when all lines are banned, a WebSocket tries the
active one only and bans it again; a WebSocket client's error ends the walk; a
throttled report makes its line active without contacting it; a client that leaves and
a 403 the proxy itself answers ban a line that works.

### ImageCache

One image of one node: the look-up in memory and on disk, the fill that a request leads
or waits for, the limiter's slots and turns, and the copy.  Cache and limiter are
objects that a change of settings replaces, so they are numbered and each request keeps
its own; the files are shared.

| actions | code |
|---|---|
| `LooksUp`, `OpensBody`, `BeginsFill` | `readMeta`, `get`, `beginFill` |
| `TakesLimiter`, `TakesSlot`, `SleepsFor`, `StartsFetch`, `WakesUp`, `RateLimited` | `image_limiter.go` |
| `FetchEnds`, `FetchAnswered`, `ReadsChunk`, `AbortsCopy`, `CommitsBody`, `CommitsMeta` | the image part of `handleMediaProxy`, `imageCacheWriteCloser` |
| `ClearsCache`, `EntryExpires`, `ReplacesCache`, `ReplacesLimiter`, `ImageRestart` | the administrator, age, a restart |

The body is copied chunk by chunk (`ImageSize` of them): each is read, and written to the
temporary file as long as no write has failed.  A copy commits at `io.EOF`, whatever its
length: of a body that is `sized` (a length, or chunks) every other end is an error, one
with neither ends where the upstream closes, after any number of chunks.  What is on disk
is the number of chunks that were written and whether the body was sized.  The forms of a
fetch after a 403 are one.  Left out: the disabled cache, the limits on its size.  Two writers that were not coalesced (a waiter
whose leader failed fetches for itself; two cache objects) may put the body of one
beside the description of the other; both are whole.

### StreamResume

One response that breaks and is continued.  A byte is a pair of the version of the
resource and its offset; the upstream may be replaced at any time, ignore range or
`If-Range`, and answer any range.  `srPlan` is the `streamResumePlan`.  Time has more
than one tick per second because `Date` and `Last-Modified` have not.

### PlaybackStats

The reports of one play: `RecordsState` before the report is sent to a line,
`LineAnswered` after each answer, the queue with its worker (`WorkerWrites`,
`TrafficDay`, `TrafficBucket`).  A report carries the time it arrived, which is why the
tables compare times instead of trusting the order of writes.  `psTimed`, `psPlays` and
`psSessions` are history.  `Plus` is the sum a report adds to a row, the same for the day
and for each of its buckets.  Left out: pruning after 24 hours and 3 days, `keepalive_state`
and the counters in `proxy_kv`.

### StatsLog

The access log of an edge and what is counted of it.  `slLogs` are the logs so far, by
inode; `slOut` is the one nginx writes to, which after a rotation is the old one until
it is reopened.  `slRun` is a run of the collector, `slCursor` its file, `slLocal` and
`slCentral` the `request_count` of the rows of the edge and of the centre by minute.

| actions | code |
|---|---|
| `OpensLog`, `ScansLog`, `Ingests`, `MovesCursor`, `WritesSnapshot`, `CollectorFails` | `main` of the collector, `parseLines`, `Ingest`, `writeCursor`, `writeSnapshot` |
| `FetchesSnapshot`, `ImportsSnapshot` | `main` of the sync, `ImportSnapshot` |
| `WritesLine`, `LogRotates`, `ReopensLog`, `LogTruncated`, `LogTick` | nginx, logrotate, the clock |

The cursor goes to the size the file had when it was opened, while the scan goes on to
its end, so lines written in between are counted again, and none is skipped.
`slMinute`, `slTimes`, `slLate`, `slMissed` and `slAborted` are history.  Left out: lines
that do not parse, half a line at the end of the file, the columns other than
`request_count`, and the queries.

### PolicyRunner

The runner of `deploy/failover/embyproxy_failover_policy.py`, started by a timer or by
hand and kept to one run by a lock.  `prRun` is the run, `prFile` its state file,
`prRecord` the provider's record; a run reads the other two when it begins and changes
them only in the steps below, so it can be killed between any two.

| actions | code |
|---|---|
| `RunBegins`, `ProbesNodes`, `ReadsMeter` | `run_policy` to the decision: `dns_record`, `health_target` with `update_health_state`, `collect_counter` with `traffic_sample`, `evaluate`, the cooldown |
| `BacksUp`, `Applies`, `VerifiesSwitch`, `FailsVerification`, `LosesSight`, `RestoresRecord` | `switch_with_rollback`, provider call by provider call |
| `WritesState`, `RunDies` | `atomic_json` at the end, and after a failed switch; a run that is killed |
| `RunnerTick`, `CarriesTraffic`, `Reboots` | the clock, traffic of NOSLA, a reboot that sets its counter back |

Time is in ticks and traffic in units; the first cycle is the one with the owner's
opening balance.  What probes, resolvers and the public check find is free.
`prUsed`, `prProbes`, `prSwitched`, `prForgotten`, `prGood` and `prTrouble` are history:
what NOSLA really used in each cycle, what its probes found, what was switched and verified.  A killed
run takes the DNS adapter it started with it, as a stopped unit does.  Left out: BWG's
sample, which decides nothing, the texts of the state file, a changed configuration and
other writers of the record.  `cmd/failover-policy` keeps no state and refuses to apply;
it evaluates `FailoverPolicy` once.

### MCControl, MCRequestPath, MCLifecycle

Components that share no state are checked in one run each: a behaviour is one of one of
them (`part`), the others stand still in an initial state.  This is a sum and not a
product of their state spaces; a property of a part is violated in the run exactly when
it is in the part alone.  `MCControl` has the removal (`Decommission`), the failover
controller, authentication, the certificates and the policy runner; `MCRequestPath` lines, images, streams,
statistics and the log; `MCLifecycle` the usage of a cycle (`EdgeUsage`), the drain of
`ProxyNode` and the removal, with the fairness of each asked only while that part moves.  `Scopes`, `AuthScopes`,
`RunnerScopes`, `LineScopes`, `ImageScopes` and `ReportScopes` bound which further operations a behaviour
uses together; every operation is in one of them.

## 4. Runs

| run | instance | shows |
|---|---|---|
| `ingress_safety` | 2 nodes, 2 addresses, both PUT kinds, health changing freely, 2 faults of any kind but foreign writes | `SettledOwner`, `IntentLogged`, `PinnedStaysPinned`, `ImplementsTransaction` |
| `ingress_foreign` | 2 nodes, 3 addresses, 2 faults: crash, lost save, foreign write | `UndoKept` |
| `ingress_liveness` | 3 nodes, PUT replaces, 1 crash or lost save, health fixed | `NoReturnToDeadNode`, `SwitcherReturns`, `InterruptedResumes` |
| `ingress_resume_after_crash` | 2 nodes, PUT adds, 1 crash | `InterruptedResumes` violated |
| `node_safety` | 2 enrollments, 1 stream, crashes, reports in the middle of a PATCH | `EligibleHasIdentity`, `NoCredentialRevival` |
| `lifecycle` | a drain with 1 enrollment, 2 streams and no crash | `DrainFinishes` |
| | a removal with 2 orders, 2 tokens, one handler at a time and a node that may fall silent | `RemovalEnds` |
| | usage: 3 events, 2 cycles, 2 requests, 2 faults or operator's requests, a delay of 1 round | `BilledOnce`, `MeterOfCycle`, `AcknowledgedIsCounted`, `OnlyEndedDropped`, `Delivered` |
| `control` | the removal: 2 orders, 2 tokens, every fault, the report beside any other handler | `CompleteMeansClean`, `RunsOnce`, `ImplementsRemoval` |
| | the failover controller: 2 nodes, 4 samples, 2 switches, 1 dry run, failed writes, restarts, time up to 3 with cycles of 2 | `CalmSwitching`, `NoReturnInCycle`, `RecordAccounted` |
| | authentication: 2 requests at a time, 2 sessions, 1 setup, a limit of 1 wrong code, restarts, failed saves | `GuessLimit`, `CodeUsedOnce`, `GrantsAreCurrent`, `LogoutEndsFamily` |
| | certificates: 2 edges with 2 orders each, another ACME client, both PUT kinds, hooks that die | `ChallengeStands` |
| | the policy runner: 3 ticks in cycles of 2, 2 failures or successes to act, a quota of 2, any fault and any number of runs, reboots and holds | `RunnerIsCareful` |
| `job_order_race` | 1 order, a poll beside the other handlers, no faults | `ImplementsRemoval` violated |
| `job_issue_race` | 1 order, a poll beside the other handlers, no faults | `IssuedIsValid` violated |
| `publication` | 2 sets of lines, 3 faults of any kind, every request, one console edit at a time | `Accounted`, `OneFailureSurvived`, `PublicOnlyWhenServed`, `Settles` |
| `publication_refresh` | a publish and a refresh, 1 failing edge | `ReportedIsServed` violated |
| `request_path` | lines: 2 requests of all kinds, 3 lines in 2 lists, 1 change of the world | `FailureIsEarned`, `LeftAfterFailure` |
| | images: 2 requests, 2 chunks, 1 slot, 2 caches, 2 limiters | `ServedWhole`, `WaitersAreLed` |
| | streams: versions of 2 or 3 bytes, up to 3 versions, 2 attempts | `OneResource` |
| | statistics: 2 requests at a time, 3 reports in all, a queue of 1, 2 lines, a crash | `StatisticsAddUp` |
| | log: 2 lines, 2 minutes, 1 rotation or truncation, 1 run that dies before its cursor | `LogAccounted` |

The type invariants and `ProxyNode`'s `OutIsDisabled`, `OneCommand` and `StreamsCounted`
are proved where section 5 says so and are then not repeated in a run.

Bounds.  `MaxFaults` bounds crashes, lost saves and failing calls; two are enough
for the interesting pairs (a failed PUT and then a crash, a lost save in the
operation and another in its recovery).  Two nodes are an active one and a
candidate; three are needed when the candidate loop has to go on to another.
The third address of `ingress_foreign` belongs to no node.  Health changes and
cache expiry are unbounded.  `CHECK_DEADLOCK` is off where health is fixed: the
system then really comes to rest with nothing for the scheduler to do.

In the node runs two enrollments make a first life and a second one after a
revoke, with an old agent still reporting; two streams make a last one and one
that is not.  Crashes, reports and administrators are unbounded.  Enrollments are
symmetric in `node_safety`.

In `control` a second order is one given while the first is still open, a second
token one that replaces the first or signs the other job; when all are used, a
token cannot be made (`randomNodeToken` fails), which the code allows for.  Faults
are unbounded.  Tokens, requests and edges are symmetric.  `CHECK_DEADLOCK` is off: a
removed node comes to rest, and so does a clock at its bound.  `CompleteMeansClean` and `RunsOnce`
hold whatever overlaps, in spite of the two races below: that is what the theorems of section 5 say.

For the failover controller two switches are one that starts a cooldown and one that
must wait for it; cycles of two ticks give a sample before and after the grace of a
new cycle; the fourth sample has a threshold of its own.  For authentication two
requests are one in the middle of another, a third party being the clock, a logout or a
restart; a limit of one makes the second wrong code the one that must not be compared;
two sessions are one and its successor.  For certificates two edges are the holder of
the lease and the one that waits, and a second order is one that follows a challenge
some call of which is still in flight.  For the policy runner two failures, or two
successes, are one that could be counted twice and one that resets the other; cycles of
two ticks give a baseline of the cycle with the opening balance and one after it; a
quota of two is an opening balance of one and traffic of one.  The number of runs is not
bounded, only their clock.

In `request_path` two walks are the slow one and the one that changes bans and active
line under it; three lines are an active one, the next, and one that only an edit
brings.  Two image requests are a leader and a waiter, or two that were not coalesced;
one slot makes the second wait; two chunks are a write that fails first and one that
works after it, and a body that breaks off in the middle.  Streams of up to three bytes are broken at the start,
inside and at the end.  Three reports are two that overlap and one that is late.  Two lines of
a log are one that is read and one that is written meanwhile.

For the usage in `lifecycle` three events are two that may be rejected and one that is to get
through: with a delay of one round the two are one more than `Delivered` allows, so that
both sides of its bound are reached, and with `Rounds + 1` in the place of the bound TLC finds the
event that is never sent.  Two cycles give events before, at and after a boundary; one fault leaves a
request behind that runs beside the next one, and a second lets an operator write or
the agent restart in the middle of that.  `CHECK_DEADLOCK` is off: when all events are
counted or the node is revoked, nothing is left to do.

In the publication run two sets of lines are what a server had and what it gets: no
code compares more than two.  Three faults are a failure, a failure of what undoes it,
and one in the cleanup of both; `OneFailureSurvived` says what one alone may do.  No
deadlock is possible: the console can always write a server.

The violated runs:

- `ingress_resume_after_crash`.  `public_ingress_runtime_recovery.go:53` says
  "interrupted operations can resume on restart".  A crash between the PUT and
  the DELETE of `ReplaceExactA` at a provider that keeps the old record leaves
  two A records.  `ExactRecord` then fails for ever and no recovery, rollback or
  confirmation can start, until an operator removes one by hand.
- `job_order_race`.  `proxy_nodes_api.go:347` promises that online nodes lose their
  record only after the cleanup.  The handler takes `remote_cleanup_pending` for
  "offline", but a poll sets the same column between its commit and its read.
- `job_issue_race`.  `proxy_nodes.go:1295` says that the signed payload in memory and the
  durable hash go together, and that a fresh payload is made after a restart.  The check for a payload, the
  update of the hash and the store to memory (1340-1361) are three steps, so a poll that
  issues the job beside the order leaves the token of one in memory and the hash of the
  other in the database, without any restart.  The agent then uses up its nonce on an accept that is refused
  (1371), and every later poll hands out the same payload.
- `publication_refresh`.  `38-emby-publication-workflow.md:15` says that an
  incomplete rollback becomes `needs_sync` and is never reported as published.  When
  NOSLA fails during a refresh, the agent removes the fragment from BWG, the one that
  was there before as well (`agent.go:299`), and the handler puts the row back as
  published with a reason (`publications.go:1145`).  BWG no longer serves it.

Assumptions the passing runs need.  Each names what the code does not guarantee;
change the constant and TLC shows the counterexample.

- `node_safety` with `DrainedFrom` extended by the retired states (`removed`,
  `decommissioning`): `DrainProxyNode` excludes only `revoked` (`proxy_nodes.go:1236`), so a
  removed node becomes `draining`, from where it can be enabled and chosen without a
  credential, although `proxy_nodes.go:1084` says it must be enrolled again.
- `node_safety` with `Overlap = {"report", "lifecycle"}`: `SetProxyNodeScheduling` and
  the PATCH handler write what they read in an earlier statement, so a revoke in
  between is undone and the node is enabled and healthy without a credential,
  although `proxy_nodes.go:1084` says it must be enrolled again.
- `lifecycle` with `Crashes = TRUE`: the count of active streams is persistent and
  never reset, so after a crash the drain of a node with streams does not finish,
  although `proxy_nodes.go:1226` has the finalization follow the streams.
- `Delivered` speaks of an event as long as the refused ones before it are no more than
  the rounds of their delay.  The outbox takes the oldest row that is due
  (`edge_usage.go:43`) and a refused one is due again after ten minutes; a round takes two
  seconds or more, up to the timeout of twelve.  So a few dozen events that are refused for
  ever (those of a cycle that ended, after an outage at its end) hold up all others when
  the network is slow, and three hundred do so at any speed.  Nothing removes them.
- `OnlyEndedDropped` leaves out what an operator writes.  A PATCH writes `used_bytes`
  and `next_reset_at` back as it read them, so bytes counted in between are lost, and
  not counted again, although `proxy_nodes.go:922` calls `RecordProxyNodeUsage` the
  single write path.  With the exemption narrowed to resets (`operator.pc = "reset"`)
  TLC shows it.
- `ImplementsRemoval` in `control` needs one issuer at a time: with `"poll"` in `Overlap` it
  fails as in `job_order_race`.
- `ServedWhole` exempts a body whose end the upstream did not announce.  `Read` commits at any
  `io.EOF` and compares no length (`image_cache.go:595`), so of such a body whatever came
  before the connection closed is kept and served as the image until it expires.
- `lifecycle` with any one of the other faults: a removal may never end.  A lost answer
  or an agent's restart uses up the nonce; an expired job stays in memory and is
  never issued again; a restart of the controller replaces the hash of a job whose
  helper is running (the comment at 1297 says it remains valid); a provider error
  during the helper's only report leaves the completion to nobody.  In each case
  a retry, which `runbooks/vps-node-lifecycle.md:39` says re-drives the failed step,
  does not.
- A removal that is complete may be ordered again: `proxy_nodes.go:1442` calls the job
  idempotent, but ordering issues its complete job again (1354) and makes it partial
  until the node, which is gone, reports.  The runs check nothing of it.
- `publication` with `Direct = TRUE`: cleanup does not check that the server is not
  published (only the console's page does), and when the call times out the row
  stays published while the edges are being emptied; `OneFailureSurvived` fails.
- `publication` with `Overlap = {"delete"}`: delete checks the publication in an earlier
  statement and without the mutex, so a publish in between leaves fragments and a
  route of a server that is gone and no cleanup can name, although
  `38-emby-publication-workflow.md:25` says that a published node cannot be deleted; `Accounted`
  fails.  With `{"save"}` a publish stages other lines than the server has, or the
  server changes while it is published, and with `{"tag"}` toggleFav, saveOrder and
  batchTag write the old lines back while an update runs.
- `publication` takes a helper whose connection broke as done or never begun.  One that
  stays behind on NOSLA could write a fragment after the row was recorded clean.
- `Settles` exempts a conflict.  When the agent is killed between a canary's update of
  the edges and the save of its store, it renders another fragment after the restart
  than it finds on the edges, and every removal of it is a `route_conflict`.
- `OneFailureSurvived` ends with the second fault: a failed rollback of an update still
  records `published`, and an update that is cancelled after the server was saved leaves
  it with lines that neither the route nor the edges have.
- `Settles` needs an administrator who uses the interface itself: the page
  (`static/index.html:2216`) has no action for a row that stays `publishing` or
  `unpublishing`, and nothing settles it at startup.
- `ingress_safety` has no other writer of the record.  `ReplaceExactA` compares on the
  client's side: what another actor writes between its list and its PUT is
  overwritten, also by a rollback.
- `CalmSwitching` speaks of switches by decision or by hand in mode `auto`: an
  administrator's switch in another mode ignores both, and so does a DNS apply.
- `RunnerIsCareful` exempts what the runner does not record.  Only a verified switch
  starts the cooldown (`embyproxy_failover_policy.py:371`): after one that was taken back,
  or whose run was killed before the file was written, the next run may change the record
  at once (`prForgotten`).  A provider call that fails (289, 290) is not taken back, and
  its effect stays, verified or not (`prTrouble`).  The property bounds a switch for
  traffic from one side only: a host counter that was set back and grew past its baseline
  again shows less than was used and counts as fresh.
- `33-nosla-bwg-failover-admin-runbook.md:131` has the baseline of a new cycle taken after
  the six hours of grace; `traffic_sample` takes it at the first sample of the cycle and
  only calls the sample `reset_grace` until then (lines 143 and 159).  The model follows the code.
- `GuessLimit` is of one process: a restart forgets the failures.
- `LeftAfterFailure` leaves out throttled reports (section 3, `LineRouting`), and
  `FailureIsEarned` counts a cancelled attempt as one that failed.
- `LogAccounted` counts a line twice that was written while the log was read
  (`main.go:78` of the collector stores the size from before the scan), and all lines of
  a run that died between `Ingest` and `writeCursor`.  It does not speak of lines that
  were added to a rotated log after its last run, which no run opens again, and exempts
  those of a truncated log that had grown past the cursor before the next run.
- `ChallengeStands` with `AbsentEverywhere` replaced by `AbsentAtOnce` fails: it needs
  the wait of 65 seconds to outlast every provider call.

Fairness.  `WF(Reconcile \/ Replace \/ Switch)`: the goroutine that holds the
mutex runs on; every wait in it has a deadline (4 minutes, 90 s, 30 s).
`WF(RecoverStart)`: the ticker calls `reconcile` every 30 seconds.
`WF(Propagate)`: cached answers expire.  Administrators, faults and health
changes have no fairness.

In `ProxyNode` (`lifecycle`), the steps of a PATCH that has started are weakly fair (a request
handler runs to its end) and `SF(StreamEnds)`: a client ends its stream.  Strong
fairness stands for the code's single statement, which nothing delays for ever; it
is needed because a run without overlaps keeps it out of every PATCH.

In `Decommission` (`lifecycle`), handlers run to their end (`WF(Controller)`), the agent polls
every 15 seconds and goes on (`WF(Agent)`), a started helper runs and reports
(`WF(Helper)`), and an administrator retries a job that stays partial
(`WF(Retry)`): what the runbook tells them to do.  Orders and faults have none.

In `EdgeUsage` (`lifecycle`), the agent's loop goes on (`WF(Sends)`, `WF(Sleeps)`, `WF(Finishes)`: it
sleeps two seconds and starts over, whatever happened) and each handler runs to its
end (`WF(Serves(r))`).  Faults, operators and the clock have none.

In `Publication`, handlers and the agent run on (`WF(HandlerRuns)`, `WF(AgentRuns)`: each
call and each helper has a deadline), a console request that has read also writes
(`WF(ConsoleWrites)`), and an administrator cleans up until nothing is left to clean
(`SF(CleanupBegins \/ NormalizeBegins)`: strong, since other requests keep taking the
mutex).

## 5. Proofs

`PublicIngress_proofs` proves for any nodes, addresses, ranks, health states and
faults, from the assumptions `NoAddrAssumption`, `PutKindsAssumption`,
`NodeAssumption` (every node has an address of its own), `RankAssumption` and
`EnvironmentAssumption`:

| theorem | statement |
|---|---|
| `TypeCorrect` | `Spec => []TypeOK` |
| `EntryIsOwners` | `Spec => []SettledOwner` |
| `IntentIsLogged` | `Spec => []IntentLogged` |
| `UndoIsKept` | `Spec => UndoKept` |
| `PinIsKept` | `Spec => PinnedStaysPinned` |
| `DeadNodeIsLeft` | if `"health"` and `"foreign"` are not in `Faults`: `Spec => NoReturnToDeadNode` |
| `Implementation` | if `"foreign" \notin Faults`: `Spec => ImplementsTransaction` |

None of these properties is inductive: between the provider's change and the save
of its result they depend on what the goroutine knows.  The invariant `IInv` adds
it in layers.

- `TypeInv`: types, which `ReplaceExactA` (`JobOK`) can be at which step, and the
  target and addresses the locals hold there (`LocalsOK`).
- `StoreFollows`: the stored operation has the phase, owner and addresses of the
  goroutine's copy from the first save to the last.
- `StoredRecord`: what the stored operation says of the record, settled or in flight.
- `StepRecord`: what the goroutine knows of the record at each step, e.g. `dns = {From}`
  before the PUT, and `dns = {To}` while it verifies.

The last two hold as long as nobody else writes the record (`~foreign`).  There is
one lemma per action (or group of actions) and layer, suffixed `Type`, `Store`,
`Record`; the `Steps` lemmas classify what a step can do to the stored operation
and give both `UndoKept` and the refinement.

The other two action properties have an invariant of their own, which needs only the
types.  `PinInv`: either the request that is served is an administrator's and the
goroutine's copy says so, or nothing the scheduler works with is pinned.  `AwayInv`: the
candidates leave the active node out, the target of a health failover is not the node it
leaves, and a health failover rolls back only to a node that is trusted.  The hypotheses of `DeadNodeIsLeft` are those under which the run
checks it: a node that fails between the check of a rollback and its PUT is not noticed, and
another writer may put any address into the record.

`ProxyNode_proofs` proves for any enrollments and number of streams, from
`NoneAssumption`, `StreamsAssumption` and `UseAssumption`:

| theorem | statement |
|---|---|
| `TypeCorrect` | `Spec => []TypeOK` |
| `EveryStreamCounted` | `Spec => []StreamsCounted` |
| `CredentialsStayDead` | `Spec => NoCredentialRevival` |
| `ChosenOnPurpose` | if `CarefulConsole`: `Spec => [](EligibleHasIdentity /\ OutIsDisabled /\ OneCommand)` |

`TypeOK` alone is not inductive (the bound on `streams` needs `StreamsCounted`),
so both are proved in one induction.  `CarefulConsole` allows only reports in the
middle of a PATCH and no drain of a retired node.  The invariant `NodeInv` behind
`ChosenOnPurpose` has three parts: `RowInv` (a row without credential is retired or
reports no playback, and the other two properties), `PatchInv` (what a PATCH has
read is still safe to write) and `ReportInv` (a report only brings a node into
`degraded`, `online` or `healthy`).

`Decommission_proofs` proves for any number of orders and any tokens, from
`NoneAssumption` alone:

| theorem | statement |
|---|---|
| `TypeCorrect` | `Spec => []TypeOK` |
| `CompleteIsClean` | `Spec => []CompleteMeansClean` |
| `JobsRunOnce` | `Spec => []RunsOnce` |
| `Implementation` | if `OneIssuer`: `Spec => ImplementsRemoval` |

The first three hold whatever overlaps.  Their invariant `JobInv` says what a handler
that is under way relies on (`CallOK`: its job was ordered and its token made),
that tokens exist only for ordered jobs (`TokenOK`), that a nonce is used up before
its job is accepted and stays so when the helper runs (`AgentOK`, which makes
`RunsOnce` inductive), and that a report is only sent by a cleaned edge and the
mark "deleted" only follows a deletion (`ReportOK`, which makes `CompleteMeansClean`
inductive).  `OneIssuer` lets only the report run beside another handler.  Then
`IssueInv` (one issuer at a time)
and `GoneInv` (wherever a record may be deleted, the edge is clean or was given up)
are invariants too, and each step maps to one of `NodeRemoval` or to none.

`Accounting_proofs` proves for any number of events, cycles, requests, ticks, lines and
faults, from `BoundsAssumption` and `RoundsAssumption`, `StatsAssumption`, `LogAssumption`:

| component | theorem | statement |
|---|---|---|
| `EdgeUsage` | `UsageTypeCorrect` | `Spec => []TypeOK` |
| | `Once` | `Spec => []BilledOnce` |
| | `OwnCycle` | `Spec => []MeterOfCycle` |
| | `NothingLost` | `Spec => []AcknowledgedIsCounted` |
| | `DroppedAtEnd` | `Spec => OnlyEndedDropped` |
| `PlaybackStats` | `StatsTypeCorrect` | `StatsSpec => []StatsTypeOK` |
| | `PlaybackIsCountedOnce` | `StatsSpec => []StatisticsAddUp` |
| `StatsLog` | `LogTypeCorrect` | `LogSpec => []LogTypeOK` |
| | `LogStaysAccounted` | `LogSpec => []LogAccounted` |

Of the usage outbox, the invariant `UsageInv` has two parts besides the types.
`RequestInv`: every request asks for an event that was served (`Asks`), none has a clock
ahead of now (`InTime`), the sender listens to at most one (`OneHeard`), and a 200 on its
way means that the sender's event is counted (`Told`).  `Billed`: what is on the meter, and
what an operator's handler may write back to it, is counted, once, and of the cycle that
goes with it.

The rows of the other two components are sums over finite sets, which the model takes with
the folds of the community modules.  Those are recursive functions given by `CHOOSE`, so
that they have the values they should is itself to be proved.  Induction on the number of
elements is out of reach (its theorem takes an operator as a parameter); `SubsetInduction`
and `ElementInduction` are the same for a *set* of subsets of a finite set, proved from the
well-foundedness of `<` on the numbers.  From it follow `SumsExist`, `SumTakes`,
`SumOfSums`, `SumOfMembers`, `SumOfParts` and the others.

`StatsInv` says of the statistics that a tick that was counted is before the time of the
stored state, a counted play not after the last start and a counted session not after the
last report (`OnceOK`): that is why a late or repeated report adds nothing.  `TotalsOK` adds
to the equality of a day and its buckets the traffic that is being written: it is in
the day already and not yet in its bucket.

`LogInv` has a part for each thing the collector relies on.  `PlacesOK`: a line is at one
place of one log, and inodes never go down.  `RunOK`: the file a run opened is the one it
has, and what lies behind the size it took was written later.  `EventsOK`: what it read is
between the cursor and that size, or late.  `SkippedOK`: what is before the cursor, or will
be once the run moves it, is counted or was missed by a truncation.  `TimesOK` counts how
often a line was added: once for each run that died late, once if the line was late and once
if it has been *passed*; a run passes lines when it adds them and not when the cursor moves, which
is why the bound has to speak of the phase of the run.  `RowsOK`: the snapshot, what was
fetched and the central rows never exceed the rows of the edge, and these not the times
their lines were added.

`AdminAuth_proofs` proves for any requests, lifetimes, limit and window, from
`AuthAssumption`:

| theorem | statement |
|---|---|
| `AuthTypeCorrect` | `AuthSpec => []AuthTypeOK` |
| `CodesAreUsedOnce` | `AuthSpec => []CodeUsedOnce` |
| `GuessesAreLimited` | `AuthSpec => []GuessLimit` |
| `GrantsStayCurrent` | `AuthSpec => []GrantsAreCurrent` |
| `LogoutIsFinal` | `AuthSpec => []LogoutEndsFamily` |

All rest on what the locks give.  `LockOK`: a writer holds `authStateMu` alone, so what a
request was told of the enrolment still holds (`EnforcedOK`).  `TotpOK`: one request at a
time saves its step, later than every step accepted before.  `GuessOK`: the counter is at
least the guesses of the window.  `EpochOK`: unless they are being replaced, the sessions in use
are of this enrolment, and so is a login that holds the lock.  `FamilyOK`: a session in use
has its whole family on record or expired, and of a family the active session expires first;
without it an expired sibling could leave a logout with nothing to find.

`RequestPath_proofs` proves for any lists of lines, requests, sizes, versions and settings, from
`StreamAssumption`, `ImageAssumption` and `LinesAssumption`:

| component | theorem | statement |
|---|---|---|
| `StreamResume` | `ResumedStreamIsOne` | `StreamSpec => []OneResource` |
| `ImageCache` | `ServesWholeBodies` | `ImageSpec => []ServedWhole` |
| | `WaitersHaveALeader` | `ImageSpec => []WaitersAreLed` |
| `LineRouting` | `FailuresAreEarned` | `LineSpec => []FailureIsEarned` |
| | `ActiveLineIsKept` | `LineSpec => LeftAfterFailure` |

`StreamInv` says that what was sent is the run of bytes of the plan so far (`SentOK`), that
what is copied goes on with it (`CopyOK`) and that a time of modification that was over
when the response was sent belongs to no later version (`TimeOK`): a weak
validator is strong only with that.  `ImageInv`: from the start of a fill to its end its
leader is on the way from the limiter to the commit with the cache it started with
(`FillsOK`), and who waits, waits for a fill that is under way (`WaitsOK`).  What a request
has written is what it has read until a write fails (`BusyFetches`), so that what it commits at
the announced end is the whole (`BodyOK`).  `LineInv`:
every line of a walk's list is still to come or failed no longer ago than a ban lasts, and
the line it started from comes first while it has not (`Covers`); a ban is of a failure
(`BansOK`).

`Control_proofs` proves for any edges, orders, thresholds, times, limits, samples, addresses,
intervals and whatever a PUT does to other values, from `CertNodesAssumption`,
`OrdersAssumption`, `TxtPutsAssumption`, `RunnerAssumption`, `ThresholdAssumption`,
`TimesAssumption` and `SamplesAssumption`:

| component | theorem | statement |
|---|---|---|
| `EdgeCertificate` | `CertTypeCorrect` | `CertSpec => []CertTypeOK` |
| | `ChallengesStand` | `CertSpec => []ChallengeStands` |
| | `OneAtATime` | `CertSpec => []OneChallenge` |
| `PolicyRunner` | `RunnerTypeCorrect` | `RunnerSpec => []RunnerTypeOK` |
| | `RunnerStaysCareful` | `RunnerSpec => []RunnerIsCareful` |
| `FailoverController` | `ControllerTypeCorrect` | `FailoverSpec => []FailoverTypeOK` |
| | `SwitchingIsCalm` | `FailoverSpec => []CalmSwitching` |
| | `RecordStaysAccounted` | `FailoverSpec => []RecordAccounted` |
| | `PrimaryStaysLeft` | `FailoverSpec => NoReturnInCycle` |

`CertInv`: a call is in flight only under the lease of its value, and a DELETE only when
its edge, if it still knows the value, does not want it any more (`FlightOK`).  `RunnerInv`: the counts of the state file are streaks of probes that
were made (`HealthInv`), what NOSLA used since the start of a baseline's cycle is at
least what its counter has grown (`MeterInv`: a reboot may hide traffic, never invent it),
the switch the file knows is the last one unless it was forgotten (`SwitchedInv`), the
decision of a run still has its reason when it is applied (`ReasonInv`), and without trouble
the record is the one verified last (`RecordInv`).

`ControllerInv` adds to the properties of the controller that every switch is over and its
cooldown is not longer than the one in the state (`SwitchOK`), that on the fallback the
state's cycle is the one the primary was left in (`CycleOK`), and that while a DNS change
is under way the run in the database is that change and is pending (`ApplyOK`).

`Publication_proofs` proves for any sets of lines, kinds of requests, kinds and number of
failures, from `NoneAssumption`, `FaultsAssumption` and `RequestsAssumption`:

| theorem | statement |
|---|---|
| `PublicationTypeCorrect` | `Spec => []TypeOK` |
| `NothingIsForgotten` | if `"delete" \notin Overlap`: `Spec => []Accounted` |
| `PublicOnceServed` | if `"delete" \notin Overlap`: `Spec => PublicOnlyWhenServed` |
| `OneFailureIsSurvived` | if `Overlap = {}` and `~Direct`: `Spec => []OneFailureSurvived` |

The second and third say more than their run, which allows neither an unlocked save beside
a handler nor a cleanup of a published server; the hypotheses of the last are the constants of
its run.  No hypothesis can go: with one failure TLC finds `Accounted` violated for
`Overlap = {"delete"}`, and `OneFailureSurvived` for `{"save"}`, for `{"tag"}` and for
`Direct` (section 4).

Each property is about a handler that is in the middle of its list of steps, while
the agent may still carry out what another handler gave up.  The invariant is built in
layers, every one of which uses those before it.

- `ShapeInv`: which lists of steps a handler of each kind can have left (`Todos`), what it
  holds there, and which command with which fragments the agent carries out.
- `CallInv`: a call that was sent is the last in the queue, or the agent is busy with it, or
  it is answered; an answer that says an edge was emptied, or both were written, is true.
- `AccountedInv`: what the row and the route say at each step of each handler (`PhaseOK`),
  which row it may go back to (`RecordOK`), and the core: where the row is clean or gone, both
  edges are empty and the agent has nothing queued or under way (`ClearOK`).  `Accounted`
  alone is not inductive: a late request could still write a fragment.
- `ServedInv`: from the beginning of a first publication to its call the edges are empty
  and all the agent may still do is to remove (`PreparedOK`), so what it then writes and
  answers is what the route says (`WrittenOK`); that is what makes the commit safe.
- `AloneInv`: if nothing overlaps, the lines a handler works with are those of the server.
- `UnfailedInv`: before the first failure, a row that is published, or that a handler may
  put back to it, goes with a route and edges of the same lines (`Faithful`), calls
  succeed (`Succeeds`) and nothing is being undone.
- `OneInv`: after one.  Wherever the row says published, or may soon, an edge that has a
  fragment runs with it (`LiveOK`); at rest both serve the same lines and what is still queued is
  only canaries of them, or one canary is on the way to other lines (`RestOK`,
  `Converting`); and an update that is being undone has what it needs for that
  (`RestoreOK`).

Most steps are decided by what a helper may leave on one edge, which `Helps` and
`KilledHelps` say for all outcomes at once.

No safety invariant and no action property is only model-checked.  Only model-checked are the
liveness properties `SwitcherReturns`, `InterruptedResumes`, `DrainFinishes`,
`RemovalEnds`, `Delivered` and `Settles`, which TLAPS cannot prove under fairness.

## 6. Not modelled

- The node scheduler: a pure ordering of candidates.  `PublicIngress` takes the order as
  a constant (`Rank`), whatever it is.
- The business monitor and the ingress watchdog: counters of failed probes, whose results
  are free inputs of `PublicIngress` and `ProxyNode`.
- Identity, capture and client profiles: one lock each and no protocol.
- Storage and migrations: the transactions are actions of the components that use them;
  migrations run once, at start.
- Logging, notifications, configuration, validators, time, build information, the static
  page, installation and deployment scripts: no state other components depend on.
- Of the switcher: the scheduler's status record, a display value.  Of the DNS client:
  `EnsureA`, `DeleteExact` and the HTTP layer.  Of the registry: priorities, ownership
  columns, redirect endpoints and snapshots.  Of the edge agent: the synchronisation of
  its configuration and the serving of requests.  Of the playback proxy: rewriting of
  URLs, headers, playlists and redirects, and an upgraded WebSocket connection.
