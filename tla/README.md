# NetNazar relay: TLA+ models and proofs

The relay (`src/netscan-relay`) takes inventory and metrics pushes from agents, keeps them in
PostgreSQL, serves them to the app, and tunnels HTTP requests from the app back through an agent's
WebSocket. This project models the parts of it in which several actors meet: the tunnel, inventory
pushes with the hash-chained event log and presence sessions, metrics pushes with outages, the
commands, logins and authentications around them, and the notifications that pushes send. TLC
checks the models on small instances; TLAPS proves every safety property and both refinements that
the passing runs check, for any number of tenants, sockets, requests, devices, pushes, commands and
calls.

    tlc -config tunnel_reconnect.cfg MC_ProxyTunnel     # any run of PROJECT.json
    for m in ProxyTunnel Notify Inventory Inventory_tables Accounts Metrics Metrics_outages
    do tlapm ${m}_proofs.tla; done; tlapm Least.tla

## The system

| component | state | operations | model |
|---|---|---|---|
| reverse tunnel (`tunnel.rs`; `agent_tunnel`, `agent_socket`, `do_proxy` in `routes.rs`) | `Registry::conns` (tenant to sender), `Registry::pending` (id to oneshot), one mpsc channel per socket; all in memory | `register`, `unregister`, `request`, `complete`; the socket task and its pump; the proxy handler with its 20 s timeout | `ProxyTunnel`, `ProxyService` |
| inventory (`post_inventory`, `maybe_prune_retention`, `event_row_hash`, `get_audit_verify`) | tables `networks`, `devices`, `events`, `presence_sessions` | one transaction per push; pruning and notification after it; the audit check | `Inventory`, `AuditLog` |
| metrics (`post_metrics`) | tables `agent_metrics`, `outage_events` | one transaction per push | `Metrics` |
| accounts (`auth.rs`, CLI in `main.rs`) | `tenants`, `agents`, `accounts`, `sessions` | `ensure_default_tenant`, `enroll`, `create_account`, `login`, `authenticate*` | `Accounts` |
| notifications (`notify.rs`, channel endpoints, `add-channel`) | `notification_channels`; detached tasks in memory | add, delete, `dispatch` with the quiet window | `Notify` |
| read endpoints | none of their own | `get_devices`, `get_networks`, `get_events`, `get_audit`: operators of `Inventory`; `get_metrics`, `get_outages`: of `Metrics`; `get_networks`, `get_channels` and `assert_network_owned` by tenant: `Accounts` | as named |
| router, `healthz`, panel; `db.rs`, `error.rs`, `netscan-proto` | none | routes, pool, migrations, error codes, serde types | not modelled |

How they interact. Handlers share `AppState`: the connection pool and the `Registry`. A tokio task
may be preempted by others at every `await`, and axum drops a handler's future at an `await` when
its client hangs up. Pushes meet only in the database, where every transaction runs in READ
COMMITTED. Proxy requests and agent sockets meet in the two mutexes of the `Registry` and in the
channels. An inventory push hands messages to detached tasks that call `notify::dispatch`.

What is hard in it, and what makes each component correct:

* **Tunnel.** Two connections of one agent overlap when it reconnects before the old one is noticed
  dead; a sender is cloned under a lock and used after it; a reply races the timeout; aborting the
  pump loses requests; the relay restarts. Correct: a waiting handler can be woken; the registry
  holds no dead sender; a request reaches only its own tenant's agent; an answer comes from an
  agent; every request ends; nothing stays in a dead channel.
* **Inventory.** Pushes to one network are serialised only by the row lock of the `networks` upsert,
  and what is read before it is stale; retention deletes between and during pushes; a handler may
  vanish at any `await`. Correct: the chain verifies and shows tampering; neighbours stay linked;
  retention takes the old end only; tables are as if the committed pushes had come one by one;
  sessions of a device do not overlap; a new device's events are those of the push that listed it
  first; nobody is told
  of what was rolled back.
* **Metrics.** Nothing serialises pushes, so statements of overlapping transactions interleave and
  wait for each other's rows and index entries. Correct: at most one open outage, ends after starts,
  outages are the runs of lost samples, the newest samples stay, no circular wait.

* **Accounts.** No two statements of a command are in one transaction, and commands are processes of
  their own; tokens are tried one after the other, at different times, and a session ends between
  two tries; the wall clock may go back. Correct: commands that do not overlap make one household
  whose members see all of it; an address has one account; a session is given for the right password
  only and is good for exactly its time; tenants stay apart even where there are several.
* **Notifications.** Channels come and go between a push's commit, its read of the channels and the
  moment a task runs; endpoints may never answer; configs may be useless. Correct: exactly the
  tenant's channels are told, exactly outside their quiet hours, and nobody waits for an endpoint.
  Told means that a task was spawned for the channel; whether a message arrives is up to the endpoint
  and no property.

`PROJECT.json` lists these hazards line by line, with the properties that would catch each. Some have
none, because the code does the thing and no doc says otherwise, or because the model assumes it
away; their notes say which.

## Modules

### ProxyTunnel

A *socket* is one life of an agent's WebSocket, a *request* one call of `do_proxy` (and its uuid).

| variable | code |
|---|---|
| `conns`, `pending` | the maps of `Registry`; a sender is named by its socket |
| `phase` | where `agent_socket` is: connected, registered and reading (`serving`), read loop left (`closing`), unregistered (`aborting`), ended |
| `link` | the agent's end of the connection is alive (a half-open one is not, but unnoticed) |
| `rx`, `queue` | the pump still owns the receiver; the unbounded channel |
| `inbox`, `replies` | what reached the agent; its frames on the way back |
| `req`, `sender`, `slot` | where `do_proxy` is; the sender it cloned; what its oneshot holds |
| `served`, `crossed` | history: what agents replied; tenants with two registered sockets at a time |

The two mutexes are never held together, so each critical section is one action: `Register`,
`Unregister`, `Complete` (inside `ReadFrame`), `Lookup`, `InsertPending`. `Send` is the channel's
`send`, which fails once the receiver is gone. `PumpSend` takes one request and writes it; on a dead
link the write may be accepted and lost, or fail and end the pump. `Cancel` drops the handler's
future where it can be suspended (the two locks and the oneshot). `Restart` empties everything in
memory. Replies are a set: they may be late, repeated, reordered, or lost with the link.

### ProxyService

The promise, without sockets or registry: a request is admitted only for a network of its own
tenant, only an admitted one is served, it ends once, and it is answered as some agent replied.
`ProxyTunnel` implements it under the mapping `progress` (in-flight states are "open") and `served`.

### Inventory

A handler's transaction is cut into the statements other transactions can see or be blocked by:
`SelectNetwork` (is this the baseline?), `UpsertNetwork` (takes the row lock, or waits),
`ReadSnapshot` (known MACs, time, head of the chain), `WriteDevice` (one turn of the loop: device
row, session, event), `Commit` (closes sessions, makes the rows visible, unlocks). Rows written but
not committed are in `mine`. After it come `SkipPrune` or `PruneSessions` and `PruneEvents`
(statements of their own, whose errors the code ignores), then `Notify`. `Fail` is a database error,
a dropped handler or a stopped relay, at any point. `nextSeq` is the sequence behind `events.seq`:
drawn when a row is inserted, not given back by a rollback, shared by all networks.
`Verifies` is `get_audit_verify`.

`Hash` is a tuple of its inputs: SHA-256 is taken to be injective, and so is the joining of the fields
with newlines in `event_row_hash`, which is true of MACs and host names without one. `TamperEvident`
and its theorem hold for those. An event's kind and message are
functions of the device here, so changing a message is changing the device.

What readers see is stated through `GetDevices`, `GetNetworks`, `GetEvents` and `GetAudit`, the
read endpoints' queries as operators on the tables. Where PostgreSQL may break ties in `ORDER BY ts`
as it likes, the operator gives the set of possible answers.

### AuditLog

The promise of the events table, without handlers, locks or statements: batches are added at the
end of one network's chain, linked to what is left of it, and only old ends go. `Inventory`
implements it with `log <- events, ever <- appended`.

### Metrics

`Begin` inserts the samples, `SelectVictims` and `DeleteVictims` are the subquery and the deletion
of the trim, `ReadOpen` and then `StartOutage`, `EndOutage`, `KeepOutages` or `Conflict` are one
turn of the loop over the Internet samples. `own` holds a transaction's uncommitted versions of
outage rows, overlaid on the committed ones (`OutagesSeen`); `LockedByOther` and `IndexBusy` are
PostgreSQL's row lock and the wait of an insert on the partial unique index. `EndOutage` keeps the
row it read before waiting, as the `UPDATE ... WHERE id` does. `GetMetrics` and `GetOutages` are
what readers may be shown for a limit.

### Accounts

A process is a command or an HTTP call, named by the one fresh uuid, key or token it makes. Every
`SELECT` or `INSERT` is an action: `FindTenant` and `MakeTenant` are `ensure_default_tenant`,
`InsertAgent`, `InsertAccount` and `InsertChannel` end the three commands, `FindAccount` and `Grant`
are `login`, `TryKey` and `TrySession` the two halves of `authenticate_reader_token`, of which
`authenticate` is the first. `now` holds a process's readings of the clock, one for each token it
tries. `Trip` is the `if let Ok` of `reader_from_req`, which takes a database error for a bad token;
only a proxied request takes it, however many tokens another call is given.
`Push` and `List` stand for what agents write and readers read under the tenant so found, and
`Reach` for `assert_network_owned` and the same query in `do_proxy`. A proxied request carries two
tokens here instead of up to three. `Tick` sets the clock to any time. A failed process is forgotten
(its rows are not); a key or token is known only once its process is done.

### Notify

`AddByApi` and `AddByCommand` are `post_channel` and `add-channel`, which check the same except
that only the first parses the config; a config that parses is the set of its keys, and `Required`
says which a kind needs. Requests that are refused change nothing and are no action. `Commit`, `Tell`
(or `Misread`, the `unwrap_or_default`) and `Cancel` are the end of `post_inventory`; `Tell` spawns
one task for each message and channel, with a copy of the channel. `Dispatch` is `dispatch` up to
the request, with a clock reading of its own; `Answer` is the endpoint's, which may never come.
`Restart` loses the tasks. A task's `at` is
the reading that held it back or let it go, and is cleared when it fails or is lost. `CurrentHour` and `QuietWindowContains` are the code's arithmetic, and
`InWindow` is what it should be, in seconds on the circle of the day.

### Variants

An operator named `<Operator>_<bug>`, just before the operator it varies, is that operator with a
plausible mistake. No behaviour of `Spec` takes one; putting it in place of the original must break
the property it is listed with in `PROJECT.json`.

## Runs

| run | shows |
|---|---|
| `tunnel_reconnect` | two overlapping sockets of one tenant, two requests: `WaiterReachable`, `NoDanglingSender`, `AnswersComeFromAgents` |
| `tunnel_tenants` | two tenants, one of whose agents reconnects, a request for its own and one for a foreign network, fair: `TypeOK`, `TenantIsolation`, `SoloAgentReachable`, `ImplementsService`, `RequestsEnd`, `ClosedChannelsEmpty` |
| `inventory_chain` | two pushes to one network, one to another, retention on, clock up to 2: `AuditPagesLinked`, `LatestEventsShown`, `RetainedIsSuffix`, `WholeChainVerifies`, `TamperEvident`, `ImplementsAuditLog` |
| `inventory_tables` | three pushes to one network, reports that list a device twice, retention on, fair: `TypeOK`, `SerialOutcome`, `SessionsDisjoint`, `NewDeviceOnce`, `AnnouncedAreRecorded`, `PushesEnd` |
| `metrics_pushes` | three calls, any order and overlap, cap of 2, fair: `TypeOK`, `OutagesWellFormed`, `OutagesAreLossRuns`, `NewestSamplesShown`, `ConflictsNeedOverlap`, `CallsEnd` |
| `accounts` | two commands, a login or push, and a read with any tokens: `TypeOK`, `OneHousehold`, `OneAccountPerAddress`, `LoginsExact`, `FirstGoodToken`, `TenantsApart` |
| `notify` | pushes of two tenants, two channels that come and go, fair: `TypeOK`, `EveryChannelTold`, `NobodyElseTold`, `QuietHours`, `NewsGoesOut` |

Runs that end in a counterexample, each a statement of the code's own docs or tests that the code
does not keep:

| run | counterexample |
|---|---|
| `tunnel_takeover` | the old socket's `unregister` removes the new socket's sender: a connected agent that no request finds |
| `tunnel_pending` | after a timeout an entry stays in `pending` for ever |
| `inventory_retention_audit` | after pruning, `get_audit_verify` rejects a chain nobody touched |
| `inventory_baseline_race` | two first pushes both see no network: the second one's devices never get an event |
| `accounts_two_tenants` | two first commands both find no tenant and make one each |

More deviations show in the models, and no run is about them: properties of the passing runs state
them as the code has them, or leave them out. A device absent from later reports keeps `is_online`
although its session is closed: `SerialOutcome` says which report decides which table.
`NewDeviceOnce` counts an event for each entry of the first push to list a device: two if it lists
the device twice. Overlapping metrics pushes leave more samples than the 1000 of the comment at
`routes.rs:486` until the next push; of two that both see no open outage the second fails on the
index with all its samples; one that waited may overwrite the end the other gave an outage:
`NewestSamplesShown`, `OutagesAreLossRuns` and `ConflictsNeedOverlap` are about calls that do not
overlap (`overlapped`). A proxied request goes on to its next token after a database error:
`FirstGoodToken` names that exception (`tripped`), and `EveryChannelTold` the failed read of the
channels (`misread`).

### Bounds, and why they are enough

* Tunnel: the interesting events need a takeover (two sockets of a tenant), a second tenant, or two
  requests in one channel; each run has those it is about. Sockets are not reused, so the number of
  sockets bounds the number of connections. Queues, inboxes and replies are bounded by the requests.
* Inventory: two pushes that overlap and a third party (pruning, another push, another network) are
  the shortest way to every hazard of the list. Reports have up to three entries, chains up to four
  events. Time is counted in units of the retention period, up to `MaxTime` = 2: an event can be
  young, at the cutoff, or past it. `EventLimit` is small instead of 100, so that events fall
  off a reader's list. In `inventory_tables` the clock goes to 1 and retention removes ended sessions.
* Metrics: times are 1 to 5, reports have up to four samples, `Cap` is 2 instead of 1000. In
  `OutagesAreLossRuns` the antecedent `InOrder` (no overlap, distinct times, calls in order) is
  where "the runs of lost samples" has a meaning; three calls open, close and reopen an outage
  there. Overlapping and late calls are covered by the other properties.
* Accounts: two commands are enough to make two tenants, two accounts asked for in two spellings, or an agent
  and a user; `TTL` is 1 of two clock values, so a session is seen before, in and after its last
  second, and with a clock set back. Three commands or separate pushes and logins exceed 20 million
  states and add no new pair of statements that meet.
* Notify: two channels, one of which may be deleted and its uuid not used again, one push of two
  messages and one of another tenant; the clock is read at the first quiet second and the first
  after it. All other hours and windows are covered by the proof.
* Symmetry (calls about one network; sockets and requests of one tenant) is used for invariants, and
  in `inventory_chain` for the refinement of `AuditLog`, a safety property in which calls do not
  occur; never in a run with liveness. `CHECK_DEADLOCK FALSE` everywhere: the calls are finitely many and end.

### Fairness

`ProxyTunnel!FairSpec`: weak fairness of each request's handler (tokio runs a ready task, and the
timer fires) and of each socket's cleanup. None of the agent, the network, the clients or the pump,
which a slow agent can block for ever; `ReadEnd` is not fair either, as a half-open connection may
go unnoticed. `Inventory` and `Metrics`: weak fairness of each handler's own steps: the database
answers. A lock wait is a disabled step; when it ends the step is taken by some call, and the calls
are finitely many, so weak fairness is enough. `Notify`: the handler goes on after its commit, and the runtime
runs a push's tasks; endpoints owe no answer. Failures are never fair. `Accounts` has no liveness:
its processes do not wait for each other.

## Proofs

Every invariant of a passing run, and both refinements, are theorems; `PROJECT.json` names them one
by one. Each proof has the same shape. The properties are not inductive by themselves, so an
inductive invariant adds what the code maintains tacitly; there is a lemma for each of its parts,
with a step for each action that can disturb the part; the theorems follow from the invariant. The
only assumptions are the named ones on the constants (`TunnelConstants`, `NotifyConstants`,
`InventoryConstants`, `AccountsConstants`, `MetricsConstants`), which say what kind of thing each
constant is; TLC evaluates them in every run.

### The tunnel: `ProxyTunnel_proofs`

`TunnelInv` adds to the properties: `CrossedKnown` (two sockets of a tenant are registered together
only if `crossed` says so), without which `SoloAgentReachable` is lost at `Unregister`;
`SenderKnown` (a handler holds a sender exactly between lookup and send, of a socket of the caller's
tenant); `Provenance` (whatever is in a channel or an inbox was admitted, by a caller of that tenant
who owns the network, and had its oneshot filed before), from which `TenantIsolation` follows;
`WaitersFiled` with `Unsent` (a request that has not been sent is in no channel and no inbox), which
make `WaiterReachable` a matter of the order in `Registry::request`: file first, then send; `RepliesServed` (a reply on the way or
in a oneshot is one an agent gave), from which `AnswersComeFromAgents` is kept. `StepSides`,
`SocketFrame` and `HandlerFrame` say which variables socket steps and handler steps leave alone, so
that each part is proved only for the actions that touch it; `ReachGrows` and `AdmissionStable` say
how requests reach sockets and stay admitted. The refinement maps each action to `Submit`, `Serve`,
`Finish`, `Crash` or a stutter (`ServiceSocketStep`, `ServiceHandlerStep`, `ServiceStep`), using the
invariant for the guards of `Serve` and `Finish`.

### Notifications: `Notify_proofs`

`Inv` adds `DroppedAreGone` (a channel its tenant deleted has no row, which needs that ids are
unique), `StillThere` (until a committed push reads the channels, those it must tell have rows:
another tenant's DELETE cannot take them) and `TasksFollow` (a push that has not been answered has
no tasks). `WindowExact` is about the code's arithmetic alone: for all 24 x 24 windows and every
second, the comparison of hours agrees with the distance on the circle of the day.

### Inventory: `Inventory_proofs` and `Inventory_tables_proofs`

The chain is safe because of the row lock. `Locking` says that who is between the upsert and the end
of its transaction holds the lock of its network, and nobody else does (`HeldAlone`). `Extends` says
what a writer knows meanwhile: the events it has made come after all others of its network, in
number and time, and `prev` is the hash of the last row, if retention has left one. With `Recorded`
(what is left of each chain is linked, what it ever was is ordered and starts from the empty hash,
and retention has taken old ends) this is inductive: pruning during a push takes rows that `Extends`
does not need, as they are older than what is left. Chains have no bound here, so "the row before"
is found with `Least`: of all rows with a smaller number, the one with the greatest. The lemmas about
sets of events come first (`RowAppended`, `SuffixKept`, `MissingRow`, `ReplacedRow`) and know
nothing of handlers. `ImplementsLog` maps `Commit` to appending, `PruneEvents` to forgetting, and
all else to a stutter.

`Inventory_tables_proofs` uses that invariant. `Sessions` says that a network's ended sessions are
over by the time a writer holds, and before any session it opens. `Outcome` is the invariant behind
`SerialOutcome` and `NewDeviceOnce`: the tables of a network are what its committed pushes make of
them in the order of their commits (`Serial`, `EventsOnce`: a device's
events were all written by the first push to list it), the reports of committed pushes are not
touched again (`PushesOver`), and what a writer has written so far is what the entries it has gone
through make of the committed tables (`Writes`), which the lock keeps still. The counts that
`get_networks` shows are those of the devices because rows correspond to devices one to one
(`RowPerDevice`).

### Accounts: `Accounts_proofs`

`Origins` names the process behind every row: an agent's key, an account's id and a session's token
each belong to one process that is done, so rows with a common key are the same row, and what a token
stands for never changes (`TablesGrow`, `EndedStay`). `Knows(p)` is what each call has learnt from
the tables at times when it read them, and goes on knowing because tables only grow: that is the
proof that reading statement by statement, without a transaction, does no harm here. `LoginKnows`
contains the history that `LoginsExact` needs: a refused login has not overlooked a command that was
done when it came. `Household` is the only part that needs commands not to overlap: it adds to
`OneHousehold` that a command which is about to make a tenant still finds none and that every row has
a tenant in the table. `TenantsApart` does without it.

`AccountsConstants` says which process may be asked for what, that no process is both a command and
a call, and that an address has a spelling.

### Metrics: `Metrics_proofs` and `Metrics_outages_proofs`

`Index` is the reason for one open outage: no two transactions have an uncommitted entry in the index
of open outages, and one that opens an outage while another is committed has ended that one, so holds
its row. `Versions` and `FoundThere` say which rows an uncommitted version may be of. While calls do
not overlap, `Alone` says that a call that found no open outage goes on having none, whence
`ConflictsNeedOverlap`, and `Kept` follows the trim through its two statements: what is left after
it are the newest samples, for any `Cap` and any report (`NewestOfNewest` for the limit of a reader).

`RunsSeen` is what makes `OutagesAreLossRuns` inductive: for calls that come in order, after each
sample the outages a call sees are the runs of the samples that came before it, of earlier calls and
of its own (`Seen`). What one more sample does to the runs of a set is a fact about sets of samples
alone (`OneSampleMore`); `KeepRecords`, `StartRecords` and `EndRecords` carry it over to the outages
that record the runs, one for each way the code goes. The loop takes its samples in the order of time (`Sorted`).

`MetricsConstants` says that `NoOutage` is not a row.

### What stays with TLC

Liveness: `RequestsEnd`, `ClosedChannelsEmpty`, `PushesEnd`, `CallsEnd` and `NewsGoesOut` need
fairness and so ENABLED, which the prover cannot handle. The properties of the runs that expect a
violation are no theorems, of course. `Least` replaces induction on numbers, which the installed
provers cannot instantiate, by the library's well-foundedness of finite sets under inclusion. TLC
has checked the inductive invariants too, on the instances of the runs.

## Assumptions and what is left out

* In `Inventory` the wall clock does not go back (`Tick`; in `Accounts` it may); `now_unix` is in units of the retention period.
* PostgreSQL is as documented: READ COMMITTED, row locks, unique indexes, sequences. Statements
  are atomic; in particular a DELETE takes all its rows in one step, so two DELETEs that would lock
  common rows in different orders (and be told apart by PostgreSQL's deadlock detector) are not
  modelled.
* In `ReadSnapshot` the three reads are one step: the first is of rows the lock protects, the second
  is the clock, and only the third can see another network's pruning.
* One relay process, as `tunnel.rs` says. In the other modules the authentication that `Accounts`
  models is a constant (`Principal`, `SocketTenant`, `TenantOf`). Frames that are not a `ProxyResponse` are ignored by the code and by the model.
* Malformed bodies, wrong schema versions and unknown networks are refused before any state changes.
* SHA-256 and argon2 are injective, fields that are hashed contain no newline, and nobody guesses a key
  or a token.
* Each read endpoint is one read of the database. `get_audit` makes two, and a push that commits
  between them shows in the second only; nothing in the code relates the two lists.
* The eight notification kinds differ only in the config keys they need: no bytes of requests.
* Router, `healthz`, panel, pool, migrations, mapping of errors to HTTP statuses and the serde types
  keep no state and take no decision that another component relies on.
* Names, addresses, times of first and last sight, counters, round-trip times, page contents.

## Plan

1. The next facts about the models worth proving: that `Inventory` and `Metrics` have no circular
   wait (in every state some handler that has begun can take a step unless all have ended), stated
   without ENABLED through the guards; that each push is one atomic change of the tables, as a
   refinement of an abstract store with one action.
2. `Relay`: tunnel and pushes over one set of tenants, with restarts that hit both.
