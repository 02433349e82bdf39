# Ventura.SEG in TLA+

Ventura.SEG is a control plane for agents: it decides which commands, domains and
contents an agent may use, holds the credentials the agent must not see, isolates
agents that misbehave, and publishes itself in a service mesh. This directory holds
TLA+ modules of its stateful parts, TLC configurations that check them on small
instances, and TLAPS proofs of what holds for every size.

The code is `src/src/` (Python, about 3,200 lines). It has no event loop: what runs
concurrently is threads, and only one class, `VaultAutoRenewer`, starts one of its
own or takes a lock. The other classes are shared by whatever threads the
application has and take no lock.

## 1. Inventory

| Component | State | Operations | Interacts with |
|---|---|---|---|
| Vault auto-renewer (`credential_proxy/auto_renew.py`) | thread, stop event, lock, `lease_duration`, wait, counters | `start`, `stop`, `renew_once`, the loop, `status` | Vault client, loader, audit |
| Vault secret loader (`credential_proxy/vault.py`) | the client and its token | login with a token or OIDC/JWT, `reauthenticate_oidc`, `load_kv`, `load_multiple` | Vault, JWT provider and file, credential proxy, audit |
| Credential proxy (`credential_proxy/proxy.py`) | three dictionaries: secret, domains, description | `register`, `inject`, `resolve`, `get_handle` | loader, audit |
| Permission engine (`permissions/engine.py`) | rules, default, two sets of domains, policy directory | `from_policy_dir`, `reload`, `evaluate_command`, `evaluate_domain` | two YAML files, audit |
| DLP gateway (`gateway_out/dlp.py`) | rules, default, policy path | `from_policy_file`, `reload`, `scan` | a YAML file, audit |
| Regenerative loop (`core/regenerative_loop.py`) | per agent a window of decisions and a counter; the isolated set | `observe`, `tick` (detect, heal), `release_agent`, `is_isolated` | permission engine, callbacks, audit |
| Consul client (`service_mesh/consul.py`) | `_registered_id`; the registrations are the agent's | `register_ventura_service`, `deregister`, `discover` | Consul agent, audit |
| Service intentions (`service_mesh/intentions.py`) | the intention of each destination, in Consul | `allow`, `deny`, `apply_default_deny_allow`, `apply`, `get` | Consul client |
| Upstream manager (`service_mesh/upstreams.py`) | `_config`, the list of upstreams | `load_yaml`, `add`, `remove`, `apply`, `get_local_endpoint`, `ensure_intentions` | Consul client (and its `_registered_id`), intentions |
| Secrets monitor (`credential_proxy/monitor.py`) | none between calls; reads the dictionaries of the proxy | `check` | credential proxy, Vault, audit |
| Sandbox executor (`sandbox/executor.py`) | none between calls; processes and containers | `run` | operating system, Docker, audit |
| Audit logger (`audit/logger.py`) | one file per start | `log_event` | every component calls it, and it may raise |
| Sanitizer, health | none kept between calls | one pass each | audit |

What is hard in it, with the properties that matter:

* **Auto-renewer.** A loop thread, callers of `start()`, `stop()` and `renew_once()`,
  an event that `start()` clears again, a join with a timeout, a lock around attempts
  that may end by any exception. Correct means: at most one loop; a stop that is
  obeyed and a start that is not lost; the lock given back; a success that is never
  claimed without a grant; a loop that no failure ends and that recovers the session;
  a wait that fits in the lease.
* **Policy reload.** The permission engine and the DLP gateway replace their fields
  one by one while evaluations read them one by one, and files change or go away while
  they are read. Correct means: one whole policy is in force between reloads, a reload
  that fails changes nothing, what every policy blocks is never let through.
* **Regenerative loop.** A tick detects first and heals later; `observe()` and
  `release_agent()` of other threads come in between, callbacks may raise. Correct
  means: nobody innocent is isolated, whoever is suspicious finally is.
* **Mesh.** Intentions are read, merged and written without a compare-and-set, and an
  error may pass for an entry that does not exist. Correct means: a default deny in every
  entry; a word that is lost only to an overlapping call; every upstream open when
  `ensure_intentions` returns. Two operations register the application, under two
  default ids, each with the whole registration; one variable remembers one of them;
  requests fail before or after they took effect, and processes die. Correct means: what
  a call that returned says is so, the local endpoints are those of the sidecar, a
  registered service is found, and nothing dead stays.
* **Credentials.** `inject()` is checked before `resolve()`, and `register()` writes
  three dictionaries in a row; loading several secrets may fail in the middle. Correct
  means: no host authorised that no registration covers; secret and domains of one
  registration; a load that returns has loaded everything; a report of the monitor, which
  reads while others write, is true of what was left alone.
* **Executor.** A command may leave processes behind that hold its output, a container
  outlives its client, output may be no text. Correct means: `run` comes back, and what
  it leaves running it reports as such.

## 2. Modules

| Module | Role |
|---|---|
| `RenewalService` | Abstract: a service that is stopped, running or stopping, and its session |
| `VaultAutoRenewer` | The renewer as its threads execute it; implements `RenewalService` |
| `LeaseSchedule` | The time side of the same loop |
| `AutoRenewProofs` | Theorems of the renewer and of its schedule |
| `RegenerativeLoop`, `RegenerativeLoopProofs` | Observation, two-pass ticks, release; theorems |
| `HotReload` | Abstract: the policy in force and the reload that replaces it; implemented by the engine and by the gateway |
| `PolicyRules`, `PolicyRulesProofs` | Ordered rules, shared by the engine and the gateway; what the loop over them computes |
| `PolicyEngine`, `MCPolicyEngine`, `PolicyEngineProofs` | Evaluations and reloads of the permission engine; theorems |
| `CredentialProxy`, `CredentialProxyProofs` | Loading, registration and use of credentials; theorems, those of the monitor included |
| `SecretsMonitor`, `MCSecretsMonitor` | The check of the monitor, composed with the threads of `CredentialProxy` |
| `DlpGateway`, `MCDlpGateway`, `DlpGatewayProofs` | Scans and reloads of the DLP gateway; theorems |
| `ServiceIntentions`, `MCServiceIntentions` | Who may connect to whom in the mesh: reads, merges and writes of several processes |
| `MeshRegistration`, `MCMeshRegistration` | The registrations of the application in the Consul agent, and its upstreams |
| `ServiceMeshProofs` | Theorems of intentions and registrations, and of the edits of upstreams |
| `SandboxExecutor`, `SandboxExecutorProofs` | Commands and containers, and the calls that wait for them; theorems |

### VaultAutoRenewer

Each process (a caller or a `Thread` object) has a `pc` that names the point where
another may interfere: before an access to shared state or inside a call that blocks.

* `start()` is `StartSeesLoop` (early return) or `StartProceeds`, `StartClear`
  (`Event.clear`), `StartCreate`, `StartLaunch` (`Thread.start`, which reads `_thread`
  again). `stop()` is `StopSet`, `StopCheck`, `StopJoin`, `StopJoined`, `StopReport`. As
  in CPython, `Event.set()` releases those who already wait, even if the flag is
  cleared before they run: they go from `wait` to `woken`. `join` may return before the
  thread has ended.
* `renew_once()` is `Acquire`, the two methods (`RenewSelfGranted`, `RenewSelfFails`,
  then `JwtFound` / `JwtMissing` / `JwtUnreadable`, `LoginGranted` / `LoginRefused`,
  `Confirmed` / `NotConfirmed`) and `Release`. Vault may grant and the attempt fail
  nevertheless, because the answer or an audit record is lost; the history variable
  `granted` remembers what Vault did.
* `_loop()` is `LoopCheck`, `WaitTimesOut`, `WaitInterrupted`, the attempt, `Book` and
  `LoopExcept`.
* `mode`, computed from the loops alive and the flag, maps the state to `RenewalService`.

### LeaseSchedule

One loop, with real time in units of `1/MarginDen` second so that `lease * margin` is
exact. `leaseDuration` is what the renewer believes, `lease` what Vault granted: a
login grants a lease that the renewer does not look at.

### RegenerativeLoop

`tick()` is `TickBegins`, one `Detect` per key of `_history`, `Detected`, one `Heal` per
anomaly and `TickEnds`; `DetectRaises` is Python's "changed during iteration", and
`HealRaises` a callback or an audit record that raises after the action. The counter of
violations stops at the threshold it is compared with, which nothing can tell.

### PolicyRules, PolicyEngine, DlpGateway

A regular expression is the set of targets that it finds. `FirstMatch` is the loop over
the rules, `Says` the meaning of a list without a loop. Reloads read the files
(`ReadCommands`, `ReadDomains`, `ReadFails`; `ReadPolicy`), then assign field by field
(`SwapRules` ...), then record. Evaluations that do not decide at the first field they
read have a step for each further one. In `PolicyEngine` the history variables are `before` (the state when a
reload began), `inForce` (the policies that may be in force) and `seen` (those that were,
at some moment of an evaluation).

`HotReload` has one step for all assignments of a reload: it is the first of them
(`SwapRules`) that the mapping takes for it, so that the policy in force is `new` while the
fields are assigned, and `engine` or `gateway` otherwise. Reading is a stage before it, the
directory and the record are stages after it; the mapping of the engine looks at its one
reloader.

### CredentialProxy

A registration is `StoreSecret` and `StoreDomains`, then the records (`Recorded`,
`RecordFails`); `load_multiple` runs it after each `ReadSecret`, and `Fails` leaves what is
registered already. A use is `Inject` (the test of `_store`), `CheckDomains` and `Resolve`,
each of which reads one dictionary. `made` collects the registrations, `quiet` says
that none has overlapped a use.

### SecretsMonitor

It extends `CredentialProxy`: a step is one of the proxy's threads (`ProxyStep`) or one of
`check()`. `CheckBegins` and `HandlesListed` are the two ends of the iteration in
`list_handles`, which raises if an entry was added in between; `LooksUp` reads the domains
of one handle; `AsksVault` and `Reports` end the check. The history variable `calm` holds the
names that nobody has registered since the check began.

### MeshRegistration

`agent` is what the Consul agent has under each id: who wrote it, where it is checked, and
the upstreams of its sidecar. `Register` and `Apply` differ in the id and the upstreams
and share `Put`, whose disjuncts are the ways a request may go: not done, done, done
with the answer lost, done and then a record that raises (after `_registered_id` is set).
`Deregister` takes an id, or the remembered one, and clears that only after the record.
`Stop` is the end of a process at any moment, `Hang` and `Wake` one that does not answer
for a while. `Check` and `Reap` are the agent's: the HTTP check every ten seconds, and
`DeregisterCriticalServiceAfter`. The address of `/health` is that of the host, or the
loopback when `_local_ip` finds no network, where another application may answer
(`Answers`). `relies` is what the calls that returned said of each id. The list
comprehension of `add()` and `remove()` is `Without`, which picks the elements by their
position (`Others`, `Nth`): the prover knows nothing of `SelectSeq`.

### SandboxExecutor

Calls of `run()` overlap. A call waits (`Awaited`) until the child has ended and its
output is closed, which takes as long as any descendant that holds it; with Docker the
child is the client, and `rest` the container. `TimesOut` kills the child alone.
`Completes` also covers output that is no text: its `UnicodeDecodeError` is a `ValueError`.
What the command does (`Spawns`, `RestEnds`, `ChildEnds`) is the operating system's.

### ServiceIntentions

An entry gives each name an action, since Consul goes by the name and not by the place in
the list. `allow()` and `deny()` are `AllowOrDeny`, the GET (`GetAnswers`, `GetMisread`,
`RequestFails`) and the PUT (`PutDone`, `RequestFails`); `ensure_intentions` repeats the
two requests for each upstream; a replacement has only the PUT. A PUT may take effect and
the call raise nevertheless, because the answer is lost or the audit record fails.
`get()` looks for "404" in the text of an error, and the text of an HTTP error contains
the name of the destination: `Misread` are the destinations with "404" in their name.
The history variable `word` is the last thing said of a source that no stale copy has
undone, `stale` where Consul no longer has what a call read or wrote.

## 3. Runs

| Run | Instance | Shows |
|---|---|---|
| `renewer` | 1 caller that also renews by hand, 2 thread objects, OIDC, failing audit | `OneLoop`, `LockHeld`, `HonestSuccess`, `StartLeavesLoop`, `LoopEndsOnlyIfStopped`, `NoAttemptOnceStopped`, implementation of `RenewalService` (safety) |
| `renewer_live` | 1 caller, 2 thread objects, fairness | `KeepsTrying`, `Recovers`, implementation with liveness (a stopped loop ends) |
| `schedule` | leases 3, 4, 6, 8 s, margin 2/3, two failures in a row | `NoLapse`, `AgeBounded` |
| `loop` | 2 agents, window 3, other threads during a tick | `CleanNeverIsolated`, `IsolationGrounded`, `Isolates` |
| `engine` | 1 reloader, 1 evaluator, 2 policies and a missing file, 2 domain lists and a broken file | `SteadyDecision`, `ExplicitHolds`, `PolicyIsWhole`, `FailedReloadKeepsOld`, implementation of `HotReload` |
| `credentials` | 1 loader, 1 user, 1 monitor, 2 names, 2 secrets, 2 hosts, 2 lists | `Justified`, `WholePair`, `KeepsPair`, `LoadedAll`, `ReportHolds` |
| `intentions` | 2 processes, 2 upstreams, one of them with misread errors, 2 sources and `*` | `DefaultDeny`, `LastWordHolds`, `Ensured` |
| `mesh` | 2 processes, 3 ids, 2 addresses, 1 destination with 2 upstreams, fairness of the agent | `AgentAgrees`, `EndpointsServed`, `Discoverable`, `Forgotten` |
| `executor` | 1 command, 1 container, failing audit, fairness of `run` | `OnlyTimeoutsLeave`, `Returns` |
| `dlp` | 1 reloader, 2 scanners, 2 policies, a broken file, failing audit | `GatewayIsWhole`, `AlwaysBlocked`, implementation of `HotReload` |

`loop` also checks its type invariant; those of all modules are proved. `executor` allows the end of all activity, since each call is made once.

Two more runs end in a counterexample: there the code does other than its docs say.

| Run | What it shows |
|---|---|
| `renewer_lost_start` | `stop()` whose join times out, then `start()`: it returns early because the old thread is still alive, that thread ends, and nothing renews |
| `dlp_file_gone` | a reload that finds no DLP file allows what every version of the policy blocks |

### Bounds

Two thread objects are enough to have an old loop and a new one at the same time; dead
objects that nobody refers to are reused, so any number of starts and stops is explored.
Several callers are left to the proofs, which cover `LockHeld`, `HonestSuccess` and
`NoAttemptOnceStopped` for any number of them. Overlapping reloads of the engine, too, are
left to the proofs (`AgreedAlways`). Two agents are enough for one to be mistaken for the other; a
window of 3 slides, with a threshold of 2 and a history of 2 required. The counter of
violations needs no bound. The schedule bounds the failures in a row (`MaxFails`) and the
time of an attempt (`MaxCall`); with a margin of 2/3 a lease of 3 seconds leaves room for
exactly two calls, and one unit to spare. Two processes overlap in every way on two
destinations, and one list (`AllowLists`) is enough to replace entries. The lists of
credentials register one name twice, with different domains, and one without domains;
more users would not see each other, more loaders break `WholePair`. With `Broad = 1`, one
and two domains fall into different levels of risk. In the mesh, one process leaves both
ids to the defaults and may be checked at the loopback, where the other answers: two ids of
one process, one forgotten, and a dead registration that passes for a living one. One
destination with two upstreams is enough to serve the wrong one. A command and a container
are the two kinds of call; calls share nothing, so more of them would add nothing. The policies are chosen so that one target
matches two rules, that two policies disagree on rules, default and domains, and that
both agree on some block.

### Fairness

`Fairness` of the renewer is weak fairness of each running process: threads that can run
do, `Event.wait` has a timeout, and the requests to Vault have one too. No call has to be
made. `VaultAnswers` adds strong fairness of finding a JWT and of being granted a login;
it is an assumption on the environment and is used for `Recovers` alone, which is false
without it. The liveness run has no renewals by hand, since `threading.Lock` is not fair
and a caller that renews in a row could starve the loop. The regenerative loop has weak
fairness of `Tick` ("deve ser chamado periodicamente"), and `Isolates` speaks of runs in
which ticks complete again and again: nothing makes a tick complete that is disturbed
each time. In the mesh only the agent is fair: it goes on checking each registration and
dropping those that stay critical, while no process has to call anything, or to live. In the
executor only `run()` is: `subprocess.run` has a timeout, and a command need never end.

## 4. Proofs

All proofs hold for every value of the constants, under the named assumptions only.

* **Renewer, any number of callers.** `SharedInv` is inductive: results exist only
  between the end of an attempt and their use, a login precedes its confirmation, a
  sleeping loop and a raised flag exclude each other. It gives `LockHeld`, `HonestSuccess` and
  `NoAttemptOnceStopped`. `LockHeld` is not inductive without the types, and
  `NoAttemptOnceStopped` follows only from the conjunct on sleepers.
* **Renewer, one caller** (`OneCaller`: nothing in the code serialises two). `OneCallerInv`
  says that from the check of `start()` to the launch no loop is alive and the flag is
  down, and that a flag that woke a loop stays up until it has left. It gives `OneLoop`, that every
  step is a step of `RenewalService` or a stutter (`Implements`), `LoopEnds`, and that a
  start which takes effect leaves a loop (`StartLeaves`).
* **Schedule.** `AgeInv` says what each phase has used up, and gives the bound on the time
  without a grant. `SessionNeverLapses` assumes `MarginCovers`, that the wait and two calls
  fit in each lease; the lemma `MarginSuffices` reduces that to the minimum interval and the
  margin. The argument needs that a shorter lease never means a longer wait.
* **Regenerative loop.** `BlockedInv` traces each block in windows, counters and
  anomalies to its agent; `GroundInv` says that what an undisturbed tick has found is
  still suspicious. They give `CleanNeverIsolated` and `IsolationGrounded`.
* **Permission engine** (`OneReloader`: nothing in the code serialises two). `DirInv` says
  that a reload that reads or assigns has a directory; `WholeInv` says which fields are
  those of the policy read and which still those before, at each point of the reload; it
  gives `PolicyIsWhole`. `KeepInv` says that nothing is assigned before both files are
  read, and gives `FailedReloadKeepsOld` if records do not fail. `EvalInv` ties what an
  evaluation has read to the policies it has seen, and gives `SteadyDecision` and
  `ExplicitHolds` for any number of evaluations, rules and targets. `LoadedInv` says what of
  the new policy comes from files at each point; with `WholeInv` it gives that the engine
  implements `HotReload` (`Implements`).
* **Permission engine, any number of reloaders.** Overlapping reloads may leave a mixture,
  but each of its lists is one that a file held (`HeldInv`), and an evaluation that has
  passed a list has seen one that does not decide its target (`PassedInv`). Hence
  `AgreedAlways`: what every command file says by a rule is decided, and what every domain
  list blocks is blocked. It assumes that no file is missing (`NoFileMissing`) and that the
  engine was loaded from files: an engine without rules, or one that meets a missing file,
  may mix no rules with a default that allows.
* **Rules.** `FirstMatchSays` and `SaysOneThing`: the loop computes the meaning of the list,
  which is unique. The least matching index exists by well-foundedness of the naturals.
* **DLP gateway.** Types, wholeness, that it implements `HotReload` (`Implements`), and
  `BlockedStaysBlocked`, which assumes that the policy file is never missing;
  `dlp_file_gone` shows why it must.
* **Intentions.** `Grounded` says what a copy holds between its read and its write: the
  default deny, the word of its call, and on the other sources what Consul has, unless it
  is stale. It gives `DefaultDeny` and `LastWordHolds`. `Progress` says how far
  `ensure_intentions` is, and gives `Ensured` for any list of upstreams.
* **Upstreams.** `RemovedLeavesOthers` and `AddedServes` say what `remove()` and `add()` do to
  any list: the destination is gone, or served by the new upstream alone, and every other
  one is served as before. The lemmas count the positions that are kept: an element of a
  finite set of naturals is the one of its rank (`Nth`).
* **Registrations** (`NoSharedIds`). `Remembered` says that a process knows an id as its last
  one only if the id is its own; `Kept` says, of each id a call has spoken of, that the
  registration there is the process's, checked where it answers, so that the agent does not
  drop it, and has the upstreams applied last, or that nothing is there. They give
  `AgentAgrees` and `EndpointsServed` for any number of processes, ids and upstreams. The
  assumption is needed: Consul lets any client overwrite or remove any id. By default an id
  is made of the host name, or of the address, so two applications share one only on one
  host, or if `CONSUL_SERVICE_ID` or `service_id` say so.
* **Executor.** `LeftInv` says that a call that no longer waits has no child running, and that
  what its descendants or container still do has its reason in the result. It gives
  `OnlyTimeoutsLeave` for any number of calls.
* **Credentials.** `OriginInv` traces domains in force to a registration noted before they
  are stored, with any number of loaders; it gives `Justified`. With one loader (`OneLoader`),
  `PairInv` adds that no quiet use overlaps the two assignments and that what it was
  authorised for is covered by what it will resolve; it gives `WholePair` and `KeepsPair`.
  `LoadInv` says which items of a load are in force at each point of it, and gives
  `LoadedAll`.
* **Monitor, any number of loaders.** `MonInv` says of each calm name that it is listed if it
  has a secret, and is still to be looked up or has the risk of its domains. It gives
  `ReportHolds`, and needs that a step which touches the entries of a name disturbs it
  (`CalmStep`) and that the domains are finitely many.

Every invariant and every safety property of a step that the passing runs check is proved.
Only model-checked is liveness, which needs fairness and is out of reach of the prover:
`KeepsTrying`, `Recovers`, the liveness of `RenewalService` (`ImplementsService`), `Isolates`,
`Discoverable`, `Forgotten` and `Returns`.

## 5. Known differences that have no run

* `stop()` records "Auto-renew parado" even when the join timed out with the loop alive.
* Two overlapping `start()` calls can leave two loops, one of which no `stop()` reaches; hence `OneCaller`.
* An audit record that raises in the except clause of `_loop` ends the thread; it is the
  exception in `LoopEndsOnlyIfStopped` and the `Crash` of `RenewalService`.
* The backoff set after an exception is overwritten by the next turn of the loop before
  anything waits for it (`Raises`, then `Schedule`); `AgeBounded` holds all the same.
* An error of Consul on a destination with "404" in its name passes for a missing entry
  (`get()` promises "None se não existir"), and `allow()` then writes one without the other
  sources (`GetMisread`); it is an exception in `LastWordHolds`.
* `allow("*", d)` puts "*" in and takes it out again: it denies, as `DefaultDeny` wants.
* After a login the wait is still computed from the lease of an earlier session: neither
  `_try_oidc_reauth` nor `reauthenticate_oidc` looks at the new one. It is an exception in `NoLapse`.
* `release_agent` keeps the window, so the next tick may isolate a released agent again
  with nothing new observed of it; `IsolationGrounded` counts that as suspicion.
* `_violation_count` never ages: blocks that have left the window still isolate.
* A `reload()` of the permission engine whose success cannot be recorded returns `False`
  with the new policy in force; `FailedReloadKeepsOld` is checked with `AuditMayFail = FALSE`.
* A credential registered again between `inject()` and `resolve()` is resolved to a secret
  that may not be for the host authorised; two overlapping registrations of one name may
  leave the secret of one with the domains of the other for good.
* A missing command file is loaded as an empty policy by a `reload()` that succeeds.
* An evaluation that overlaps a reload may combine the rules of one policy with the
  default of another; `ExplicitHolds` says what survives that. Two overlapping reloads may
  leave such a mixture for good, so `PolicyIsWhole` is checked with one reloader;
  `AgreedAlways` says what survives that.
* `register_ventura_service` after `apply` wipes the upstreams of the sidecar if both have the
  same id, and otherwise leaves two registrations of which one is remembered.
* A `deregister()` whose audit record raises leaves `_registered_id` set to a service that is gone.
* A service that hangs for five minutes is dropped and never registered again, although the
  client still has its id; `AgentAgrees` promises nothing of it.
* `apply(config)` does not keep the configuration it is given, so `get_local_endpoint` goes on
  answering from the one loaded.
* Output that is no text makes `run()` report `invalid_command` (`execution_error` with
  Docker) for a command that ran; a record that raises loses the result.
* A container whose client is killed by the timeout is not removed.
* A check of the monitor raises if a credential is added while it lists them.

## 6. Not modelled

* **Audit logger**: it appends one line per event to a file and keeps nothing. That it may
  raise, after what it records has been done, is in every model that calls it.
* **Input sanitizer**: a stateless function from a text to a verdict. Its content is its
  regular expressions; with sets of matches in their place nothing would be left but the
  comparison of a count with a threshold.
* **Health**: says whether files are there and how long the process has run.
* **Vault login** in the constructors of `VaultSecretLoader`: it happens once, before
  anything is shared; a login during the life of the program is in `VaultAutoRenewer`.
* **`_reload_policies`** of the regenerative loop: it heals `POLICY_LOAD_FAILURE`, which
  `_detect` never reports.
* **`IntentionManager.apply_json_file`** with entries of another shape than that of
  `consul/intentions/ventura-seg.json`, `list_all`, `set_upstream` (records only) and
  `agent_self`.
* **Examples, benchmarks, scripts, deployment**: none of the library's logic. The
  LangChain integration imports modules that the repository does not have.
