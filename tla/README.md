# Verification of bombay-behavior

TLA+ models of the actors, supervisors and pools in this repository, the TLC
configurations that check them on small instances, and TLAPS proofs for every
instance of the parts where they matter most. Paths below are relative to
`src/crates/actors/src/` unless they start with `src/`.

## The system

A *behavior* is a pure fold: one event in, the next state and a product of
actions out (sends, births, requests to the interpreter). The Bombay runtime,
which is not in this repository, owns mailboxes, creates children, interprets
requests and delivers their results as later events. All concurrency a behavior
meets is therefore in the *order of its events*. One TLA+ action is one fold of
one event; what the runtime may do between two folds is modelled from the
contract the code relies on and is marked external.

| Part | What it does | What makes it hard |
|---|---|---|
| StableProxy (`templates/proxy`) | one public identity in front of a succession of workers: start, replace, shut down, serve | answers and stops overtake one another; shutdown interrupts every phase of a start and of a replacement |
| FifoPool, KeyedPool (`templates/pool`) | hand jobs to workers from one queue, or to the role a key is bound to; recover workers from one shared source; drain | a job in the hands of a worker that dies; an exit that overtakes the settlement it belongs to; one source for several recoveries |
| DynamicSupervisor (`templates/supervisor/directory`) | a directory of keyed services, each behind a proxy: start, replace, stop, cancel, shut down | changes of one entry overlapping with its exits and with the shutdown of the whole |
| FixedSupervisor (`templates/supervisor/roster`) | a fixed list of roles, restarted one by one, all, or the rest, within a budget | several roles failing in one recovery; members that wait for one another |
| Time, routing, discovery, operations, workflow, lifecycle, stash, machine, cache | about thirty small actors | late and repeated evidence, reordered input, full tables, ends of numeric domains |
| Interpretation (`src/crates/behavior`) | runs the actions a turn returned, item by item, and offers their settlements back | the host may drop the traversal at every await; one failed item among several |

The supervisors own their workers through proxies and rely on the proxy's
contract. The pools own their workers directly. The pools and the fixed
supervisor use the restart budget, and all of them the shutdown deadline.
`PROJECT.json` lists every part with its status and the hazards by line.

## Modules

| Module | Models | Correspondence |
|---|---|---|
| `StableProxy` | `templates/proxy` | `proxy.at` is the `ProxyState` alternative and the other fields what it owns; each owner control, `Service` and each result handler is one action. Identities issued once per attempt are identified with the creation id. `requests`, `facts`, `host` and the `Settle...` actions are the external runtime |
| `ProxyContract` | what an owner may rely on | abstract: submissions, reports, served workers, a phase. The mapping is at the end of `StableProxy`: `Phase` groups the alternatives, and issued is the creation sequence |
| `PoolMember` | `pool/worker.rs`, `pool/assignment.rs` | one record per role: its `MemberState` and `WorkerPhase`, or its `RetirementStatus` in a drain, with the assignment, the shutdown join and the startup it holds. Also the readings and updates of a pool state that both folds share |
| `FifoPool`, `KeyedPool` | `pool/queue`, `pool/router` | each event handler is an operator from the pool and an event to the pool; `Next` delivers events |
| `PoolRuntime` | external: the runtime and the workers of a pool | requests owed, workers running, completions on their way, and a budget of faults nobody asked for |
| `RestartBudget`, `Drain` | `restart.rs`, `drain.rs` | the sliding window and the four release schedules with their overflow; the deadline of a drain |
| `DynamicSupervisor` | `supervisor/directory` | an entry's state is `EntryState`; each command, settlement, report and exit is an operator |
| `FixedSupervisor` | `supervisor/roster` | owners, recovery, replacement and drain members keep the code's alternatives |
| `ProxyFleet` | external: the proxies a supervisor created | each reports as `ProxyContract` allows, may suppress the report of a start that a shutdown interrupts, and may die unasked; every request may be accepted, rejected or left unserved (corrupt evidence, or not attempted behind it), and a creation batch may fail as a whole |
| `Timers` | external: a named timer | queued entries and notifications on their way; a notification cannot be retracted and may be repeated |
| `Lease`, `TimedWrappers` | `time/` | `lease` is `LeaseState` or `TimerLease`; `kind` selects the wrapper |
| `CircuitBreaker`, `Sequencer`, `Deduplicator`, `OrderGate`, `WorkQueue`, `Buffer`, `PriorityQueue`, `Router`, `Requests`, `Resources` | `routing/` (with `lifecycle/task.rs` in `Requests`, `persistence/cache.rs` in `Resources`) | any input at any time; payloads dropped |
| `Presence`, `Discovery`, `Operations`, `Workflow`, `Barrier` | `discovery/`, `operations/`, `workflow/` | one action per command |
| `ShutdownCoordinator`, `Termination` | `lifecycle/` | reports of the runtime travel as messages and overtake each other |
| `Machine`, `Stash` | the phase machine and the stash wrappers | a turn runs on a staged copy; the release of a stash is one recursive drain |
| `Interpretation`, `ActionItems`, `Children` | interpretation of a turn's actions | lanes and rows of the action product; the replies each item's types allow; the place a child selects in a closed sum |

`MCActors` instantiates the small actors and `MCFifoPool` the FIFO pool. The others
are run themselves: the proxy has one constant, the dynamic supervisor starts in any
of its three configurations, and the limit and the configurations with which the keyed
pool and the fixed supervisor are checked are at the end of their modules. The
theorems are in the modules whose names end in `Proofs` and in `FifoPoolGuard`. Of
the FIFO pool's lemmas, `FifoPoolFacts` has those that all its proofs share,
`FifoPoolJobs` those about jobs, `FifoPoolCustody` and `FifoPoolEvents` those about
workers.

Variables and fields marked *history*, and the `log` of a small actor, record
what happened for the properties and decide nothing but how much is explored.
Definitions marked *Slip* or *Mutant* are plausible mistakes in the code and are
used by no specification: `PROJECT.json` pairs one with each property, and TLC
finds the property violated when it takes the place of the real definition.

Left out of every model: payload contents, reply routes, wording, diagnostics
beyond the fact they return, and answers to queries. A reply without a change of
state is a stuttering step. Where a fold returns an error the model leaves the
state as it was and lets the actor go on.

## Runs

| Run | Instance | States | What it shows |
|---|---|---|---|
| `stable_proxy` | 3 attempts | 29 315 | one incarnation at a time; exact readiness; one disposition per submission and each answer consumed by the state that asked; one shutdown request per worker; closing is final; every step is a step of `ProxyContract`; every start and replacement comes to a result; every shutdown comes to rest, at `Stopped` unless one of the two losses under Findings happened |
| `fifo_pool` | 2 roles, 2 jobs, backlog 1, startup limit 1, at most 2 faults | 1 259 246 | each accepted job has one place and one outcome; the worker source and every worker stay in custody; jobs leave in admission order; neither an operating nor a draining pool waits for a fact that cannot come |
| `keyed_pool` | 2 roles, 2 keys, 2 jobs, 2 generations, 1 fault | 598 498 | an accepted job stays with its role until its one outcome; bindings name roles that serve; the source and every worker stay in custody; a key's generation fences rebalance and unbind |
| `dynamic_supervisor` | 2 keys, 3 operations, 2 generations, 2 faults, 3 configurations | 508 471 | each change ends in one fact; every proxy is owned until it is gone and startup slots are exact; an entry knows what became of its proxy, in whichever order its facts come; when nothing is outstanding nothing is half done, except behind a creation batch that failed as a whole or a refused shutdown |
| `fixed_supervisor` | 3 roles, 3 strategies, 2 reactions, 2 tickets, 2 faults, 6 configurations | 941 532 | what is online runs; the one worker source is neither lost nor lent twice and starts stay within the limit; the lifecycle facts of a role alternate; when nothing is outstanding nothing is half done, except where an answer was given back or a stop was only diagnosed |
| `actors` | see below | 347 373 | see below |
| `proxy_predecessor_result`, `proxy_early_stop`, `keyed_stuck`, `dynamic_drain`, `dynamic_proxy_death`, `fixed_initial` | | | violations, see Findings |

The small actors share nothing, so `actors` chooses one at the start and lets
only that one move: the states add up instead of multiplying. A property of the
run is a conjunction over the actors it concerns:

- timer evidence: `TokensFence`, `EvidenceIsFresh`, `SilenceIsReal`,
  `TimeLeadsOn` (lease, timed wrappers, breaker), all with notifications that
  come late and more than once;
- order: `FirstSubmittedFirst`, `InOrderOnce`, `LeavesInOrder`, `PhasesInOrder`
  (work queue, sequencer, deduplicator, order gate, priority queue, ordered
  shutdown, workflow, barrier and latch);
- conservation: `HeldInputsKept`, `NewestFactCounts`, `OneEnd`, `TablesAreExact`
  (machine, stash, buffer, router, presence, operations, correlator,
  acknowledgements, task, breaker, termination, rate limiter, cache, naming);
- interpretation: `InterpretedInOrder`, `BlockedOnlyByFailure`,
  `SettlementsReachSource` (actions are attempted once and in order, an item is
  blocked only behind a failure, and every settlement is offered to its source
  even when the traversal was dropped and taken up again). The exception is a
  traversal dropped while it awaits the birth of a child: `settle_child` has then
  taken the child out of its row, the child is lost, and the traversal returns
  without a verdict however often it is entered. The properties claim nothing of
  such a traversal but the order of what it attempted.

**Bounds.** Three attempts give the proxy a predecessor, a successor and one
more replacement after it, and end at an exhausted `CreationSequence`; a proxy
never owns more than two attempts. Two roles are enough for a
pool to have one worker that fails while another waits for the shared source or
holds the only startup slot; two jobs, with a backlog of one, make a job wait
and be refused. Three roles give `RestForOne` a role before and one after the
failed one. The configurations of the supervisors are chosen so that each policy
value occurs, and each strategy with the reaction and the release it interacts
with: the directory keeps or retires an entry whose worker stopped, without and
with a deadline; the roster has each restart policy, strategy and release at least once.
`MaxFaults` and `faults` bound the failures nobody asked for; with
two, the second can hit any step of the recovery from the first. `keyed_pool` has
one, because keys and generations multiply its states; the worker it recovers is
the same `PoolMember` that `fifo_pool` checks with two. What a worker does because
it was asked is not bounded. Every numeric domain of the code
(`u64` generations, attempts, sequences, tokens) is a small domain with the same
end, so its exhaustion is reached; `MaxDuration` and `FactorBits` are the widths
of durations and of the backoff factor. Queue capacities are smaller than the
number of values, so that queues are full, drained and full again. Symmetry is
used for the keys of `dynamic_supervisor` only, in a run without liveness.
Deadlock is allowed because stopping is legal: a stopped actor, and a pool or
supervisor at rest whose inputs are used up. That nobody *waits* at rest is what
`NobodyWaits` and `SettlesWhenQuiet` say.

**Fairness.** The proxy's liveness assumes that its mailbox is drained, that
the runtime answers the requests it was given, and that a worker asked to shut
down stops. The runtime is outside this repository, so these are assumptions
about it. The code depends on each: a fold waits in its alternative for exactly
these events and has no timeout of its own. Fairness is weak and is stated for
the three kinds of step, not for each fact. Nothing is assumed of owners and
callers. The timed actors assume that the clock reaches queued entries and that
notifications are delivered, and nothing of holders or callers. For the pools
and supervisors "never waits for what cannot come" is checked as an invariant of
the states in which the runtime owes nothing: there, whoever still waits waits
for ever. It needs no fairness, and it is weaker than liveness in one respect:
it says nothing of a wait during which other inputs keep arriving.

## Proofs

No theorem bounds a constant. Assumptions are the typing of constants, named
`MaxAttemptsAssumption`, `TimersAssumption` or `PoolAssumption`, and the
hypotheses `BreakerConfigured`, `SequencerConfigured` and `PresenceConfigured`.

**The stable proxy** (`StableProxyProofs`), for every `MaxAttempts \in Nat`:
`TypeCorrect` (`[]TypeOK`), `SingleIncarnation` (`[]OneIncarnation`) and
`ShutdownIsFinal` (`ClosingIsFinal`). `OneIncarnation` speaks of live workers and
outstanding creations and is not inductive: a step that creates a worker needs
to know that none is alive, which follows only from what the current alternative
says about its predecessor. The inductive invariant `IInv` is `TypeInv` (types,
and that an alternative which names a worker names an issued attempt) with:

- `OnlyWorkerLives`: only the worker of an alternative that hosts one is alive;
- `PartedAreDead`: a pending stop, rejected creation or stopped initialization
  is about a worker that is neither alive nor being created;
- `Freshness`: nothing is asked or said of an attempt that was not issued or is
  only reserved;
- `Births`: a worker whose creation is outstanding is unborn, and one that was
  reported created or is being initialized is not.

There is one lemma per handler. Handlers that create no worker share
`QuietFold`; creations go through `CreationFold`, which asks that no worker
lives, and runtime moves through `RuntimeFold`.

**The proxy keeps its contract** (end of `StableProxyProofs`): `ContractKept`,
`Spec => KeepsContract`, the refinement of `ProxyContract` under the mapping of
`StableProxy`'s end. Each step of the proxy is shown to have one of seven
shapes (`Rests`, `Serves`, `Submits`, `Departs`, `Settles`, `Closes`, `Ends`),
handler by handler; then each shape is shown to be a step of the contract. The
second half needs the invariant `Ledger`: which attempts have been reported, and
how, in each group of alternatives.

**The exchange with a worker** (second part of `StableProxyProofs`, theorems at
its end): `AskedOnce` (`ShutdownAskedOnce`), `ReadinessIsExact`
(`[]ReadyIsExact`) and `EveryOperationSettles` (`[]OperationsSettled`). None
follows from `IInv` and `Ledger`: they need to know what is still on its way
about each worker. `Exchange` says three things.

- `Working`: requests and answers about the newest worker alternate. `Due` names
  the work whose answer the alternative waits for, and its request or its one
  answer is all that is outstanding, except that a plan may run while `Started`
  is still on its way.
- `Parted`: a shutdown request or its result is outstanding only for a worker
  whose result has a place in the alternative (`Leaving`), and only once.
- A worker of an alternative that did not ask it to shut down (`Unasked`) is not
  in `asked`, and `Form`, which fields such an alternative may have.

A fold goes on with the work that is due, concludes it and may ask for the next,
asks its worker to shut down, or gives up a place whose result came; every
handler is one of these (`Exchanges`), and each keeps `Exchange`. `Accounted`
adds that the issued attempts without a report are among those the alternative
still owes one (`Owed`). Together they are `AllInv`: an answer that is expected
is never diagnosed by an open proxy (`ConsumedStep`), and in `Stopped` nothing is
due and nobody is leaving, so that nothing is outstanding.

**The jobs of the FIFO pool** (`FifoPoolFacts`, `FifoPoolJobs`, and the steps and
theorems in `FifoPoolProofs`): `JobsAreAccounted` (`[]JobsAccounted`) and
`AdmissionIsOrdered` (`AdmissionOrder`), for any roster, number of jobs, capacity,
limits and supply of identifiers, and any policies. A fold is an operator from pool
states to pool states built from smaller ones, and in the middle of a fold the
properties do not hold: a job has ended and its worker is still recorded as busy, or
a worker is idle beside a queue that is about to be filled. The invariant is
therefore stated with what is still open:

- `Sound(p0, p, s, x)`: the state `p` is well typed (`PoolStates`); of the first
  `s` jobs each is queued, with one busy worker, or ended, where role `x`, whose
  record is about to be replaced, does not count (`Conserved`); the limits hold
  (`Limited`), the backlog's in the form that the *open* jobs are at most its
  capacity and one per role, since a job given out may come back to the queue; and
  a job that `p0`, the state before the fold, had not given to a role precedes
  everything queued (`Ordered`).
- `Served(p)`: a queued job has no idle worker and some role that may serve it.
  It is needed for admission, which gives a job to an idle worker past the queue:
  that keeps the order only because the queue is then empty.

`Close` and `Update` say which changes keep `Sound`, and every building block of a
fold is one of them or adds a job (`Admitted`), gives one out (`Dispatched`),
returns one (`Requeued`) or charges the budget (`Paid`). Each handler then takes
`Good` (`Sound` with no role open, and `Served`) to `Good`, or, in a drain, where
nothing is open any more, `Dry` to `Dry`. `Inductive` adds that what the runtime
owes names workers of the roster. Requeueing is the delicate step: the job that
comes back may be older than a job given out earlier in the *same* fold, so it
needs that none was. What the loop `FillFifo` reaches after any number of rounds
and what a sequence of charges adds up to is proved by induction on sets of
numbers with a least element (`UpTo`, `Iterates`), as the library's induction
rules cannot be instantiated. The facts about finite sets that the lemmas use are
collected in the hypothesis `Counting`, which `FifoPoolProofs` (and `FifoPoolGuard`,
for the custody below) discharges from the library (`Counts`) before it concludes: the
lemmas then do not carry the library's theorems in their context, which is what made
them slow to check. For the same reason the proofs about jobs and those about workers
extend `FifoPoolFacts` separately.

**The workers of the FIFO pool** (`FifoPoolCustody`, `FifoPoolEvents`, and the
theorem in `FifoPoolGuard`): `CustodyIsKept` (`[]PoolCustody`), for any roster with
at least one role, which is what `OrderedRoles` guarantees in the code
(`NRoles # 0` in `PoolAssumption`). `PoolCustody` compares what the pool records
with what the runtime has: who runs, and which requests are outstanding. It is not
inductive, since a fold that lets a role go is right only if nothing about that
role's worker is still to come. `Custody(p, O, U, G)` says it of a pool state `p` in
the course of a fold, when the runtime owes `O`, the workers `U` run and `G` are gone:

- `Followed`: a running worker is the current one of its role, in a state that will
  still take its exit;
- `Awaited`: a creation that is outstanding is the only one of its worker, and its
  role has a worker that was not born yet; of such a worker an exit is recorded only
  when it is gone, which is what an exit that overtakes its creation leaves;
- `Lent`: the source is away exactly when one role has it, by the one request that
  this role's phase names;
- `Formed`: requests address workers in the form the handlers take apart.

Between two folds `Guarded` adds that an operating pool has no role that waits for
an idle source (`Claimed`), that a pool which stopped waits for nobody (`Over`), and
that exits and notices the runtime owes concern running and gone workers
(`Extern`). `FifoPoolCustody` shows which changes of one role keep `Custody`
(`Keeps`, `Steady`) and takes them through recovery, the source and retirement;
`FifoPoolEvents` takes each event handler of an operating and of a draining pool
from one such state to the next; `FifoPoolGuard` does the actions of the runtime,
one lemma each (`...Guarded`), and concludes.

**Lease** (this and the next three in `ActorProofs`): `Fencing` (`[]TokensFence`),
`ExpiryIsDue` and `HoldEndsOnce`, for any holders and any last generation, with
timer notifications repeated at will. `LeaseInv` adds to the types that the
current generation is the newest ever granted (`Newest`), that a generation was
granted once (`OneGrantEach`), and that timer evidence and the histories speak of
granted generations only (`Evidence`).

**Circuit breaker**: `OneFlight` (`[]SingleFlight`),
`ThresholdOpens` (`[]OpensAtThreshold`) and `ProbeWaits`
(`[]WholeResetInterval`), for any threshold and any number of attempts, with
timer notifications repeated at will. The last is the interesting one. The
openings of one outage, from a closed circuit to the next, have generations 0, 1,
2, ..., but every outage begins at 0 again (`routing/circuit_breaker.rs`:320). A
probe may therefore be offered early to a notification left over from an earlier
outage, and the theorem says that this is the only way: the generation of such an
opening is among the notifications on their way when the outage began
(`opening.stale`). `Interval` says why. The queue holds no timer but that of the
current opening, and a notification on its way is stale, or older than the opening,
or comes from an interval that has elapsed.

**Sequencer**: `DeliversInOrder` (`[]InOrderOnce`), for any
first and last sequence. The code's loop is a `CHOOSE` of the first gap in the
model; that there is one is the least-number principle, taken from the
well-foundedness of `<`.

**Presence**: `ExpiresByOwnTimer` (`[]PresenceIsExact`), for
any participants and any sharing of timer ids. Timers are never cancelled, and
participants may share an id, so a timer is recognised by (id, generation) only.
`PresenceInv` says that the generation of a record bounds those of all timers its
owner asked for (`Bounded`) and that two outstanding timers never have the same
name (`Named`); a new generation is past those of all participants with the id.

Only model-checked: liveness (`StartsSettle`, `ShutdownSettles`, `TimeLeadsOn`),
since the prover has no reasoning for fairness; the properties of `Machine`,
`Stash` and what uses recursive operators; of the FIFO pool `NobodyWaits`, which
needs for every phase of every role that the request it waits for is outstanding,
where `Guarded` says so of creations and of the source only; the keyed pool and the
supervisors; the remaining small actors.

## Findings

Each is a run in which TLC refutes a sentence of the documentation.

1. `proxy_predecessor_result`. When the owner closes a proxy during a
   replacement, a predecessor shutdown result that arrives before the successor
   has departed is returned as a diagnostic. The proxy later waits for that same
   result and never stops. `src/docs/stable-proxy.md` says both remain owned
   regardless of arrival order.
2. `proxy_early_stop`. A stop that overtakes its creation is kept while the
   proxy is open but diagnosed while it is closing. `src/docs/actor-laws/proxy.md`
   says the draining state keeps it too.
3. `keyed_stuck`. A keyed role whose worker fails to initialize or start, or
   stops before it is ready, stays where it is: its jobs are never answered and
   its startup slot is never freed. `docs/actor-laws/keyed-pool.md` says such a
   failure drains before recovery or retirement. The FIFO pool handles the same
   events (`NobodyWaits`).
4. `dynamic_drain`. A stop whose delivery is rejected after the supervisor began
   to shut down puts the entry back into service; nothing asks its proxy to stop
   again. `docs/actor-laws/dynamic-supervisor.md` says late settlements cannot
   restore mutation.
5. `dynamic_proxy_death`. The death of a proxy that nobody asked to stop is only
   diagnosed: the entry keeps its phase, and its capacity.
   `docs/actor-laws/dynamic-supervisor.md` says that it retires the entry in any
   phase and settles the active operation.
6. `fixed_initial`. A role still in its first start when a peer begins a
   one-for-all recovery has its settlement and outcome turned away.
   `docs/actor-laws/fixed-supervisor.md` says it continues its initial phase.

## Where the code and its documents part, without a run

The models follow the code in each of these.

- Suppressed reports. A proxy that is shut down while it starts a worker does
  not report that start, and the retirement of a directory entry and the drain
  of a fixed role wait for the report. The documents name this an open boundary
  (`dynamic-supervisor.md`:968, `fixed-supervisor.md`:1237); the model excuses
  exactly the entries that wait for a suppressed report.
- Keyed pool: a submission while the pool retires is given no reply, though the
  documents list `ShuttingDown` among the rejections.
- Restart budget: a stop held back in a join keeps its time, so the budget may
  refuse it as `ClockRegressed` when a later stop was charged first.
- Directory: the stop of a worker during a queued or unsettled replacement is only
  diagnosed; a `Stop` refused because operations are exhausted forgets the latest
  operation, so that a repeated `Cancel` of it is answered as committed; a
  rejected creation of a stopping entry ends it without `StopFinished`; and a
  creation settlement that is rejected as a whole or corrupt is given back
  (`directory/mod.rs`:1078-1085), and its entry waits for ever. `SettlesWhenQuiet`
  excuses that entry and `EntriesMirrorProxies` names it.
- Roster: the stop of a peer while a batch is prepared, and of a role while the
  worker source is busy, is refused, and the role stays online without a worker;
  a refused birth or input blocks the members after it without a diagnostic;
  under `OneForAll` and `RestForOne` one retired role refuses every later
  recovery it takes part in; a corrupt or unattempted settlement of a replacement
  (`recovery/mod.rs`:1888-1899) or of a restart timer (2270-2278) is given back,
  and the recovery stays where it is, with its startup slot; the creation batch of
  an operating roster that fails as a whole is the actor's error and leaves every
  role waiting for its proxy; the death of a proxy nobody asked to stop is only
  diagnosed (`proxy/stop.rs`:275-323), where `fixed-supervisor.md`:885-888 and
  1171-1173 let it enter the configured reaction. `SettlesWhenQuiet` and the limit
  in `StartsAccounted` excuse a role only when such an answer was in fact given
  back, or its proxy in fact died.
- Circuit breaker: the comment on `CircuitBreaker` says that "stale timer evidence
  is consumed as correlation evidence without changing state"
  (`routing/circuit_breaker.rs`:154-155); a notification of an earlier outage whose
  generation is that of the current opening makes the probe available.
- Pools: a corrupt or unattempted assignment is only diagnosed, and its job stays
  with a worker that may never have had it.
- Shutdown coordinator: a child that stops by itself before its phase is refused,
  and its phase then waits for the rejection of a shutdown request.

## Not modelled

- The Bombay runtime itself, beyond the answers it may give.
- Conversions between message types, reply routes, the type-level algebra of
  products, paths and injections, and the checks the compiler makes: they hold
  no state.
- Queries (status, capability, snapshots): they change nothing.
- A corrupt worker creation batch of the proxy, which is only diagnosed.
- Phase functions of the machine that decide by the user state as well as by phase
  and message: `Machine` draws them from tables over phase and kind. With such a
  function a deferred message may be ripe after a turn that changed the user state
  alone, and stays deferred until the phase changes.
- `behavior-macros` beyond the order in which a derived product interprets and
  settles its fields; `behavior-testkit` and the mutation gate, which are tools.

## Running

From this directory: `tlc -config MCFifoPool.cfg MCFifoPool` for one run (the
pairs of module and configuration are in `PROJECT.json`; the longest takes a few
minutes on two cores), `tlapm StableProxyProofs.tla` and the same for the other
modules with theorems for the proofs.
