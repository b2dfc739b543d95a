# A TLA+ development for agenity (chepherd)

agenity runs coding agents as PTY children inside containers, gives each an
@-address, lets them talk A2A (JSON-RPC, server-sent events) to one another,
watches them with a scrum master, persists what it must in SQLite or Postgres,
and connects daemons through a hub, WebRTC and a relay. This directory holds
TLA+ modules that model its concurrent core, TLC configurations that check them
on small instances, and TLAPS proofs of the safety properties that matter most.
`PROJECT.json` lists every component, run, mutant, finding, hazard and theorem,
and maps every definition to the source lines it stands for.

    tlc -workers 2 -config SessionStore.cfg MC_SessionStore
    tlapm SessionStore_proofs.tla

## Inventory

| Component | State | Operations | Meets | Hard because |
|---|---|---|---|---|
| Session registry, `internal/runtime/runtime.go` | `sessions`, `info`, `byName`, one mutex | Spawn, Stop, Restart, Handoff, Rename, markExited | PTY sessions, container runtime, store | every operation gives the mutex up in the middle: a container start or a PTY close takes seconds |
| Session rows, `internal/persistence/sqlite/sessions.go` | one JSON state per id | Get, Save, Delete, List, ResumableSessions | Spawn, Stop, orphan reaper, scrum master, dashboard, boot | five writers, no transaction, crashes |
| Scrum master, `internal/scrummaster/shepherd.go` | row time stamps | tickOnce | session rows | read-modify-write of rows others delete |
| Dashboard, `internal/runtimehttp/server.go` | none; the browser keeps a list | list, delete, cleanup | registry, rows | merges two reads, acts later |
| Stream broker, `internal/a2a/sse.go`, `streaming.go` | `byStreamID`, `byTaskID`, a channel per stream | Subscribe, Publish, cleanup, three readers | task rows, cancel, deliverer | a map referenced after the unlock; closed channels; full queues |
| PTY session, `internal/ptyhost/session/session.go` | ring, subscriber set, a queue per subscriber, closed | readLoop, waitLoop, Subscribe, Unsubscribe, Close | child process, every reader of its output | exit against drain against subscribe against close |
| Ring buffer, `buffer.go` | bytes, position, full | Write, Snapshot, Len | PTY session | wrap-around |
| Runner task, `cmd/runner/a2a_endpoint.go`, `internal/runtime/a2a_publisher.go` | task row, send mark, response buffer | Deliver, pump, completer, tasks/cancel | PTY session, broker, task rows | two goroutines and two channels per task, a silence timer, a racing cancel |
| Hub tunnels, `cmd/chepherd-hub/tunnel.go`, `cmd/runner/relay_tunnel.go` | one tunnel per org, pending requests per tunnel; the runner's reconnect loop | register with eviction, dispatch, close, closeAll, roundTrip, Dial | inbound HTTP, runners | a websocket has two ends that notice its death at different times; late answers; a close and a dispatch of the same waiter |
| Hub signalling, `cmd/chepherd-hub/signaling.go` | a mailbox of frames per org, read destructively | Enqueue, DrainPending, expiry | HubSignaler, HubAnswerer | two readers of one mailbox |
| Peer connections, `internal/webrtcrtc`, `internal/federation` | `PCStore` by peer, one handler per data channel | GetOrDial, ExchangeOffer, HubDeliverer.Deliver, HubAnswerer | hub signalling, the peer's daemon | overlapping dials, links that fail silently, retries of what may have been done |
| Team events, `team_events.go`, `events.go` | bounded channel, debounce timers, teams and memberships, briefing and canon files | Spawn, Assign, JoinTeam, LeaveTeam, DeleteTeam, fan out, regenerate | registry | drops, timers that fire late, files written after the unlock |
| Daemon deliverer, re-knock | task row, `fetched` set | Deliver, reKnockWatch | registry, broker | retries |
| PTY session manager, `manager.go` | `sessions` by id | CreateWithID, evict, Stop | PTY session | check, start, register |
| Auth, federation, MCP, relay, rc, vault, TUI, web, ... | see `PROJECT.json` | | | mostly I/O, cryptography or presentation |

What makes each modelled component correct:

- registry: a name leads to the session that carries it and to no other; a live
  session can be reached; one spawn per name; a reservation is given back; an
  exit is noticed; a stop ends its own container and nobody else's;
- rows: a live session keeps its row and the row keeps its identity; every
  orphan is swept; what Stop deleted stays deleted; a crash leaves something
  to resume;
- broker: no panic under the mutex, no entry of a finished stream, every
  stream told of the end does end;
- PTY session: a subscriber sees every chunk once from its snapshot on (unless
  its own queue is full), the tail survives the exit, everyone is released;
- runner task: the saved answer is the reply, the announced end is the stored
  end, a terminal state is final, Deliver returns;
- hub tunnel: a request is never sent into a tunnel that is known to be closed,
  a waiting handler is answered or released, a runner that believes to be
  connected is;
- hub relay: no connection that works is leaked, none that was closed is handed
  out, a reported result is a result of the peer, every Deliver returns;
- team events: files that describe a team catch up with the team, also when
  events are dropped and regenerations overlap.

## Modules

Each component module has CONSTANTS with named assumptions, `Init`, one action
per critical section, call out or goroutine step, `Next`, `Spec`, and `FairSpec`
where liveness is stated. An operator named `Bad...` (or `Zero...`, `Keep...`)
is a mutant: a plausible bug in the definition that follows it, which the run
of the property must detect. `MC_X` instantiates `X` for TLC; `X_proofs` holds
its theorems (those of RingBuffer are in `PtySession_proofs`, those of
SessionStoreHTTP in `SessionStore_proofs`).

**SessionStore** - the rows. `rows[id]` is the set of key groups of the JSON
state; Get of a missing row returns an empty map and no error, so `{}` is "no
row". `spawn` and `stop` are the progress of the two calls, `reaper` and `tick`
the local variables of `reapOnce` and `tickOnce`. One repository call is one
step. `Crash` empties the memory and abandons every call; `Boot` starts the
next process, which may delete rows (`CHEPHERD_CLEANUP_ORPHANS_ON_START`).

**SessionStoreHTTP** extends SessionStore with the dashboard's list (two
reads), what the browser was shown, the DELETE it sends later, and the bulk
cleanup, which looks ids up among names. `list.old` and `newborn` are history:
the ids that had been registered when the list began, and those on the page that
were not among them.

**SessionRegistry** - the maps and the mutex. `byName[n]` is an id, the sentinel
or nothing; `call[c]` is a caller's request and how far it is. Before Restart
and Handoff the HTTP handler looks the name up (`Ask`): it goes on only with a
registered session, gives the mutex up, and the method looks again (`Looked`), a
Handoff at its target too, which the handler never asked for. Both then are a
Stop, for Handoff a second one, and a Spawn: `again` and `to` of the record say
what is left. `Read` is the case that info was found, `ReadUnknown` that the
name is gone, `ReadPanics` that it is a sentinel. `container[n]` is what runs
under a container name, which Rename does not change. `robbed` is history: the
names whose reservation a Stop deleted while the Spawn it belongs to went on.
`mu` is "leaked" after a panic inside a critical section without a deferred
unlock; from then on no critical section is enabled.

**StreamBroker** - one task's streams. Per-task maps are identified by the
stream that created them, so that a map may outlive its place in `byTaskID`
(`pub[p].map` is the reference Publish keeps across its unlock). `kind`
says which handler a stream belongs to (message/stream, tasks/resubscribe or the
two-call GET handler); it is chosen at the start, from `Mixes`, and never
changes. `stuck` is a panic with the broker's mutex locked: `ReapPanics` is a
reap that meets a closed channel after it has closed any part of the open ones.
What must eventually happen is stated up to that point.

**RingBuffer** - the indices of `buffer.go`, byte by byte; the content is the
position of each byte in the output, so that the order is checked too.

**PtySession** - chunks are numbered. `reader` is the read loop between Read,
ring write and the sends of fanout; `snap` and `offered` are history: what a
subscriber was given as a snapshot and offered since. `held` says whether some
descendant holds the slave open after the child's exit.

**RunnerTask** - one task on the runner: `deliver`, `pump` and `cancel` are
three goroutines, `ch` is the pump's subscriber queue, `buf` and `offset` its
response buffer and send mark, `row` and `answer` the stored task; any call of
the store may return an error, which `failed` remembers.

**HubTunnel** - one org's tunnel. A number stands for one websocket with its
two ends: `pump` is the hub's handler goroutine, `client` the runner's end,
`broken` says that the connection is cut, which each end notices on its own.
`mmu` is `tunnelManager.mu`, which `register` holds while it closes the tunnel
it evicts; `closed`, `pending` and `toClose` are `tunnel.close` in its steps,
and `held` is the channel `dispatch` looked up before it unlocked. `req` is the
handler of one inbound request; `served` is history.

**RemoteCall** - the abstract specification of a remote call, whatever carries
it: the call returns; a result of the peer is reported only if the peer has
processed this message; the peer processes it at most once per attempt,
possibly after the caller has given up.

**HubRelay** - A2A messages over data channels that were negotiated through the
hub's mailboxes. A session is one offered connection with its two ends `off`
and `ans`, named by the caller and the attempt that dialled it (a fresh uuid in
the code). `store` is the PCStore of each daemon, `handler` the client whose
`onMessage` a connection has, `pc`, `att` and `using` one `HubDeliverer.Deliver`.
GetOrDial is its two critical sections with the dial between them; frames may
be lost and links may fail where `Faults` allows it.

**TeamEvents** - teams, memberships and how agents learn of each other: the
bounded channel, the fan-out goroutine, one debounce timer per session, briefings
and canon files. Reading the registry and writing a file are separate steps,
as in the code, and any write may fail. A regeneration that has read the peers is
not stopped by the next one: up to `Runs` of one briefing overlap and write in
any order. `spec` is the team Spawn was asked for, which its event names even if
the session has been reassigned since. The rest is history: `missed`, the teams
with a change no event covers; `owed`, the pairs an event in the channel promised
to tell of each other; `newest`, the pending writes that were the last to read;
`behind`, the agents whose file an older regeneration wrote after a newer one, or
whose last write failed.

HubTunnel (one attempt) and HubRelay (`MaxAttempts`) both state
`ImplementsRemoteCall`, the refinement of RemoteCall under the mapping in their
last section. TLC checks it with its liveness; TLAPS proves the safety part.

The modules meet at their boundaries: `PtyClose` of SessionRegistry is `Finish`
of PtySession; `AgentWrites` and `SessionEnds` of RunnerTask are its `FanSend`
and `Finish`; `SaveTerminal`/`PublishDone` of StreamBroker are the completer,
the cancel and `PumpPublish` of RunnerTask; `SpawnRegister` and `StopRemove`
appear in SessionStore as the steps that decide who owns a row, and
`SpawnRegister`, `Stop` and `Exit` in TeamEvents as the ones that change a
team; what `HandleFrame` of HubTunnel hands to the runner's local handler is
where RunnerTask begins (`DeliverSave`).

## Runs

`PROJECT.json` gives for every run its properties and a sentence on what it
shows. Passing runs:

| Run | Bound | Distinct states | Properties |
|---|---|---|---|
| store | 2 ids, 1 crash | 278,005 | TypeOK, LiveRowKept, LiveRowNamed |
| http | 1 id, 1 crash, its name differs from its id | 46,245 | HTypeOK, MisshownIsNewborn, OrphanSwept |
| registry | 2 names, 2 ids, 2 callers, all requests (symmetric) | 1,959,390 | TypeOK, IndexSound, Reachable, SpawnsExclusive, ReservationOwned |
| broker | 2 streams of every pair of different kinds, 2 publishers, queue of 1 | 399,149 | TypeOK, EndedForgotten, ToldIsReaped, DoneEnds, ReplayEnds |
| ring | capacity 5, writes of up to 7, 26 bytes | | RingTypeOK, SnapshotIsTail |
| pty | 2 subscribers, 2 chunks, queue of 1 | | TypeOK, NoGap, TailKept, ExitReleasesClients, CloseReturns |
| runner | 3 chunks, queue of 2, store errors | | TypeOK, AnswerIsPromptTerminated, DoneMeansTerminal, SessionEndFinishesTask |
| hubtunnel | 2 runners, 2 connections, 1 request | 99,854 | TypeOK, LookupFindsOpen, OpenIsRegistered, WaiterReachable, OpenRegistersOrNotices, ImplementsRemoteCall |
| hubrelay | 2 orgs, 2 callers in one daemon, 2 attempts, lost frames and failing links | 834,083 | TypeOK, HealthyOwned, StoreSound, ImplementsRemoteCall |
| teams | 2 agents, 2 teams, 1 role, channel of 1, 2 changes, 2 regenerations of a briefing at a time (symmetric) | 3,253,189 | TypeOK, CanonCurrent, OwedIsPending |

Why these are enough. Ids are never reused and sessions interact only through
names and the shared loops, so a second id is what lets one session's Stop meet
another's Spawn. Two callers with two names meet every pair of requests; the
registry's properties are proved for any number. A queue of one or two makes
both the full and the non-full case happen with two chunks or events. A second
crash repeats the first from a state the first already reaches. A ring of 5 with
writes of 1 to 7 bytes meets every alignment of a write with the end of the
ring. Two connections are one eviction or one reconnect; requests share nothing
but the tunnel, whose waiters are a set, and the proof is for any number of
both. Two callers of one daemon overlap in dialling and share a connection,
which is what PCStore is for; a second attempt is a retry after a failure, and
the last one. Two agents are an announcer and a reader, two teams an Assign, and
a channel of one drops; two regenerations of one briefing are an older and a
newer one, which is all it takes to write in the wrong order. What a bound stops
(spawns, chunks, crashes, dials, changes) makes the model run out of steps,
which is why the runs do not check deadlock; what must not stop is stated as
liveness.

Two runs end in a violation. Each checks one sentence that a comment of the
source says of the program; `findings` quotes it and tells the counterexample:

- **registry_wedge** (ReservationResolved): a Handoff of a live session to a name
  whose Spawn is in progress finds the sentinel, and its nil info panics inside a
  critical section without a deferred unlock. The handler's Get guards the source
  only. Restart dereferences in the same way, but Get answers 404 or 410 for a
  sentinel: it takes a session that is live at Get, stopped, and being respawned
  when Restart looks (the model has this case as well);
- **broker_panic** (NoPanic): two done events with a disconnect and a
  resubscribe between them close a channel twice under the broker's mutex. It
  takes two publishers (PanicNeedsTwoWriters), and it is the only panic there
  (OnlyReapPanics).

The passing runs over the same modules check what still holds in the presence
of these: a leaked mutex or a stuck broker is a state of the model in which
nothing else moves, not an excluded one. SpawnsExclusive and ReservationOwned
are about names no Stop has robbed of their reservation; that a Stop can take a
pending sentinel, after which a second Spawn of the name starts, is the code's
behaviour and visible in `robbed`.

### Stated and known to fail

The modules also state the following sentences of the source's comments. TLC
refutes each within a minute, most in seconds, when it takes the place of the
properties of the named configuration, with SYMMETRY dropped (state predicates
as INVARIANT, the others as PROPERTY). They are not runs of the project. For
some of them a theorem says how far the code can go wrong; it is named in the
last column.

| Property | Configuration | What the code does |
|---|---|---|
| StoppedRowStaysGone | SessionStore | Spawn's late Save, or a tick that loaded the row before Stop, writes it again; the reaper sweeps it later (OrphanSwept). There is no third writer, and after these two nothing brings it back (GoneRowsStayGone) |
| CrashLeavesResumable | SessionStore | no caller writes the `claude_uuid` key ResumableSessions selects on |
| ShownAreNotLive | SessionStoreHTTP | live ids are read before the rows; a Spawn in between is listed as not live. It happens to no other session, however old the page (OnlyNewbornMisshown) |
| CleanupPreservesLive | SessionStoreHTTP | the bulk cleanup looks ids up in the index of names, so live sessions lose their rows. No other component takes a live row (OnlyDashboardDeletes) |
| StopSparesOthers | SessionRegistry | Stop removes the container by name after it freed the name |
| StopEndsContainer | SessionRegistry | after Rename, Stop asks for a container of the new name |
| ExitNoticed | SessionRegistry_wedge, AllRequests | the sniffer returns before it defers markExited when Subscribe fails |
| Attached | StreamBroker | the reap deletes whichever map is registered now, also a fresh one. Not before a first publisher has reaped (AttachedUntilFirstEnd) |
| ClosedMeansDone | StreamBroker | a stream that joined after the fan-out, or whose queue was full, is closed without a done |
| TerminalReplayEnds | StreamBroker | isTerminalState leaves REJECTED out |
| TailEndsAtTerminal | StreamBroker | the row is read before the subscription is opened |
| IdleCloses | StreamBroker | the idle timer only writes a ping |
| ReplayThenLive | PtySession | a subscriber between the ring write and the fan-out gets the chunk twice. Never more than that one chunk (ReplayOverlapsByOne), and never out of order (OutputInOrder) |
| TerminalIsFinal | RunnerTask | completer and cancel read, decide and save without the transition table; a cancel that saves last also erases the answer. It changes at most once (TerminalChangesOnce) |
| AnswerHasNoBanner | RunnerTask | banner chunks still queued at the mark are taken for the answer |
| DeliverReturns | RunnerTask | a refused Subscribe never closes `mark.Subscribed` |
| AnsweredIsFinal | RunnerTask | the completer's read of the row may fail, or a reply read before the mark is sliced away; done is announced, the row stays WORKING |
| AnswerAwaitsOfferer | HubRelay, `Faults = {}` | "the offerer is the only one that consumes answers" (hub_answerer.go): the daemon's own HubAnswerer drains the same mailbox and discards the answer, so a dial may run into its timeout with nothing lost |
| BriefingsComplete | TeamEvents | a dropped event is not sent again, and Assign tells nobody: two live team mates stay unknown to each other until the next event of the team; so do they when a regeneration is overtaken by an older one, or its write fails. For announced pairs these last two are the only ways (NobodyForgotten) |

## Fairness

- The reaper's ticker never stops while the process runs: weak fairness of each
  of its steps, and strong fairness of a Delete succeeding (a database that
  fails every time is out of scope). Spawn, Stop, ticks and crashes get none.
- A Spawn that reserved a name goes on (it has no unbounded wait), a Stop whose
  child has ended goes on, and each sniffer goroutine is scheduled.
- A handler goroutine and a publisher that is past its save go on; clients
  need not read, send or disconnect.
- Read loop, wait loop and a running Close are scheduled; the two timeouts do
  fire; the child is not assumed to exit, or to release the terminal, except
  that KILL ends it.
- The runner's Deliver and pump are scheduled; the agent need not print.
- Hub tunnels: goroutines that can go on do, each of those that serve a tunnel
  on its own, and a read on a cut connection fails in the end. The request
  timeout gets no fairness: what is checked must hold without its help.
- Hub relay: a running Deliver goes on; its two deadlines (dial and send) fire
  if nothing else happens, which is what the code's contexts guarantee. Nothing
  is assumed of the hub, the peer or the network.
- Team events: only safety is stated, so no fairness is needed.

## Proofs

TLAPS checks, for every value of the constants:

- **SessionStore_proofs**: TypeCorrect, LiveRowsSurvive, LiveRowsKeepIdentity.
  LiveRowKept is not inductive: a deletion in progress must be known not to hold
  a live id. `RowsFromSpawns` says rows, and all ids anybody listed from rows,
  come from finished spawns; `RegistryDiscipline` that an id under Stop has left
  the registry and that a stopped daemon has none; `ReaperSparesLive` that what
  the reaper still holds is not live; `TickCarriesIdentity` that a state loaded
  for a live session has its identity. With the dashboard added, LiveRowKept is
  false (CleanupPreservesLive), but the bookkeeping part of its invariant
  (`Book`) survives the dashboard's deletions; from it come HTypeCorrect,
  OnlyNewbornMisshown (by `ListKnowsOld`: a session that had been registered
  when the list began and is still live is among the list's live ids; ids are
  registered once, so no session on a page becomes live later),
  OnlyDashboardDeletes (an action property: a live session's row goes only in
  DeleteShown or CleanupOne) and GoneRowsStayGone (a row of a finished Spawn
  that is gone, and that the tick in progress does not hold, stays gone). Only
  assumption: `MaxCrashes \in Nat`.
- **SessionRegistry_proofs**: TypeCorrect, NameIndexSound, SessionsReachable,
  OneSpawnPerName, NoOrphanReservation, IdsRegisteredOnce, for any number of
  names, ids and concurrent requests, restarts and handoffs among them.
  IndexSound needs to know (`Fresh`), while a spawn is between its start and its
  registration, that its id is mentioned by no map and by no other caller;
  exclusiveness needs `Held`: the sentinel of a Spawn stays in place until a
  Stop takes it. IdsRegisteredOnce is an action property (an id that left the
  registry is never in it again) and the guard that SessionStore's
  `SpawnRegister` has by construction; it needs `Unnamed`: a child that is not
  registered yet has never had a name in `info`.
- **StreamBroker_proofs**: TypesKept, EndedAreForgotten, ToldAreReaped,
  OnlyReapPanics, PanicNeedsTwoWriters, AttachedUntilFirstEnd, for any streams,
  publishers, mixes of readers and channel capacity. EndedForgotten rests on
  `ClosedIsForgotten` (a channel is closed exactly when its id has been forgotten,
  and then its stream is not in the registered map), although cleanup looks at
  the map registered now and a reap at the one it kept; and on `OneMap`: a stream
  is in one map only, so that a panicking reap harms no other. The
  last two need a second invariant: until a publisher has been through its
  second critical section, the registered map is the only one with streams.
- **PtySession_proofs**: TypeCorrect, SubscribersMissNothing, TailSurvivesExit,
  from an invariant that relates what was read, what the ring holds and what a
  fan-out in progress still has to send; OutputInOrder and ReplayOverlapsByOne,
  from a second one (`Feed`) that bounds the chunks a subscriber was sent by the
  one in the read loop's hands. For the ring: RingTypesKept, and RingKeepsTail
  from an invariant that gives every cell of the buffer its content in terms of
  the number of bytes written.
- **RunnerTask_proofs**: TypesKept, AnswersPromptTerminated, DoneIsTerminal,
  TerminalChangesOnce, for any channel capacity and amount of output. `Order`
  says which of Deliver and the pump comes first and that only the completer
  writes COMPLETED; `Response` that what the completer saves is what the pump
  decided on, although more output and a cancel may arrive in between.
  TerminalChangesOnce is an action property: a step that overwrites a terminal
  row leaves no goroutine that will still write it.
- **HubTunnel_proofs**: TypesKept, LookupIsOpen, ServedIsRegistered,
  WaitersReachable, TunnelRefinesCall, for any number of runners, connections and
  requests. `Mapped` and `Evicting` follow a tunnel through register, eviction
  and shutdown; `Slots` says that a waiter is in `pending`, in the hands of
  close, or has something in its channel; `Journey` that a request is in one
  place on its way and served once.
- **HubRelay_proofs**: TypesKept, StoreIsSound, HealthyIsOwned,
  RelayRefinesCall, with every fault. `Stored` and `Stages` say who owns the
  connection of each attempt; `Counted` that the messages delivered and those
  still on their way are no more than the attempts that got as far as sending
  (a cardinality argument: this is "at most once per attempt"); `Answered` that
  a response belongs to a message that was delivered.
- **TeamEvents_proofs**: TypesKept, CanonCatchesUp, NobodyForgotten, for any number
  of agents, teams, events, changes and overlapping regenerations.
  What is owed must be known to be owed between two live members of one team
  (`Owing`), also when one of them is reassigned while a fan-out or a timer still
  counts on its old team: an event behind it will then set things right (`Settled`,
  with `Diverted` and `Stale`). `OneNewest` says that one regeneration was the last
  to read the peers of a briefing.

The assumptions are those the modules name; all are about constants, and TLC
evaluates each of them. Each invariant was checked by TLC before it was proved.
Every invariant of a run is proved. Left to TLC: liveness (fairness and ENABLED
are out of the prover's reach), that is OrphanSwept, DoneEnds, ReplayEnds,
ExitReleasesClients, CloseReturns, SessionEndFinishesTask, OpenRegistersOrNotices
and the fair part of the two refinements; and every finding, which is a
counterexample and needs no proof.

## Not modelled

The map covers a few percent of the repository's 64,000 lines of implementation.
The modules stand for the code that keeps shared state across goroutines,
processes or machines. Most of the rest is request decoding and CRUD over
repositories (one SQL statement per operation), generated or static documents,
text processing, command lines, cryptography, clients of other services and user
interfaces: a model of it would have no step that could meet another one.
`PROJECT.json` gives the reason per component. Two parts were only looked at
from the outside: the remote-control daemon and the mobile relay.

Left out inside the modelled parts:

- TeamEvents: UpdateTeam's rename and the Rename cascade over memberships;
  Runtime.Close (only tests call it); a name that is spawned again; Stop and
  Assign on a pending reservation; an empty team name; that the debounce can
  be put off for ever by events that keep coming.
- HubTunnel: authentication, headers and bodies, several orgs (independent
  keys of the map).
- HubRelay: CloseAll at shutdown, trickled ICE candidates, the answerer's own
  map of connections, the direct (hub-less) signaller.
- RunnerTask: two Delivers that share one PTY; StreamBroker: push webhooks.
- SessionRegistry: Pause, SetIcon and the other setters of one field.

## What could come next

1. Two Delivers on one PTY, and the re-knock watchdog, as an extension of
   RunnerTask, with the state machine of `state_machine.go` as its abstract
   specification.
2. PTY session manager: create, evict and stop by id.
3. The Rename cascade and UpdateTeam in TeamEvents, with names that are reused.
4. The relay's pairing and the rc envelopes; key rotation against the JWKS
   cache, which needs a model of wall-clock ages.
