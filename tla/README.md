# Verification of the GPS HAL of the ZTE X9180 device tree

The repository is the Android device tree of the ZTE X9180. Most of it is configuration; the
program in it is the Qualcomm GPS HAL under `src/gps`, about 16000 lines of C and C++ with several
threads, two peers that answer whenever they like (the Android framework and the modem), a modem
that restarts, and timers. A smaller one is the lights HAL. This project models both in TLA+, checks
the models with TLC and proves theorems about them with TLAPS.

To check a module: `tlc -config MCMsgTask.cfg MCMsgTask.tla`. To check its proofs:
`tlapm MsgTask_proofs.tla`. `PROJECT.json` lists the runs, the mutants that show what each property
can catch, the lines of source each definition stands for, the hazards, and the theorems.

## 1. Inventory

### How the HAL works

Three kinds of thread meet in it:

- the **framework's threads** call the functions of `loc.cpp`, which mostly make a message and
  send it (`adapter->sendMsg(new LocEng...)`);
- the **modem's thread** calls the report functions of `LocApiBase`, which call the adapters, which
  make messages too; the **daemon's thread** does the same for the position daemon;
- the **deferred thread** (`MsgTask::loopMain`) takes the messages from a queue, one after the other,
  and runs `proc()` of each. Nearly all state of the HAL (`loc_eng_data`) is its own.

What makes the code hard is what does not keep to this: state that the framework's thread reads
and writes directly (NI sessions, `gps_conf`), threads of timers and NI requests, answers that come
late, and modem restarts in the middle of everything.

### Components

| Component | Source (`src/gps/...`) | State | Operations | What makes it correct |
|---|---|---|---|---|
| AGPS NIFs | `libloc_api_50001/loc_eng_agps.cpp`, `.h`; messages in `loc_eng.cpp` | state (Released, Pending, Acquired, Releasing), list of subscribers | subscribe, unsubscribe, granted, denied, released, drop all | no connection without a client, no client without its connection, nobody forgotten |
| Emergency SUPL (DS) | `loc_eng_agps.cpp` `DSStateMachine` | the same, retry counter, timers | start and stop the data call, retry, fall back | a running call can be ended, retries are bounded and end |
| Message task | `core/MsgTask.cpp`, `utils/msg_q.c`, `utils/linked_list.c` | list, `unblocked`, mutex, condition | send, receive, unblock, destroy | each message once and in order, no lost wake-up, the task ends |
| NI requests | `loc_eng_ni.cpp`, `.h` | two sessions: payload, ID, answer | request, wait, answer, silence, reset | one owner of each payload, a session is freed again |
| Tracking session | `loc_eng.cpp`, `LocEngAdapter.cpp` | in session, fix criteria, mute state, engine state, aiding mask | start, stop, mode, reports, engine down and up | framework and modem agree on whether there is a session |
| Configuration | `loc_eng.cpp` (`loc_eng_reinit`, `loc_eng_agps_init`, `loc_eng_configuration_update`) | `gps_conf`, `agpsStatus`, server buffers | change, initialise, send, resend | the modem ends with the current values |
| Timer | `utils/loc_timer.c` | one thread, mutex and condition for each timer | start, expire, stop | the callback runs once or never, the timer is freed once |
| LocApiBase, LocAdapterBase | `core/` | array of adapters without a lock, event masks, connection | add, remove, change events, report, request, reopen | a report reaches every adapter once, the connection is open for what they want |
| Contexts | `core/LocDualContext.cpp`, `ContextBase.cpp` | singletons | get, load libraries | one context for each thread |
| Daemon connection | `loc_eng_dmn_conn*.c*` | pipes, one reader thread and its handshake | launch, receive, reply | the launch returns, an answer has its pipe, a message of an unknown type does no harm, a slow reader does not stop the server |
| HAL interface | `loc.cpp`, `gps.c`, `LocEngAdapter.cpp` | callbacks, power vote, GPS lock, powerup node | init, start, stop, cleanup, shutdown | a cleanup leaves no session; vote, lock and node follow the framework |
| XTRA, NMEA, configuration files, logging | `loc_eng_xtra.cpp`, `loc_eng_nmea.cpp`, `utils/loc_cfg.cpp`, `loc_log.cpp`, ... | hardly any | passing on, formatting, parsing | pure functions |
| Lights | `src/liblight/lights.c` | the state of three sources, what the LED's files hold | set a light, set the backlight | the LED shows the most important source, and blinks as it asked |
| Camera wrapper, key handler, toggles, init, power | `src/camera`, `src/keyhandler`, `src/mkhw`, `src/init`, `src/power`, `src/libwcnss_qmi` | little | passing on to vendor libraries and sysfs | - |

Interactions: the message task carries everything else. The modem's AGPS requests, the daemon's
requests and the framework's answers reach the NIFs as messages. A DS machine that gives up sends
its client to the agnss NIF. NI requests mute the tracking session. A modem restart arrives as two
messages (`LocEngDown`, `LocEngUp`) that reset the NI sessions, drop the subscribers of the modem's
NIFs, send the configuration anew and restart the tracking session; a third (`LocSsrMsg`) reopens the
connection of `LocApiBase` for the events of all adapters. The daemon's thread turns what it reads into
messages for the BIT and Wi-Fi NIFs, whose subscribers answer through its pipes. `loc_init`,
`loc_cleanup` and the restart all send the power vote.

The hard behaviours are listed one by one, at their lines, as the hazards in `PROJECT.json`.

## 2. Modules

| Module | Models | Abstract over |
|---|---|---|
| `AgpsStateMachine` | agnss, internet and Wi-Fi NIF | addresses, APNs and credentials; the list as two sets |
| `DSStateMachine` | emergency SUPL NIF with timers | the data service library: any result |
| `MsgTask` | the thread, the queue, its mutex and condition | contents of messages, list pointers |
| `Fifo` | what `msg_q.h` promises | - |
| `SharedConnection` | what a NIF promises its clients | the NIF's states, its list, the framework |
| `NiSession` | NI sessions and their threads | text of requests; two answers stand for accept and deny; time |
| `EngineSession` | tracking session | positions, satellites, NMEA |
| `EngineConfig` | settings on their way to the modem | contents and meaning of the settings |
| `LocApi` | the array of adapters, its walks, the connection's events | what an indication says |
| `DaemonConnection` | the server for other processes: its thread, pipes, handlers | what the NIFs decide |
| `HalLifecycle` | `loc_init` to `loc_cleanup`: session, vote, lock, powerup node | what a session does |
| `Lights` | the LED and the backlight | colours, brightness tables |

Each `X` has a module `MCX` with the instance for TLC and a module `X_proofs`, but for the two
abstract specifications, `Fifo` and `SharedConnection`. The proofs about `DaemonConnection` are at the
end of `AgpsStateMachine_proofs`, those about `Lights` at the end of `HalLifecycle_proofs`; since these
modules extend two specifications each, the names in the smaller one have a prefix (`DaemonSpec`,
`LightsSpec`).

The abstract specifications tie the modules together. `MsgTask` implements `Fifo`, and the models
whose handlers run from a queue (`EngineConfig`, `LocApi`, `HalLifecycle`, `DaemonConnection`) keep that
queue as a sequence of their own; `UsesFifo` in each of them says that every step does to it what
`Fifo` allows, so what is proved of the message task is what they rely on. `AgpsStateMachine`
implements `SharedConnection` for every NIF.

Operators whose names end in `_Something` and whose comment begins with "Mutant" are defects that
no action uses: each property of the runs below is refuted by TLC when one of them takes
the place of the definition it follows.

**AgpsStateMachine.** A message to a NIF is handled whole by the deferred thread, so each branch of
`onRsrcEvent` is one action: `SubscribeReleased`, `SubscribeQueued` (Pending and Releasing),
`SubscribeAcquired`, `SubscribeRefused` (the Wi-Fi NIF serves one client), `UnsubscribeWait` and
`UnsubscribeNow`, `RsrcGranted`, `RsrcDenied`, `RsrcReleased`, `RsrcDrained`, and `EngineUp` for
`dropAllSubscribers`. `lease` is what the framework was last asked for; `told` what each client last
heard. `EngineUp` tells nobody: the modem has restarted and knows of no request, but a daemon client is
a process that has not, and goes on waiting or believing in its grant. `lost` is the history variable
for such clients, from the restart until they hear from the NIF again; `GrantBacked`, `NoForgottenRequest`,
`RequestAnswered` and `IsShared` name it as their exception, and `RestartKeepsRequests` below says without
it what is false. `Leavers` covers a read of freed memory: after `notifySubscribers` deletes the subscriber
that the notification points to, it searches again with the same notification, so another client
may be taken off the list (`Reused` is what the freed ID may read as). `IsShared` is the refinement:
`SharedConnection` knows only whether the connection is up, asked for or neither, who waits for it and
who holds it; the connection is `lease` and the state, the two sets are read off `told`. The DS machine
does not implement it: a client that asks again while it is inactive hears nothing of the connection
that comes up (`AskedIsActive` below).

**DSStateMachine.** The same states with a data call that may fail at once: `StartDataCall` has
every result of `requestRsrc`, `TimerFires` runs in a thread of its own and looks up a subscriber,
`RetrySuplES` is the message it sends. The timer looks up whoever is listed, also a client that was told
that it is closed, so a call may run for nobody (`CallIsWanted` below); `CallCanEnd` claims that a call
that runs has an active subscriber in a state that heeds a release and a close.

**MsgTask.** The body of each `msg_q` function is atomic under `list_mutex`; `pthread_cond_wait`
splits `msg_q_rcv` (`RcvEnter`, `wait`, `RcvWoken`), and `SpuriousWakeup` is there because POSIX
allows it. `accepted`, `handled`, `discarded`, `leaked` and `late` are history variables.

**NiSession.** `rawRequest`, `reqID`, `respRecvd` and `resp` are read and written by three kinds of
thread, partly without `tLock`. What happens under the lock is one step, every unlocked access that
another thread can come between is a step of its own (`RequestStarts`, `ThreadClears`, `Respond`,
`RespondLooks`, `RespondSilences`, `ResetChecks`, `ResetFrees`); only the ID and the payload of one session
are read together (`Has`). A timed wait may expire at any time.

**EngineSession.** Handlers of the deferred thread are actions. The framework's messages do not
depend on what is queued, so handling one first means it was sent first; the modem's reports do
depend on the moment they are sent and have a queue, `reports`. The modem is external: it runs a fix
or not, reports whatever it likes, and may refuse each request. `SessionResumes` has two halves: the modem
runs the fix of a tracking session that it took, is down, or is yet to be heard of; and no handler of a
report ends such a session unless the modem refuses it. A start that fails with an error the code
tolerates leaves a session without a fix, of which the first half claims nothing.

**EngineConfig.** The framework's thread changes a setting and later sends it; the deferred thread
hands messages to the modem, and in `loc_eng_reinit` reads each global without a lock and sends
itself a message with the value, two steps (`ReinitReads`, `ReinitSends`). Settings of `sap.conf`
(`Fixed`) never change but have to reach a restarted modem as well.

**LocApi.** Three threads meet on `mLocAdapters` without a lock. `removeAdapter` is four steps, one for
each write the others can see (`RemoveAdapter`, `FillHole`, `ClearLast`, then `CloseWhenEmpty` or
`SendOpen`); a walk reads one slot in each step (`Deliver`, and `Collect` for the event masks), so it
can meet the array anywhere in a removal, which `torn` records. `LocSsrMsg` is `Ssr`, `Collect` and
`Reopen`. The macros read a slot twice, to test it and to call what is in it; this is one step, so a call
through a pointer that a removal clears in between is not in the model. Two things are assumed: registrations come one after the other, and `open()`, which is not
in this tree, adds events to those already open, as `addAdapter` relies on when it opens for the new
adapter only.

**DaemonConnection.** The launcher (`Launch`, `SignalWait`, `SignalWoken`, `Returned`), the server's thread
(`OpenPipe` to `RemovePipe`) and the deferred thread (`Take`, `DataConn`) meet on the mutex and condition of
the thread helper and on pipes that hold `Capacity` messages. The pipes are made and removed one by one,
each may fail to be made, and a write waits for room; one that waits goes on waiting when the server
removes the pipe, for the descriptor it holds can read too. `Launch` has a thread that cannot be created
and a callback that makes none. Spurious wake-ups and interrupted reads are always possible. Since
`pthread_cond_wait` is under an `if`, a launch may return before the pipes are made (`LaunchedReady` below);
what protects the answers is that no NIF answers before the server has received something
(`AnswersHavePipe`). Nobody ends the server from outside: the calls are under `#if 0` in `loc_eng_cleanup`,
and the model leaves them out. `WaitIsSignalled` is the safety half of `LaunchReturns`.

**HalLifecycle.** The thread of the framework walks through `loc_init` (`InitBegins` to `PowerUp`) and
`loc_cleanup` (`CleanupBegins` to `CleanupReturns`) with one step for each access that the deferred
thread may come between: writing `mPowerVote` and sending it, looking at the session and sending
the stop, looking at `mdm_fd`, closing it and forgetting it. The deferred thread does the same in
`UpReads`/`UpVotes` and `ShutdownChecks`/`ShutdownCloses`/`ShutdownForgets`. A session of single fixes also
ends when that thread handles a report (`FixEnds`). A modem that is down hears neither vote nor lock; the
vote is sent again after a restart, the lock is not, so `LockFollows` speaks of a modem that has not
restarted since it was last locked or unlocked (`restarted`). The result of `pm_client_connect` is ignored, so `pm.asked`
and `pm.connected` differ. `missed`, `stale`, `shut` and `foreign` are history variables.

**Lights.** Each call runs under `g_lock` and is one action. `led` is what the sysfs files hold; a
pause of 0 and a hidden light are not written, so it depends on all earlier calls. `BlinksAsAsked` claims
the pauses above 0 of a notification, and that no call but for another notification changes what is
written; what a pause of 0 shows as is what was there before (`PausesAreItsOwn` below). Writes to sysfs are taken to
succeed.

## 3. Runs

| Run | What it checks | Bounds |
|---|---|---|
| `agps` | the connection matches the state; a grant is backed; no request is forgotten; only a modem restart leaves a connection for nobody; every NIF implements `SharedConnection`; all requests and releases are answered; daemon clients that a restart took off the list are excepted | 3 NIFs, one client each of the modem, the BIT and the Wi-Fi kind; no bound on steps |
| `msgtask` | delivery once and in order; no lost wake-up; the task ends when told; at most one message after the unblock; all is handled otherwise; the queue implements `Fifo` | 2 senders, 3 messages each |
| `ds` | a running call can be ended; who left waits only where a close is expected; bounded retries that end | 2 handles, 5 requests, the code's 4 retries |
| `ni` | a session with a payload is attended to; one owner; own thread answers; every request is released | 2 requests, 1 modem restart |
| `session` | the framework is not told that an open session ended; muting ends; a session and its fix survive a restart unless refused | 2 waiting reports; no bound on steps |
| `config` | the modem is up to date when all is quiet; it becomes so | 1 `gps.conf` and 1 `sap.conf` setting and the network, 2 values, 2 changes, 1 restart |
| `locapi` | a report reaches every listed adapter once, a request one handler (walks that no removal met); the connection ends up open for all wanted events, and is so again and again | 3 adapters for 2 slots, 1 event, 1 change of a mask, 1 report or restart |
| `daemon` | no answer precedes its pipe; a launch that made a thread returns; the server ends only when it cannot receive, and empties its pipe whoever does not read | 2 processes, 3 messages, pipes of 1 |
| `lights` | the most important light shows; a notification blinks if it asked to, with the pauses it gave, undisturbed by others | blinks of 0 and 1; brightness at and above the threshold; no bound on steps |
| `hal` | a cleanup ends the session it could see; the vote arrives, over restarts; the locks come in order; the power is asked for throughout | 2 inits, 2 starts or stops, 2 restarts or shutdowns |

The bounds suffice for what the properties are about: two senders give every order of two messages
around the steps of the receiver; five requests exhaust the four retries and leave one request
afterwards; two NI requests give a late answer, a silenced session and, with the restart, two threads
in one session; two waiting reports give one report of an old and one of a new session; two
changes give the older and the newer value around a read of `loc_eng_reinit`; three adapters for two
slots give a full array, a removal from either slot and an adapter that finds no room; three
messages fill a pipe of one and leave writers waiting on either side; two inits give a cleanup whose messages are
still queued when the next init begins, and two events a restart in either. A pause of 0 and another
one suffice for lights, since the code only asks whether a pause is positive. The theorems below hold
for all values of these constants. Deadlock is checked where the system can always go on
(`agps`, `session`, `lights`); the other models stop when their bounds are used up.

**Fairness.** The framework answers each request of a NIF (`agps`): nothing in the HAL times such a
request out, so without it nothing can be promised. The threads of the HAL are scheduled (`msgtask`,
`ni`, `config`, `locapi`, `daemon`), timers and timed waits expire (`ds`, `ni`), and a dead modem comes
back (`config`, `locapi`). No wake-up is spurious and no read interrupted because it could be (`daemon`,
`msgtask`). No property asks that the user answers, that a client releases, that
anybody initialises, or that a process reads its answers.

### Disagreements with comments

Two runs end in a counterexample; each checks what a comment of the code says.

| Run | Comment | What happens |
|---|---|---|
| `ni_answer` | `loc_eng_ni.cpp` 105: "Displays the NI request and awaits user input" | an answer that is looked up before the timeout and stored after it answers the next request; at worst it is a late one of the same session (`AnswerWasGiven`), until a modem restart, after which a new request may even get the answer that the last one got |
| `config_server` | `loc_eng.cpp` 2504: "This proxy buffers server settings" | `loc_eng_init` clears the buffer (`NothingBuffered`); what does reach the modem is not stale (`ServerNotStale`) |

The modules define more statements of this kind, under "What does not hold" or with the
comment they quote. No run names them; TLC refutes each when it is added to the cfg of its module
(`DeliversToAll` to `MCLocApi.cfg`, and so on) as an invariant, or as a property where it is about steps
(`RestartKeepsMode`). `AidingDataHonoured` needs two kinds of aiding data (`AidingData`).

| Definition | Comment | What happens |
|---|---|---|
| `DSStateMachine!AskedIsActive` | `loc_eng_agps.cpp` 524: "we need to add subscriber to the list" | a client that asks again before its close is complete is not added, because it is still listed as inactive; it gets no answer |
| `DSStateMachine!CallIsWanted` | `loc_eng_agps.cpp` 288: "the list should really be empty, nothing to remove" | a client that releases in a Released machine stays listed; the retry timer finds it and starts a call in its name |
| `AgpsStateMachine!RestartKeepsRequests` | `loc_eng.cpp` 2784: the subscribers are dropped | a daemon client that waits for an answer is taken off the list and not told |
| `EngineSession!AidingDataHonoured` | `loc_eng.cpp` 2053: "the actual action will happen when gps engine is turned off" | a second request replaces the mask of the first |
| `EngineSession!FixIsStoppable` | `loc_eng.cpp` 1872: "Stops the tracking session" | a fix of an earlier session, or a changed recurrence, ends the session without stopping the modem; a stop then does nothing |
| `EngineSession!RestartKeepsMode` | `loc_eng.cpp` 2796: "This sets the copy in adapter to modem" | the first restart makes the copy invalid, the second sends it |
| `LocApi!DeliversToAll` | `LocApiBase.cpp` 219: "loop through adapters, and deliver to all adapters" | a removal moves the last adapter behind a walk, or the walk ends at the hole |
| `DaemonConnection!RetriesLater` | `loc_eng_dmn_conn.cpp` 138: "retry later" | a failing receive ends the server for good |
| `DaemonConnection!LaunchedReady` | `loc_eng_dmn_conn_thread_helper.c` 108: "blocked on the conditional variable until thelper_signal_ready is called" | a spurious wake-up ends the wait, which is under an `if` |
| `DaemonConnection!AlwaysReturns` | the launch has no time limit | the framework's callback may make no thread; nobody signals then |
| `DaemonConnection!AnswersWhileOpen` | `msgremove` takes the descriptor by value | the server that ended leaves closed descriptors in the static IDs, and later answers are written to them |
| `DaemonConnection!AnswersWritten` | the deferred thread answers by a write that waits | a process that does not read keeps the deferred thread, and with it the HAL |
| `HalLifecycle!ClosesOnlyNode` | `loc.cpp` 444: "closes loc_mdm_info.mdm_fd which is the modem powerup node obtained in loc_init" | `mdm_fd` is 0 until a node is opened, so a cleanup or shutdown before that closes descriptor 0 |
| `HalLifecycle!OnlyZeroClosed` | the same | cleanup and shutdown both close the node, and its number may be another's by the second close |
| `HalLifecycle!OneNode` | the same | the reset of `mdm_fd` comes after the other thread has opened a node anew, which nobody closes then; a second `loc_init` overwrites it too |
| `HalLifecycle!PowerGranted` | `loc.cpp` 427: "Voting for modem power up" | the result of `pm_client_connect`, and a failing `open`, are ignored |
| `HalLifecycle!LockSurvives` | `loc.cpp` 498: the cleanup sets the lock of gps.conf | a lock that is sent while the modem is down, or that it forgets, is not sent again |
| `Lights!PausesAreItsOwn` | `lights.c` 352-361 | a pause of 0 is not written, and stays what an earlier notification or the battery wrote |

## 4. Proofs

All safety invariants of the runs are proved, for every value of the constants, by TLAPS; so are the
action property `OnlyRestartOrphans`, the type invariants, the two refinements (`IsFifo`, `IsShared`),
`UsesFifo` of the four models that have a queue of their own, and `SessionResumes` and `BlinksAsAsked`, action
properties that say where a step ends and, for the first, what it may not do. The assumptions are those the modules name: sets of
clients, processes and settings with sensible relations (`UsersAssumption`, `AtlOrderAssumption`,
`SettingsAssumption`, `AdaptersAssumption`, `HalAssumption`, `DaemonAssumption`, `LightsAssumption`), and
bounds that are natural numbers. Some theorems are about invariants that no run names, since TLC
checked them while they were being proved: `ReleasedIsEmpty`, `NoForgottenRelease`,
`EndsOnlyUnblocked`, `ServerNotStale`, `NothingBuffered`, `WaitIsSignalled`, `ListedOnce`, `Compact`,
`AnswerWasGiven` and `UsesFifo`.

The argument is the same each time: an inductive invariant, one lemma for each action, the
theorem from both.

- `AgpsStateMachine_proofs`: `Inv` is `TypeOK` and, for each NIF, `NifInv`, which ties state, list,
  lease and what the clients were told together. The NIFs do not disturb each other (`Untouched`),
  so each lemma is about the one NIF a message is for. `ImplementsShared` splits the same way: `SharedSteps`
  states the abstract actions by their effects on the mapped variables, and each handler is shown to
  have one of them. It needs the invariant where the abstract step says more than the handler looks
  at: that nobody holds a connection that is asked for, that a grant answers all who wait, and that
  nobody is left when the last client gives the connection back.
- The daemon, in the same module: `HandshakeInv`, `PipesInv` and `ExitInv` say how far the handshake, the
  pipes and `thread_exit` are for each place of the server's thread; spurious wake-ups do not disturb them.
  `AskedInv` says that nothing reaches the deferred thread before the server's loop runs, which with
  `PipesInv` is `AnswersHavePipe`.
- `DSStateMachine_proofs`: `CallCanEnd` alone is not inductive; a Pending or Acquired machine must
  have a user also while no call runs (`LeasedHasUser`). `ListedOnceHolds` is a second induction
  on top.
- `MsgTask_proofs`: the delivery equation needs to know that a message is in hand only while it is
  processed (`InHand`) and that `discarded` is filled by the last step (`FreedAtExit`). The refinement
  maps send, removal, unblock and destroy to `Put`, `Take`, `Stop` and `Discard`, all else to a
  stutter; it uses the invariant where a removal after the unblock must still be a `Take`.
- `NiSession_proofs`: `Attended` needs that the next request's ID is fresh (`FreshId`).
  One owner is a second induction, `OInv`: until a restart a payload is in its session exactly as long
  as its own thread waits. It says nothing after a restart because the code then frees a payload that
  an NI thread may be sending.
  `AnswerWasGiven` is a third, over the requests that a session names, that its answer was given to and
  that the framework's thread is answering: none is newer than what the session holds.
- `EngineSession_proofs`: the invariants and the first half of `SessionResumes` with the type invariant are
  inductive; its second half is shown of each step.
- `EngineConfig_proofs`: `UpToDate` speaks of a quiet system only. The strengthening, `Covered`, says
  where a setting is otherwise: missed, about to be sent, still to be read by `loc_eng_reinit`, read
  and held, in the last message that is about it, or with the modem. `HeldIsCurrent` and
  `QuietBefore` make it inductive over the steps of `loc_eng_reinit` and a restart. `ServerInv` is a second
  induction, about the server: it is in the last message about a server, or none is queued and the
  modem has it or nothing.
- `LocApi_proofs`: `ArrayInv` says what a removal has done so far: only it makes a hole, only
  the adapter it moves is listed twice, and nothing is behind the slot it will clear. `WalkInv` says
  that a walk no removal has met has called exactly the adapters in the slots it has passed;
  `ReportedOnce` and `HandledByOne` follow where the walk ends. An adapter that is not constructed
  is in no slot (`FreshUnlisted`), so an addition lists nobody twice. `CoverInv` is a second induction on
  top: an event that an adapter wants and the modem does not report is still to be sent for by the
  client, asked for by a message in the queue, in or ahead of what the deferred thread collects, or
  the modem is down; with nothing left to do, that is `SettledCovers`. A walk for the events that
  meets a removal may miss some, but the removal then has its own message still to send.
- `HalLifecycle_proofs`: what the deferred thread will do is in its queue, so the invariant speaks of
  the last message of a kind that waits there (`LastIs`, `Without`). `StopInv`: after
  `loc_eng_cleanup` looked, a stop waits that no start follows, or nothing can begin a session.
  `LockInv`: the lock that fits is the last that waits, or was the last that was set. `VoteInv`: the modem
  has the vote unless a step that sends it is still to come. `PowerHeld` is inductive once what is
  registered is known to have been found.
- Lights, in the same module: `LastInv` ties the sources that are on and the one last shown to the three
  states, `LedInv` the files to the one shown, and `BlinkInv` says that while a notification shows, its blink
  and each pause above 0 that it gave are in the files.

Only model-checked: the liveness properties (`RequestAnswered`, `ReleaseAnswered`, `Handled`, `Ends`,
`RetriesEnd`, `Released`, `Settles`, `CoversAgain`, `LaunchReturns`, `InboxDrained`), since TLAPS has
no ENABLED and so no fairness here.

## 5. Not modelled

- A failing `pthread_create` for an NI thread, for which the code leaves the session occupied.
- Pointers of `linked_list`, in particular the retry timer's search of the DS list in its own thread
  while the deferred thread changes the list.
- `loc_timer_stop`, which frees a timer while its thread may be about to: it has no caller here.
- In `EngineSession`: ULP proxies other than the default, injection of time and position,
  satellites, XTRA, NMEA.
- In `EngineConfig`: XTRA version settings, and the contents of all files.
- In `LocApi`: two threads that add or remove adapters at the same time, and `open()` and `close()` of
  the modem's library.
- In `LocApi` also: the second read of a slot, between its test and the call.
- In `DaemonConnection`: unblock and join, whose callers are under `#if 0`, the text of the messages, and a
  process that opens the pipes at the wrong time.
- In `HalLifecycle`: the callbacks (`gps_loc_cb` is tested and called in one thread and cleared in
  another) and the calls that only pass on.
- In `Lights`: writes to sysfs that fail, and the tables of brightness.
- The components marked `not_modelled` in `PROJECT.json`, each with its reason.

## 6. Plan

The modules above are the core and the parts around it. What is left, most important first:

1. `AgpsSystem`: the NIFs over the message task with delayed answers, shown to implement
   `AgpsStateMachine`; `DaemonConnection` composed with the BIT and Wi-Fi NIFs.
2. `LocTimer`: a timer's thread against `loc_timer_stop`; the callback at most once, one free. It then
   replaces the timer in `DSStateMachine`.
3. Contexts: the singletons of `LocDualContext` and the libraries they load.
4. The remaining reports of `EngineSession`: satellites, XTRA, and the NMEA caches of used satellites
   and DOP values.
5. Operators: `LinkedList` on pointers against sequences, `loc_cfg` parsing, the checksum of NMEA,
   the parameters of the camera wrapper.

Theorems planned: `AgpsSystem` implements `AgpsStateMachine`; callback at most once for `LocTimer`.
