# Formal model of vmware-desktop-autoscaler-utility

This directory holds TLA+ modules that model the service, TLC configurations that check them on
small instances, and proofs, checked by TLAPS, that hold for every value of the constants. All
paths below are relative to the repository.

Tools: `tlc -workers 2 -config X.cfg M.tla` checks a module, `tlapm M.tla` checks its proofs.

## 1. The system

The program serves requests about VMware Workstation or Fusion machines. Requests come in through a
REST server, a gRPC server, or both at once (`full` mode). Behind both is one object, `VmrunExe`,
which talks to VMware in two ways: the HTTP API of a `vmrest` process that the service starts and
kills, and the `vmrun` command.

| Component | State | Operations | How it meets the others |
|---|---|---|---|
| Virtual machine control, `service/vmrun.go` | three caches (by vmx, by uuid, by name) of shared `VirtualMachine` objects, a mutex | Create, Delete, PowerOn, PowerOff, ShutdownGuest, PowerState, Status, lookups, listing, autostart, network interfaces, waits | called by both front ends, on their goroutines; calls `vmrest` and `vmrun` |
| VMX files, `utils/vmx.go` | one file per machine, a map in memory per request | Load, Set, Delete, Cleanup, Save | read and written by `VmrunExe`, and by VMware and `vmrest` |
| REST router, `server/regexp_handler.go`, `vmrest_handler.go`, `vmware_handler.go` | `netLock` | one handler per route | takes `netLock` for the whole of a machine request, then calls `VmrunExe` |
| gRPC handlers, `server/grpc.go` | a count of requests | one method per operation | calls `VmrunExe` with no lock of its own |
| Server life cycle, `server/api.go`, `grpc.go`, `command/*_api.go`, `main.go` | `Halted`, `stopChan`, `HaltedChan`, `actionSync`, the tracker of requests | Start, Stop, drain, signals | starts the handlers, calls StartAutostartVM |
| vmrest supervision, `driver/vmrest.go` | credentials on disk, `command`, the `activity` channel | Init, Runner, runCommand, Active, Cleanup | every API call asks for the process; the shutdown kills it |
| Networks, `driver/vmrest.go`, `driver/extended.go` | the networking file of VMware | list, add, delete vmnets and forwards | only the listing is called, once, to probe `vmrest` at start |
| Driver selection, `driver/core.go`, `simple.go`, `advanced.go` | none after start | choose by license | at start |
| Polling and helpers, `utils/utils.go` | none | PollImmediate, JSON files | the waiting operations |
| Configuration, `command/core.go`, `settings` | a structure per command | flags, environment, file, defaults | at start, by each of the two servers for itself |
| Installation, `command/service_*.go` | the configuration file, the unit or job file, what systemd or launchd knows | install, uninstall, one-shot commands | writes what the service reads, has it started |
| Certificates, `utility/certificate.go`, `command/certificate_generate.go` | four files | generate, a one-shot command | the servers and their clients read the files |
| Errors, paths, versions | none | constants, formatting | everywhere |

What is hard here:

* Concurrency. The REST router serialises machine requests with `netLock`; gRPC does not, and the
  mutex of `VmrunExe` covers only the five operations that change a machine and the rebuilding of the caches.
  Cached machines are shared objects whose `Powered` field every lookup assigns.
* Other users. Guests halt by themselves, machines are removed and added with other tools, so a
  cache entry may be dead when it is used.
* Failure. Every external call may fail; a failure inside a name lookup looks like a free name.
* Crashes. Machines outlive the service, the caches do not. A vmx file is truncated before it is
  written. The one-shot commands write files that belong together one after the other, and the service
  may start in between.
* Shutdown. Handlers hold `netLock` while they wait for `vmrest`, which the shutdown kills. Listener,
  in-flight requests, unbuffered channels and signals meet in an order no test drives. The goroutines
  around the `vmrest` process share `v.command` without a lock.
* Waiting. A request that waits for a guest polls for up to its timeout, or for ever, and behind the
  REST router it holds `netLock` meanwhile; what it learns passes through a field of a shared object.

What makes each component correct:

* VmrunExe: a request behaves as if it were alone (`Atomic`); no running machine is deleted; a name
  is given once; a cached name never hides an existing machine; no two goroutines use a map at once;
  every request is answered.
* VMX files: no edit is lost, none is made from half a file, a new card never takes the place of
  another, Status lists every card, a crash or a full disk leaves a beginning of the newest version.
* Life cycle: a server halts only after the handlers that ran when it was told to stop have
  returned, the process does not end before that, and it does end.
* vmrest supervision: at most one process, which the shutdown finds, started again when it is needed;
  nobody blocks in Active; the credentials of the service and of `vmrest` agree whatever start
  crashed before.
* The process as a whole: the handlers, `netLock` and Runner do not wait for each other in a circle, so
  what the life cycle relies on, that handlers return, is so.
* Installation and certificates: whatever was cut short before, a command that reports success leaves
  files that belong together, the service manager never has a unit that is missing or cut off (with one
  exception, section 3), and the service uses what install decided on, unless that was a zero value.
* Waits: an answer is what this request found out while it waited, not what the shared field was left
  with; no machine is powered off under a wait; a wait with a limit ends, and with it the wait of the
  others for `netLock`.

## 2. Modules

| Module | Models |
|---|---|
| `VmService` | the abstract specification of machine control: requests, one step that decides each, answers |
| `Vmrun` | `VmrunExe` under its front ends, step by step |
| `VmrunRefinement` | the mapping from `Vmrun` to `VmService`, and the property `Atomic` |
| `MCVmrun` | values for TLC |
| `VmrunProofs` | theorems about `Vmrun` |
| `VmrunRefinementProofs` | the proof that `Vmrun` implements `VmService` |
| `VmxMap` | what a vmx file says and how it is edited and written; no state |
| `VmxSettings` | the abstract specification of one vmx file: one request at a time, whole edits that this request asks for, crashes and write errors |
| `VmxFile` | the requests that load, edit and save that file, step by step |
| `MCVmxFile` | values for TLC |
| `VmxFileProofs` | theorems about `VmxFile` |
| `FrontEnds` | the process around the handlers: start, stop, drain, halt, signals |
| `MCFrontEnds` | values for TLC |
| `FrontEndsProofs` | theorems about `FrontEnds` |
| `VmrestProcess` | the credentials of `vmrest` on disk, and the process that is started, reaped and killed |
| `MCVmrest` | values for TLC |
| `VmrestProofs` | theorems about `VmrestProcess` |
| `Waits` | WaitForIP, WaitForToolsRunning and PowerOff of one machine, polling |
| `MCWaits` | values for TLC |
| `WaitsProofs` | theorems about `Waits` |
| `Service` | the composition of `FrontEnds`, `VmrestProcess` and `netLock` |
| `MCService` | values for TLC |
| `ServiceProofs` | theorems about `Service` |
| `Configuration` | where the value of an option comes from; no state |
| `Certificates` | `certificate generate` and its four files |
| `Installation` | `service install` and `service uninstall` |
| `Deployment` | the composition of these three with a service that starts, reads what they have written, and ends |
| `MCDeployment` | the instance for TLC |
| `DeploymentProofs` | theorems about `Deployment` |

There are two compositions. `Service` extends `FrontEnds` and instantiates `VmrestProcess`: the
requests of the one are the callers of Active of the other. `Deployment` extends `Certificates` and
`Installation`. Nothing composes `Vmrun`, `VmxFile` and `Waits`: each has the part of the others that
it meets as a few actions of its own, `netLock` first of all.
`VmService` and `VmxSettings` are the abstract specifications that `Vmrun` and `VmxFile` are shown to
implement. `Service` is made of the actions of its two components, so that its behaviours are theirs
says nothing of the code: it is a lemma (`ServiceIsFrontEnds`), which carries theorems over.

### Vmrun

`live`, `vmname`, `running` are VMware's machines. `byuuid` and `byname` are `cachebyuuid` and
`cachebyname`; `cachebyvmx` is written along with them and never read by these operations, and is
left out. A machine structure is an object `<<u, g>>`; `powered` holds the objects whose `Powered`
field is true, so that two requests that share an object share its field. An object nothing refers
to is collected and may be built again, which keeps `Gens` small.
`todo` and `built` are the local variables of `registeredVM`.

A client is a goroutine of a request. Its `pc` moves through the calls of its handler:

| Label | Code |
|---|---|
| `net` | `netLock.Lock()` of the REST handlers |
| `mutex` | `v.Lock()` of Create, Delete, PowerOn, PowerOff, ShutdownGuest, and of `registeredVM` |
| `lookup`, `exists`, `evict`, `list`, `assign` | VirtualMachineByUUID, VirtualMachineByName, `cachedVM`: read the map, `stillExists`, `deleteCachedVM`, `isRunningVm`, assignment of `Powered` |
| `fetch`, `publish` | `findVM`, `fetchAndCacheVM`, `cacheVM` |
| `use` | the test of `found.Powered` |
| `delete`, `forget` | `client.DeleteVM`, `deleteCachedVM` |
| `start`, `stop`, `mark` | `vmrun start`, `vmrun stop`, assignment of `Powered` |
| `clone`, `prepare` | `client.CreateVM`, `prepareVM` |
| `getall`, `scan`, `collect` | ListVirtualMachines and `registeredVM` |

Two labels apart is a point at which any other goroutine may run. `Restart` is a crash of the
process followed by `StartAutostartVM` of the next one, after which requests are accepted again;
before that the process may end at a nil pointer, with some machines started (`AutostartPanics`).

The REST handler by name makes two lookups: VirtualMachineByName, and Status, which looks the machine
up by its identifier. The model has the first. To the caches and to `Powered` the second does what a
PowerState request of the same client does when it follows at once, which is among the behaviours of
the model; the error that Status may answer with instead (500) is left out.

Assumptions about the world: nobody but this service powers machines on, and nobody removes a
machine that runs (`GuestHalts`, `RemovedOutside`, `AddedOutside` are what others do). Accesses to
one map or field are atomic, and overlapping accesses to the maps are their own property,
`NoMapRace`. The variant of Create and Delete with `clonevm` is not modelled: nothing turns it on.
ToolsStatus, which only the waits decide on, is in `Waits`; the machine's path is data.

### VmxFile

`file` is the file on disk, abstracted in `VmxMap` to the autostart flag, whether there is a display
name, and the network cards; a card has a type and a device. Keys occur in one spelling, as VMware and
the service write them, so the two maps of `VMXMap` are one. `copy` is the map in memory of a request;
`Truncate` and `Write` are `Save`, which truncates the file and then writes the entries in the order of
their keys, in as many pieces as the buffer of `bufio.Writer` makes. An error of any of these writes is
dropped, and Save returns nil: the caller is told of success, and the file is the beginning of what was
to be written. `Restart` may come between any two pieces. `strayed` is history: ChangeNetworkInterface
has set up a card beyond a gap (`Strays`). `Count`, `CreateNICDevice` and `UpdateNICDevice` are the
calls to `vmrest`, which edits the same file; it gives a new card the first number that is free. A panic
of `prepareEthernet` (the index into `pcislotnumber`) is an outcome of `Load`: `net/http` recovers it
and the deferred unlock runs.

Until Create has answered nobody knows the new machine, so it is the only request on its file. What
VMware itself writes into the file of a running machine, and requests that reach `vmrest` through
the proxy, are not modelled.

### FrontEnds

| State | Code |
|---|---|
| `main`, `at` | the main goroutine: `NewVMRestDriver`, `Start`, `RegisterShutdownTask`, the receive from `HaltedChan`, each for the server `at`; `failed` and `halted` are its two exits |
| `signals` | the goroutine of `main.go`: before and after `signal.Notify`, in the receive, in `RunShutdownTasks`, past it |
| `tasks`, `todo`, `ran` | the shutdown tasks that are registered, and those to run and run |
| `socket`, `consumer`, `halted` | per server its listener, its `consume` goroutine and `Halted` |
| `conn`, `peer` | per connection: a request that has been sent, that `reqTracker` counts (`handling`), one whose handler has returned and whose answer is not written yet (`returned`), or none (`open`); the server |
| `counted` | history: what `reqTracker` held when Stop's notification was taken, and whose handler has not returned since |

An unbuffered channel is a joint step of the sender and the receiver: `Stop` with a waiting
consumer, `Halt` with the main goroutine. After the process has ended nothing moves.

`RunShutdownTasks` belongs to a library: it is taken to run the tasks it finds one by one, in any
order. `server.Stop` of gRPC closes the connections and leaves the handlers that run alone: answers
that are not written and requests that no handler has begun are lost (`Close`). `reqTracker.Done` is
deferred inside the handler, so it comes before the answer is written (`Return`, then `Deliver`), and
the process may end between the two: what a stop waits for is handlers, not answers.
`actionSync` is not modelled: Start and Stop of one server are called once each, one after the
other. Handlers are `Send`, `RequestHandler`, `Return` here; `Service` has what they wait for, and
`Vmrun` what they do. `RegisterCleanup` is the part of NewVmrestDriver that
registers the task that kills `vmrest`; a fallback driver is built without it. That task may panic
(`Panic`).

### Service

| State | Code |
|---|---|
| `driver` | `main` of `VmrestProcess`: NewVmrestDriver, and whether the process still asks for `vmrest` |
| `netLock` | the connection whose handler holds it |
| `stage` | per connection, its handler: a request about a machine or for the proxy before `netLock.Lock()`, in Active (`active`, `asking`), and with nothing left to wait for (`return`) |

The other variables are those of the two components. A step of the service is a step of either, or of
both where they meet: `InitVmrest` registers the Cleanup, `RunCleanup` is the first half of that shutdown
task and `KillVmrest` the second, which may panic and so end the process (`Panic`); the next task waits
for it (`StopServer`). `Ask` is a handler that sends to the channel of Runner, `Take` Runner's receive.
A REST handler that works on a machine holds `netLock` for a while, and that is all of it here.

VmwareInfo succeeds, the user gives no URL of a `vmrest`, and Init has its credentials: otherwise there
is no `vmrest` to supervise. Waits with a timeout of zero, which keep `netLock` for ever, are in `Waits`.

### Deployment

| State | Code |
|---|---|
| `disk`, `cut` | per file of GetCertificatePaths the generation of its contents, and the files that have been created and not written to their end |
| `generation` | the keys that GenerateCertificate has drawn so far |
| `phase`, `place` | GenerateCertificate: the removal of the files, the drawing of the keys, creating and encoding each file; `done` when `certificate generate` has answered |
| `platform`, `option` | systemd or launchd; the option that is followed |
| `config`, `decided` | `service.hcl` or `config.hcl`; history: what the install that wrote it had decided on |
| `unit`, `managed` | the unit or job file; whether systemd has it enabled, or launchd has loaded it |
| `misled` | history: `systemctl is-enabled` has failed on a unit that was enabled, and nothing has enabled or disabled it since |
| `command`, `at` | the command that runs, and the step of `InstallSteps` or `UninstallSteps` it is at |
| `step`, `server` | the start of the service: per server the configuration, the certificate, the key, the CA of the clients |
| `used`, `pair`, `pool` | what each server uses: the value of the option, the generation of its certificate, and of its CA |
| `touched` | history: what has been changed since the service was started |

An error and a crash end a command in any step and leave what is on disk. The commands are typed into
one shell, or run by `install.sh`, one at a time; the service starts and ends at any moment. Values of
options are tokens: what matters is whether a value is given, is zero, is the default, or is no number.
The options are one of each kind, `address`, `port`, `debug` and `level`, and a behaviour follows one of
them. X.509 is taken at its word: a certificate is accepted by the CA of its generation. `systemctl` and
`launchctl` may do their work and fail after all. A configuration that has been cut off is refused or
lacks the option.

### VmrestProcess

| State | Code |
|---|---|
| `cfg`, `stored` | `.vmrestCfg`, which `vmrest` reads, and `desktop-autoscaler-utility.cfg`, which the service reads; `"empty"` between creation or truncation and the write |
| `mine` | the credentials in memory |
| `main` | the main goroutine: `look` to `write` are the steps of Init, `probe` and `answer` the listing of networks in NewVmrestDriver |
| `runner`, `asking` | the goroutine Runner; who is blocked on the unbuffered channel `activity` |
| `command`, `alive`, `reapers` | `v.command`, the processes that run, and the goroutines in `Wait` |
| `shutdown` | Cleanup: it tests `v.command` and uses it in two steps, as it takes no lock |
| `quiet`, `failed` | history: nobody asked since Cleanup began; a start has failed |

`Crash` and a failed probe (`Gone`) end the service in any step and leave its two files. A `vmrest`
that outlives the service then is not counted any more: `alive` has what this process
started. The user does what the warning of Init asks for, no more (`RemoveConfig`), and one service
uses the files. With a URL of a `vmrest` of the user none of this runs. The random strings are taken
to be any pair of `Creds`; ports and the check of the version are data.

### Waits

`guest` is how far the guest has come. `toolsStatus` is the field ToolsStatus of the object in the
cache, which every request on the machine shares. `left` counts the intervals of `PollImmediate`; 0 is
no limit, as in the code. `Looking` are the labels of VirtualMachineByUUID, which ends in
vmwareToolsStatus (`AskTools`, `StoreToolsStatus`), `Polling` those of a round: WaitForIP asks
`vmrest` (`query`) and then `vmrun` (`check`), WaitForToolsRunning calls vmwareToolsStatus (`query`,
`store`) and reads the field back (`read`). `ran` is history. Any external call may fail or say nothing.
The races of the field Powered are those of `Vmrun`; here the test follows its assignment at
once. PowerOff's mutex is left out, as one request is past `netLock` at a time.

## 3. Runs

All bounds are in the configurations. Two concurrent requests are enough for every race named
below: each property speaks of one request and of what another does meanwhile.

| Run | Configuration | Question and answer |
|---|---|---|
| `vmrun_rest` | `MCVmrunRest.cfg` | Two REST requests of any kind, three machines, two names, one autostart machine, restarts. No operation decides on a power state another one changed, no running machine is deleted, names stay unique, the name cache agrees with VMware, the maps are not used concurrently. |
| `vmrun_atomic` | `MCVmrunAtomic.cfg` | The same with two machines: `Vmrun` implements `VmService`. |
| `vmrun_full` | `MCVmrunFull.cfg` | One REST and one gRPC request, failing external calls, a start that panics, machines added by others: mutations do not overlap, no running machine is deleted as long as nobody asks for a power state (against `grpc_delete_race`), and every request is answered. |
| `vmx_rest` | `MCVmxFileRest.cfg` | Two REST requests on one file with two cards and two PCI slots, any card number, disks that are full: no edit is lost, Status lists every card until a request has made a gap, `VmxFile` implements `VmxSettings`, and every edit ends, also after a handler has panicked with `netLock` held. |
| `service` | `MCService.cfg` | The three modes, two connections that may go to either server (one in full mode), a `vmrest` that dies and whose start may fail, signals at any time: every handler returns, a server that halts has drained, a process with one server ends only after that, it ends once the server it waits for has been told to stop, and it leaves no `vmrest` that nobody asked for. |
| `deployment` | `MCDeployment.cfg` | The three commands in any order, cut short in any step, on both platforms, and a service that starts in between: the invariants of section 1 on certificates, units and options. |
| `full_mode_exit` | `MCFrontEndsFull.cfg` | Full mode: `EndDrainsAll` is violated (below). |
| `vmrest_process` | `MCVmrest.cfg` | Starts that crash in any step of Init, two callers, a `vmrest` that dies and whose start may fail, a shutdown at any time: the credentials agree, one `vmrest` at most runs and Cleanup finds it, nobody blocks in Active, and `vmrest` comes back on demand. |
| `waits` | `MCWaits.cfg` | Two REST requests that wait or power off, while the guest boots and halts: answers are news, no power-off under a wait, and only a wait without a limit blocks. |
| `grpc_delete_race` | `MCVmrunGrpcDelete.cfg` | Two gRPC requests: `DeletesOnlyStopped` is violated (below). |
| `name_lookup_fault` | `MCVmrunNames.cfg` | One REST request and one failing call: `UniqueNames` is violated (below). |
| `stale_name` | `MCVmrunStaleName.cfg` | One REST request, machines added by hand: `NotFoundMeansNone` is violated (below). |

Bounds: `Gens` is 1..4, more structures of one machine than two requests, two maps and a rebuild can
refer to at once; the runs would stop at `Fetch` if it were too small, and it is never the limit.
`MaxNics` and `Slots` are 2 in place of VMware's ten and the five entries of `pcislotnumber`: a card can
be added beside one that is there, one can be changed beyond a gap, and a third, and number 0, have no
slot, so that the handler panics. `MCService.cfg` has two connections, which contend for `netLock` and
for Runner, and one when both servers run (`Clients`); its one pid is used again and again, since at
most one `vmrest` runs. `MCDeployment.cfg` draws keys twice: what a run leaves behind meets the next
one. `MCVmrest.cfg` has two pairs of credentials, so that a wrong pair exists, and two pids: a process
that is being reaped and its successor. `MCWaits.cfg` has the timeouts 0 and 2: a first round, which
polls at once, and one after an interval. Symmetry is used for clients, and for names, in runs without
liveness.

Fairness (`FairSpec`): external calls return and the scheduler runs every goroutine, so the steps
past the locks are weakly fair; a Go mutex in starvation mode is handed to the longest waiter, so
`AcquireNet` and `AcquireMutex` are strongly fair. Requests need not arrive, guests need not halt,
and the process need not crash: those actions have no fairness.

`Service`: the goroutines of the process run, so the steps of the main goroutine, of main.go's, of the
consumers, of Runner and of each handler are weakly fair. `AcquireNet` and `Take` are strongly fair, as
a lock and a channel serve who waits in turn. That handlers return is not assumed: `EveryHandlerReturns`
shows it. `Deliver` has no fairness: nobody waits for an answer to be written. Callers, the user, and
the death and the reaping of `vmrest` have no fairness. `reqTracker.Wait` is weakly fair only: callers
who keep sending requests on connections that are open can keep the REST server from draining, and
`StopEnds` has this way out.

`VmrestProcess`: `Take` is strongly fair, since the channel serves blocked senders in their order;
Runner and the reapers are goroutines that run. Callers, deaths, crashes and the shutdown have no fairness.
`StartedOnDemand` is about a service that is asked again and again.

`Waits`: as in `Vmrun`. The steps of a request are weakly fair, since external calls return and timers
fire. The guest need not do anything, so a wait without a limit may be for ever, and
`OnlyUnlimitedWaitsBlock` has this one way out: that from some time on such a wait goes on.

### Disagreements with the code

* `grpc_delete_race`: PowerState runs `cachedVM` without the mutex and assigns the shared `Powered`
  field. If it listed the machine before it was started, it resets the field between Delete's
  own listing and its test, and `client.DeleteVM` is called for a running machine
  (`src/service/vmrun.go:196`, `:617`).
* `name_lookup_fault`: Create takes any error of the name lookup for "not found" and clones a second
  machine of the same name (`src/service/vmrun.go:561`).
* `stale_name`: a dead entry of `cachebyname` makes VirtualMachineByName answer "not found" for a
  name that another machine has (`src/service/vmrun.go:1012`).

* `full_mode_exit`: the log of the consumer promises to "wait for inflight requests to complete"
  (`src/server/api.go:156`); in full mode the main goroutine receives only from the gRPC server's
  `HaltedChan` (`src/command/grpc_api.go:166`), and the process ends while the REST server handles
  requests.

More, in machine control, the vmx files and the life cycle, are known and have no line in the repository
that they contradict. With a gRPC client in `MCVmxFileRest.cfg` (`RestClients = {c1}`), TLC finds
`LoadedIsCurrent` violated: SetAutoStart takes no lock there, so it may lose an edit or save half a
file. One ChangeNetworkInterface of a card that need not exist leaves a gap, before which Status stops
and at which the next AddNetworkInterface, which counts cards, may overwrite one:
`StatusReportsAllCards` and `WholeVersions` say what holds until that has happened (`strayed`,
`Contiguous`). A Save on a disk that is full answers with success and leaves a beginning of the file
(`vmx.go:136`); `WholeVersions` has this as `WriteError`, beside the crash. A signal that arrives
between `signal.Notify` and `RegisterShutdownTask` runs no task, or not all of them, and later signals
are not received: `StopEnds` speaks of the process once the task has run. An answer whose handler has
returned may be cut off by the end of the process, and gRPC's `Stop` drops those in flight
(`api.go:166`, `grpc.go:215`). A failure of GetVMParams for a machine that is off ends the service while
it starts (`vmrun.go:954`).

In the supervision of `vmrest` and in the waits, these are known and contradict no line either:

* If the user removes `.vmrestCfg` while the service has old credentials stored, and the next start
  crashes between `configure` and `StoreJsonToFile`, every later start uses credentials that `vmrest`
  refuses. `RemoveConfig` excludes it: Init recommends the removal only when nothing is stored.
* A start of `vmrest` that fails leaves `v.command` set and is never repeated (`failed` in
  `StartedOnDemand`). Requests that are drained after Cleanup start another `vmrest`, which outlives
  the service (`quiet` in `NothingLeft`). Cleanup may find `v.command` nil, or without a Process, when
  it uses it: the program panics (`Kill`).
* The machine requests of `VmrunExe` use a client that does not call Active, so a `vmrest` that
  has died is started again only by requests of the driver, which are those of the proxy.
* A timeout of zero, or one that is not a number, waits for ever and keeps `netLock`.
* With gRPC clients `RunningIsNews` and `WaitsUndisturbed` do not hold: two waits share the field, and
  gRPC's power-offs do not wait for anybody's `netLock`.

In the deployment, these are known and contradict no line either; the first six are behaviours of
`Deployment` that its invariants say nothing against, or name as an exception:

* On Linux install writes the configuration before it looks whether the service exists
  (`service_linux.go:119`, `:140`): an install that is refused has replaced it, or cut it off, under a
  service that will use it at its next start. `ConfigurationKept` speaks of the install that wrote the
  file, and not of a zero value, which writeConfig leaves out, so that the servers use the default.
* An install that fails in `systemctl enable` or `start` leaves the unit, so the next one is refused
  with "service is already installed" until the user has run uninstall.
* Uninstall takes any error of `is-enabled` for "not enabled", removes the unit and leaves the link, and
  reports success: the exception of `ManagedIsWhole` and `UninstallClears` (`misled`). It does not stop
  the service that runs.
* `certificate generate` takes four files that exist for a set. The order of removal and creation makes this
  safe but for the last file: a client key that was cut off by a crash stays (`certificate_generate.go:76`).
* A service that runs while certificates are generated keeps the old ones, and one that starts meanwhile
  may have a certificate of one generation and a CA of the next (`touched` in `ClientsAccepted`).
* A configuration that is empty is accepted, and means the defaults.
* A flag given as empty or false counts as not given, except a number; a truth variable set to `false` means
  true (`core.go:207`). `-init-style` is looked up under the name `init`, so a variable or the file
  outranks it. `-port 0` decides an install and is not kept.
* The unit of a user asks for `multi-user.target`, which the user's systemd does not have, and
  `Restart=on-abort` does not restart after an exit with an error.

## 4. Proofs

TLAPS checks these for any number of clients, machines, names, cards and slots.

`VmrunProofs`:

* `TypeCorrect`: `Spec => [](TypeOK /\ NoNilPointer)`. The invariant `TypeInv` is `TypeOK` with two
  facts that make it inductive: the machine pointer is set at every label that dereferences it, and an
  operation that looks a name up has one.
* `MutationsExclude`: `Spec => []OneMutationAtATime`, for any mix of front ends. `MutexInv` says that
  who is past the mutex, or is rebuilding the maps, holds it.
* `LookupsFindTheName`: a lookup by name has a machine of that name, whatever the caches hold, with
  no assumption. `LabelInv` adds that every entry of `cachebyname` points to a machine of its key
  (`KeyNames`), also in the map that a rebuild is about to publish (`BuiltNames`), and that a
  structure keeps its name as long as anything refers to it.

The others assume `Sequential`: `RestClients = Clients`, all requests come in through REST, or `Ops \cap
Unlocked = {}`, there are no queries (PowerState, ByName), which are what reads the caches without the
mutex. Each makes requests come one at a time, and `AloneInv` says so: who is `Inside`, past the locks,
is alone. This is weaker than REST only, and shows that the queries are what `grpc_delete_race` takes.

* `RestNoMapRace` needs REST: without it a List reads the map (`collect`) after the mutex has been unlocked.
* `DecidesOnItsOwnListing`, `DeletesStoppedMachines`: `KeysInv` (a pointer in `cachebyuuid` is to
  a machine of that key) and `Knows(c)`, what a request has established about its machine at each
  label. `Knows` is needed because the properties alone do not say why the field still has the
  value that was assigned.
* `NamesAreUnique`, `NoEntryHidesAMachine`, `NotFoundIsTrue`: also `~ Faults` and `~ Additions`, as
  `name_lookup_fault` and `stale_name` show that each is needed. `NamesInv` has, besides the first two:
  that every machine has a name (`Named`); that an entry is to the machine that bears its key, or to one
  that has gone and whose name nobody bears (`NameKeys`); the same of the structures that a rebuild has
  collected (`ScanInv`); and what a lookup by name has excluded at each label on its way to the clone
  (`KnowsName`): before `clone` the name is borne by nobody. Without `KnowsName` uniqueness is not
  inductive, as nothing relates the clone to the lookup that decided on it.

`VmrunRefinementProofs`:

* `RequestsAreAtomic`: `Spec => Atomic`, assuming `Sequential` and `Undisturbed`, which is that there
  are neither faults nor additions, or that there are faults and no Create. A step by one client touches
  the abstract request and answer of that client only (`OthersSame`); most of its steps map to a stutter
  (`Silent`); the others decide the request (`Decides`) or answer it (`Answers`), and there is one lemma
  for each kind: `ListingMaps`, `MissedMaps`, `FailedMaps`, `LookupMaps`, `CommandMaps`, `CreateMaps`,
  `ListMaps`, `ArrivalMaps`, `WorldMaps`. The invariants above say why the answer is the one the
  abstract state gives at that instant: the listing is the request's own, and a name that was not found
  is free.

`VmxFileProofs`, assuming that all requests come in through REST:

* `Invariance`: `Spec => []Inv`. `Inv` has five parts: `TypeInv`; `LockInv` (who is past `netLock` holds
  it); `CreateInv` (before Create has answered it is alone); `VersionInv` (the version, which is what
  Save writes while it writes and the file otherwise, has no gap among its cards unless `strayed`, and
  what is on disk during Save is a beginning of it); `CardInv` (the number a request has in hand is that
  of a card, or the first free one). The last is what excludes that a card is overwritten: it rests on
  `CountIsFree`, that without gaps the number of cards is the first free number, which is proved from
  the cardinality of intervals.
* `TypeCorrect`, `NoEditLost`, `AllCardsReported`: the invariants of `vmx_rest`.
* `FileRefinesSettings`: `Spec => WholeVersions`, the refinement that the run checks for two cards:
  whole edits, and of an edit the beginning only after a crash or a write error.

`FrontEndsProofs`:

* `TypeCorrect` and `HaltedHasDrained`: `Spec => []TypeOK` and `Spec => []DrainedBeforeHalt`, in every
  mode. `CountInv` says that what was counted at the stop is still counted until its handler returns, and
  that there is nothing of the kind before the stop and after the halt; `StageInv` that a server
  is started once, without which a second Start would forget what the first had counted.
* `OneServerEndDrains`: `Spec => []EndDrains`, the handlers that ran at the stop have returned before
  the process ends, outside full mode. `EndInv` says that the process ends with the server it waits for,
  and that the other was never started.

`ServiceProofs`, for any number of connections and pids:

* `ServiceDrains`: the theorems of `FrontEndsProofs` hold of the process with handlers that wait, by the
  lemma `ServiceIsFrontEnds`.
* `ServiceTypeCorrect`: `ServiceSpec => []ServiceTypeOK`. `HandlerOK` says that a handler that waits is
  one of a request that is being handled, and which of them holds `netLock`.
* `ServiceLeavesNone`, `ServiceRunsOneVmrest`: `ServiceSpec => []VmrestGone`, and the same of
  `OnlyCommandRuns` of `VmrestProcess`. `VmrestOK` carries the arguments of `QuietShutdown` and `OneVmrest`
  over to a process whose callers are handlers.

`DeploymentProofs`, for any number of generations:

* `GeneratedIsUsable`: `Spec => []PathsUsable`. The invariant says how far a run has come
  (`Progress`), and, whatever run was cut short (`OneGeneration`), that the files there
  are of one generation and that after a file that is cut off there is none. That the files are all removed
  before the first is written is what makes it inductive.
* `SameFilesTrust`: `Spec => []ClientsAccepted`, from the same, with `Untouched`: what a server has read
  is what is on disk, unless it was touched, and a CA is read after a certificate (`PairFirst`).
* `InstallIsWhole`, `UninstallLeavesNothing`: `Spec => []ManagedIsWhole` and `Spec => []UninstallClears`,
  from `UnitInv`: what a command has found out or done
  about the unit and the service manager at each of its steps, on either platform. Both have the exception
  of `misled` in what they state.
* `DecisionIsServed`: `Spec => []ConfigurationKept`. The lemma `KeptIsServed` is the fact about
  `Configuration` it rests on: what is served from what is kept is what was decided, for every kind of
  option and every value but zero.
* `TypeCorrect`: the type invariant.

`VmrestProofs`, for any number of callers, credentials and pids:

* `TypeCorrect`: `Spec => []TypeOK`, with the fact that Runner runs while somebody may ask.
* `CredentialsSurviveCrashes`: `Spec => []CredentialsAgree`. `CredInv` says what both files hold at each
  step of Init; its core is that whenever credentials are stored they are the ones of `cfg`, which holds
  because `vmrest` is configured first.
* `OneVmrest`: `Spec => []OnlyCommandRuns`. `ProcessInv` says that a process is only started when there
  is none, which rests on the reaper clearing the command after the death only.
* `QuietShutdown`: `Spec => []NothingLeft`. `QuietInv` follows Runner, the command and the processes
  from Cleanup on if nobody asks.

`WaitsProofs`, assuming that all requests come in through REST, for any timeouts:

* `TypeCorrect`, `RunningIsFoundOut`, `PowerOffWaits`: the type invariant, `RunningIsNews` and the action
  property `WaitsUndisturbed`. `LockInv` says that who is past `netLock` holds it; `KnowsInv` that what
  a request has seen it saw during its own time, and that the field it reads is what it has just stored.

Every invariant, action property and refinement that a passing run checks is stated by one of these
theorems. Only model-checked are the liveness properties (`EveryRequestAnswered`, `EveryEditEnds`,
`EveryActiveReturns`, `StartedOnDemand`, `OnlyUnlimitedWaitsBlock`, `StopEnds`,
`EveryHandlerReturns`), which rest on fairness and ENABLED, out of the prover's reach.

## 5. Not modelled, and the plan

Not modelled so far: see the components of `PROJECT.json` with status `not_modelled`. In this order:

1. The `clonevm` variant of Create and Delete in `Vmrun`: the clone with `vmrun`, the edit of the vmx
   file and the growth of the disk, and `deleteVM` after the cache has been cleared. Nothing turns it on
   today; it is there to be.
2. Proofs: what `VmService` promises whatever implements it, carried over by `RequestsAreAtomic`; the
   deadlock freedom of the locks as an invariant.
3. The service wrapper of Windows, whose handler of the service manager is another source of Stop.

Outside the plan: networks and port forwarding, which nothing in the service calls; driver selection,
error types, paths and versions, which have no state of their own.
