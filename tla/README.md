# TLA+ models of novm

novm runs one virtual machine per process (`novmm`, Go and C on top of KVM), an
agent inside the guest (`noguest`) and a Python manager (`novm`). These modules
model the parts of it in which several threads meet or that a restart has to
put together again: pausing vcpus and devices, the virtqueues, the dispatch of
I/O, interrupts, the memory map, saving and restarting, the file server and the
agent in the guest. Paths below are relative to the repository.

## 1. Inventory

| Part | State | Operations | Meets |
|---|---|---|---|
| Vcpu run loop (`src/novmm/platform/kvm_run.go`, `kvm_run.c`, `loop.go`) | `is_running`, `is_paused`, `paused`; in C `running`, `cancel`, `tid`; two condition variables | `Run`, `Pause`, `Unpause`, `kvm_run`, `kvm_run_interrupt`, `Loop` | one OS thread per vcpu, any number of RPC goroutines, the restart path, signals |
| Register cache (`kvm_x86.go`, `x86.go`) | registers, `regs_cached`, `regs_dirty` | `refreshRegs`, `flushAllRegs`, `GetRegisters`, `SetRegisters` | vcpu thread, tracer, callers that hold a pause |
| Device pause (`machine/device.go`) | `is_paused`, `paused`, `pause_lock`, `run_lock` | `Pause`, `Unpause`, `Acquire`, `Release` | RPC goroutines, `Model.DeviceInfo`, every goroutine of the device |
| I/O handlers (`machine/io.go`, `entry.go`) | one goroutine and unbuffered queue per region | `Submit`, `Run` | vcpus block in `Submit`; handlers take the device's `run_lock` |
| Virtqueues (`machine/virtio.go`, `virtio.c`) | rings in guest memory, `Consumed`, `Outstanding`, `pending`, three channels | notify write, `ProcessIncoming`, `ProcessOutgoing`, `remap`, `start` | the guest's driver, a handler, two workers, the device's goroutines, pauses |
| Whole-VM pause, save, restart (`platform/kvm.go`, `state.go`, `control/state.go`, `machine/model.go`, `machine/state.go`, `main.go`) | the vcpus and devices, the state file | `Vm.Pause`, `Model.Pause`, `SaveState`, `restart`, `Reload` | all of the above |
| I/O dispatch (`machine/cache.go`, `eventfd.go`, `platform/kvm_eventfd.go`) | handler cache, hit counts, bound event fds | `lookup`, `save`, the event goroutine | all vcpus, without a lock |
| Memory map (`machine/memory.go`, `user.go`) | sorted regions, allocated chunks | `Reserve`, `Map`, `Allocate`, `Load` | devices at attach, the loader |
| PCI and MSI-X (`machine/pci.go`, `msix.go`) | config space, BARs, vector table | register reads and writes, `SendInterrupt` | handlers, virtio workers |
| plan9 server (`plan9/`) | fids, files with reference counts, LRU of open descriptors, outstanding tags | one goroutine per request: attach, walk, open, create, read, write, clunk, remove, stat, flush | virtio-fs, other requests, LRU goroutines |
| Control (`control/`) | guest connection, `client_res` barrier | accept, `init`, `Ready`, RPCs | main's signal loop, guest agent |
| Guest agent (`src/noguest/`) | process table, `waiting` | `Start`, `Read`, `Write`, `Wait`, reaping, `clearStale` | children, RPC goroutines |
| Manager (`novm/`) | directories of JSON records, child processes | create, list, clean, control | concurrent commands |
| Loader, tracer, KVM wrappers, ACPI, BIOS, clock, RTC, UART | little | straight-line set-up, single ioctls, small register machines | - |

What is hard in it: pausing is a hand-over between a Go mutex, a C mutex, a
signal mask and KVM; internal pauses nest and overlap with manual ones; vcpus
block inside devices, so the order of pausing matters; notifications are
suppressed by three different mechanisms at once; a restart saves state of
goroutines that go on running; the file server has three levels of locks.

What makes the parts correct:

* a vcpu or device on which an internal pause is held does nothing, whatever
  other callers do; it resumes when, and only when, every pause is undone;
* a pause succeeds although guest and vcpus never stop by themselves;
* what is read while a pause is held is the current state;
* every buffer the driver posts is processed once and comes back, across
  suppressed notifications, wrapped counters and pauses;
* what is saved of a paused device describes it completely;
* a File and a fid of the 9p server live exactly as long as somebody refers to
  them, whatever fails on the way, and every request is answered;
* an access reaches the handler that decodes its address, while addresses move
  and hot writes turn into event fds; an interrupt is delivered or pending;
* regions of guest memory stay apart, and a new process finds each page of the
  guest, each vcpu and each device as the old one saved it;
* an exit code is that of the process it is given for, and who waits is told.

`PROJECT.json` lists the places where each can go wrong ("hazards").

## 2. Modules

| Module | Models |
|---|---|
| `PauseGate` | abstract: what a pause protocol promises. Executing and being held exclude each other |
| `VcpuRun` | run loop, pause, unpause, interrupt and register cache of one vcpu |
| `VcpuRunProofs` | its invariants and its refinement of `PauseGate`, proved |
| `DevicePause` | `BaseDevice.Pause` / `Unpause` / `Acquire` / `Release` and the `IoHandler` loop |
| `VirtioQueue` | one virtqueue with driver, handler, both workers, device goroutines, pauses and reset |
| `VirtioQueueProofs` | wakeups and buffers are not lost, proved |
| `Plan9Fids` | concurrent 9p requests on the fid pool and the map of Files, both reference counted |
| `Plan9FidsProofs` | both counts are exact and no entry is left, proved |
| `IoDispatch` | accesses of vcpus through the handler cache, event fds for hot writes, BARs that the guest moves |
| `IoDispatchProofs` | the cache is coherent and the registers of devices that are not torn decode, proved |
| `MemoryMap` | reservations, the layout of user memory over its file, what the loader puts there, the restart |
| `MemoryMapProofs` | regions and chunks stay apart, the file is laid out in full, a restart keeps memory, proved |
| `MsiX` | the vector table, its pending bits and `SendInterrupt`, with concurrent workers |
| `DeviceProofs` | of `DevicePause` as of `VcpuRun`; of `MsiX` that interrupts are lost or delayed in the named ways only; proved |
| `VcpuState` | operators: what each Get reads of a vcpu or of a chip in the kernel, and each Set writes |
| `SaveRestore` | several vcpus and devices together: State, Reload, Device calls and the restart |
| `SaveRestoreProofs` | what is saved is one machine and a restart brings it back, but for named late changes; proved |
| `GuestAgent` | a connection that runs a command, and the agent that starts, reaps and waits for it |
| `GuestAgentProofs` | exit codes are true and the handshake is kept, proved |
| `MC*` | instances for TLC |

`SaveRestore` extends `VcpuState` and takes one vcpu and one device in the coarser
form that `VcpuRun` and `DevicePause` implement: a vcpu with a count runs until it
parks, a device's lock is waited for with `pause_lock` held. The other modules stand
alone: `IoDispatch` ends where a handler is given the request, which is where
`DevicePause` begins; a notification that arrives there is `NotifyWrite` of
`VirtioQueue`; the interrupt that ends a buffer is `Interrupt` of `MsiX`.

### VcpuRun

`vcpu` is the program counter of the vcpu thread; one action per critical
section: `FlushAllRegs`, `RunPark` / `RunGo` (the check under `RunInfo.lock`),
`KvmRunEnter` and `KvmRunLeave` (the two sections under `info->lock`),
`GuestInterrupted` / `GuestReturns`, `HandleExit` (`Loop`). `call[c]` is where
caller `c` is in `Pause`. `pause_event.Wait` returns in two steps (woken by the
broadcast, then the lock is taken again), because others may run in between;
so does `resume_event.Wait`. `Pause` takes `info->lock` inside `RunInfo.lock`, and
no thread takes them the other way round, so the two sections form one action.
`KVM_RUN` is external: it returns when the signal is pending, or for any reason
of its own. The C function `kvm_run_interrupt` has no `return`; what Pause reads
is a choice from `InterruptResults`.

The registers are one value (the cache is filled, flushed and checked as a
whole for the general and, in the same way, the special registers): not cached,
equal to KVM's, modified, or older than the guest's last run. `GetRegisters` and `SetRegisters` ignore
the error of their `Pause`, so they may run while the vcpu does; the KVM ioctls
they need wait for `KVM_RUN` to return.

`Callers`, `ManualOps`, `VcpuMayEnd` and `InterruptResults` are constants; the
proofs hold for every value.

### DevicePause

`pause_lock` is held for the whole of `Pause` including the wait for `run_lock`, so
it is the one caller that waits (or nobody). `writer` is the write side of
`run_lock`; its readers are the handlers between `Acquire` and `Release`. A
waiting writer keeps new readers out, as Go's RWMutex does. A vcpu is the
request it has submitted: it waits for the handler's reply. The reply comes
before `Release`, and is an action of its own. `MaxPaused` bounds the internal count, which
the code itself lets grow (see findings).

### VirtioQueue

Buffers are indices of descriptors, rings are functions from slots, counters
count modulo `CounterMod` (2^16 in the code), which is a multiple of `QueueSize`,
as in `start()`, and more than it. The driver (external) posts a buffer, then decides
whether to notify, by `avail_event` if it negotiated event indices and by
`used->flags` if not, and takes buffers back. `ProcessIncoming` is split at every
point where another thread can see a difference: receive, acquire and reset of
`pending`, look at `avail->idx`, take (flags, event, ring entry, `Consumed`, `Outstanding`),
send. vring_get_buf reads `avail->idx` twice; the index only grows, so one read
at the time of the second (or of the first, if there is nothing) stands for
both. `ProcessOutgoing` is split between `used->idx` and the update of `Outstanding`.
The model is sequentially consistent: between the store to `avail_event` and the next
look at `avail->idx` the code sends on a channel, which is a full barrier on x86.
`run_lock` is DevicePause seen from the workers. The interrupt that follows a put is not
modelled yet.

### Plan9Fids

`rq[t]` is the request with tag `t`: which operation, on which fid, where it is
(`pc`), the File references in its local variables (`held`, a stack because
`makeTree` calls `create` on the parent, and so on up to the root) and the
`File.DecRef` under way (`drop`, `then`). `Start` is `Handle` up to and with `GetFid`, `Finish`
and `ReapFid` are the deferred `Fid.DecRef`, `Drop` and `Reap` are `File.DecRef`
before and under `filesLock`, `Seek` and `Insert` are `lookup` under the read and the
write lock. `filesLock` is held across actions only by the lookup that loses its
race, and then for ever. `File.DecRef` deletes the entry of the path it is given, whatever File is there.

The disk is left open: each lookup, `exists()`, system call and packing of an answer may go either
way. `read` stands for every request that only pins its fid, and for directory
reads, which look up the children. Assumed of the client (external): it uses no
fid it has clunked, sends nothing else on a fid that an outstanding request rewrites
(create, walk in place), and does not remove the root. Also assumed: the root
exists in the write layer. Left out: rename through `wstat`, the mutex of a
File, and the error of `makeTree` in `File.remove`, which ends the process (it unlocks
twice). A File object nothing refers to is used again, which stands for
garbage collection; when `Files` is used up a lookup of a new path can only fail.

### IoDispatch

A vcpu is the access it is at: `Lookup` reads `model.mmio_cache`, `Count` is the rest of
`lookup` in the maps of that cache (the cache of the moment may be another one by
then), `Submit` reads `mmio_cache` again, the one that `save` will look at, `Perform` is the
handler, `Save` the binding of an event fd after it. The hits in a cache that was replaced
meanwhile may have been counted on by other vcpus, so `HitsHeld` leaves them open upwards.
`Signal` is an access that KVM gives to an event fd without an exit; `Wait` and `Serve` are the
goroutine behind it. Two vcpus in the maps at once may end the process (`MapRace`: Go detects
concurrent map writes, sometimes). A second binding of the same address and value
fails, and its vcpu's loop ends. Bindings stay with the handler they were made for when its
BAR moves.

The two configuration ports have handlers of their own. The data port's goes through
`ConfWrite` (the check that there is a device), `ConfSet` (`Config.Write`), `RebuildBars` and
`Flush`; the address port's, `SelectLast`, may come between any two of them, and each step takes
`PciBus.last` as it is by then, as the code does. So a rebuild may go to another device than
the one written to, which the ghost `torn` records until that device is rebuilt itself, and a
`last` that has become nil ends the process (`NilLast`). The guest may write any of `BarValues`, also
so that BARs overlap: the first device wins, as in `lookup`. The ghost `owed` holds the
devices that were notified and have not been told; what the guest sends to an address that a
rebuild takes away is not owed any more.

### MemoryMap

Addresses count modulo `AddrMod` (2^64 in the code) and a page is `PageSize` of them. The
map is a set of regions; `Nth` gives the order that `Add` keeps. A device before or
after the user memory makes a reservation that may fail, which ends the process.
`Reload` and `Layout` go through the map as `user.go` does, by index, with the
regions that they add themselves. `ElfLoad`, `LoadBottom` and `LoadTop` are the kernel, the
command line and set-up data, and the initrd, in LoadLinux's order. `Restart` forgets
everything but `Allocated` and goes through the same again.

### MsiX

Pending bits lie `ByteBits` to a byte, and a byte is read and written in two steps
(`Get8`, then `SetPending` or `ClearPending`). Workers are the goroutines that complete
buffers; `Table` and `Conf` are the handlers of the table and of the capability.
`clobbered`, `late` and `stranded` record the three known ways to lose or delay an
interrupt, so that the invariants can say that there is no fourth. The mask that is
looked at is that of entry vector / 8, as in the code.

### VcpuState and SaveRestore

What KVM holds of a vcpu is a record with one field for each Get / Set pair; lossy
conversions are kept (an MP state without a name cannot be marshalled, the interrupt
shadow is read only with an injected interrupt, a nil local APIC sets nothing).
A saver goes through the vcpus and devices one by one; each pause, each wait, each
unpause, each device saved and each vcpu or device loaded is a step. Any of them that can fail may, and
leaves the rest undone. A vcpu's loop may end (`End`; it then never parks, as `is_running` stays
set), and a worker may die with `run_lock` (`WorkerDies`): handlers still get the lock then, a pause
does not. The state of a device that is encoded is its object at that time, which is after the
machine runs again. Calls of the control server go on beside main's restart.

A paused vcpu's LAPIC is in the kernel and changes without it: a device that is not paused yet
raises interrupts (`Worked`), and KVM's timers go on whoever is paused (`Tick`, which also moves
devices in the kernel). Both change the LAPICs of the vcpus in `Targets` to any in `Lapics`, paused or not. `SaveState` reads
the vcpus before it pauses the devices, so what it has read may be old: the ghosts `late[s]` and
`ticked[s]` hold the vcpus whose LAPIC, and the kernel devices whose state, has changed since saver `s`
read them. They and `moved` are all that the properties exempt.

Not included: manual pauses of vcpus (`VcpuRun` has them) and of the whole machine, timers of the
new process before its vcpus run, a `Model.Load` that fails there (the process dies), and the exit of
the process with its last vcpu.

### GuestAgent

A run is a connection and its process. `control` is the handshake, `active`, `proc`,
`waiting` and `reaper` are the server in the guest; `child`, `pid` and `status` are the
kernel's. Start is split between the fork and the entry into the map, the reaper
between Wait4, the lookup and the setting of the code. `locked` and `stuck` are locks that
their own holder waits for (`Process.close` calls `setExitcode`). The restored machine of
`Init` skips the handshake, as NewControl does. A buffer without data makes `Control.init` go on
as if it had read the status. A connection closes when a Read of its process fails (`Close`), which it does
not when the pid is not in the map or the server's mutex is stuck, or when the client has hung up (`HangUp`).

## 3. Runs

Each run is a cfg of the same name.

| Run | Bounds | Result |
|---|---|---|
| `vcpu_run` | 3 callers, everything allowed | all nine properties hold |
| `device_pause` | 2 callers, 2 handlers, 2 vcpus, count up to 6 | all six hold |
| `virtio_queue` | 2 buffers, counters modulo 4 | conservation and wakeups hold |
| `virtio_live` | 1 buffer, counters modulo 4 | pausing succeeds, buffers come back |
| `plan9_fids` | 2 requests, 2 fids, the root and one entry, 3 Files, walks of one name | the counts of Files and fids are exact |
| `plan9_requests` | 2 requests, 1 fid, a tree of depth 2, 6 Files, walks of two names, no creates | requests return, clunked fids go, no entry is left |
| `io_dispatch` | 2 vcpus, 2 devices, 4 addresses, BARs of 2, a hit limit of 1, 1 event fd, notify writes at one address | the cache is coherent, registers and handlers agree but for torn devices, notifications arrive unless the process stops |
| `memory_map` | pages of 2, addresses modulo 32, up to 2 reservations before and 1 after, files of 2, 6 and 10 | regions and chunks apart, the file laid out in full, memory kept by a restart |
| `msix` | 2 workers, 3 vectors, 2 bits to a byte, each vector raised once, 4 writes | no interrupt vanishes or waits but in the named ways |
| `save_restore` | 2 vcpus of two states, one of which is interrupted, one device in the kernel and one in the process, main and one RPC, 1 step of guest, device or timer | one cut is saved and the new process has it, but for late LAPICs, ticked kernel devices and devices that moved; calls return unless somebody waits for a dead vcpu, a device left paused or a dead worker's lock |
| `guest_agent` | 2 runs, 2 pids, one exit code or a signal | codes are right, the handshake is kept, Wait returns but in the named cases |
| `device_stays_paused` | 2 callers | violated: section 6 |

Why the bounds are enough. The pause protocols distinguish a first caller from
later ones and manual from internal; three callers give two overlapping
internal pauses and an independent manual one. A device needs two handlers for
one to reply while the other is acquired, and two vcpus for one handler to have
a request waiting behind another; the count 6 is three doubly counted pauses
with two callers. In the queue, two buffers give the two branches of
`consumed+1 < avail->idx`, and modulus 4 wraps after two rounds; the liveness run
uses one buffer to stay small, with the same modulus. In the file server two
requests race for one path, and for one fid; a second fid lets two creates and two walks
race, and depth 2 lets `makeTree` recurse. `plan9_fids` identifies states that
differ in the names of tags or fids; its three Files are the root's, one an entry
still refers to and one that takes its place, and the run also passes with a fourth. Deadlock checking is off:
a vcpu may die, a device may stay paused, a driver need not post, and a lookup
that loses its race stops the file server. In the dispatch two vcpus race for one
address and one binding, and two devices with adjacent BARs let one move to where
the other was looked up; two hits are one below and one at the limit. The one value written
to a BAR is not aligned and differs from the reset value, so that writing it, a rebuild of the wrong
device and a rebuild that puts things right again all happen. The address that is written is answered by the
first device, after its move by the second, and then by nobody. In the memory
map the sizes give a file that ends inside, at the end of and beyond the gaps, and
the requests regions that touch, contain and overlap each other. Three vectors are
two that share a byte and one that does not; four writes mask, unmask and disable once
more. With two vcpus a pause that fails has one to roll back; two savers overlap in every
order. One step in `save_restore` is one interrupt, tick, exit, end of a loop or change of the guest at
any of the savers' steps, with the work that follows from it: each exception of the properties needs one.
The kernel's device comes first, so that it may go on between its own saving and that of the last device. Interrupts and
timers change the LAPICs of the vcpus in `Targets`; one such vcpu beside one without is enough to tell them apart, and the
theorems hold for any set. Two runs give a start that races a reaper, two children and one last run, and
a pid that comes back.

Fairness. The vcpu thread and the worker goroutines are scheduled (weak
fairness on their steps), except that a guest never has to leave `KVM_RUN`
unless it is signalled, and nobody ever has to pause, unpause, submit or post.
`RWMutex` lets the readers that wait when a writer unlocks in before the next writer, hence
strong fairness for `Acquire`; a Go channel serves its senders in
order, hence strong fairness for `Pull`. In `virtio_live` the driver finishes a
posting it began and takes buffers back, and the device completes requests.
In `plan9_requests` each request's goroutine goes on (weak fairness suffices: a free
`filesLock` is free again after one step); the client need not send anything.
In `io_dispatch` vcpus finish an exit, and the goroutines of event fds and of the
configuration port go on. In `save_restore` savers go on, handlers release what they
acquired, and a vcpu with a pause parks if it is running; `Acquire` is strongly fair for the reason
above. Nothing makes a dead vcpu or worker come back or a client resume a device, hence the exceptions
of `CallsReturn`, each of which needs somebody to wait for it from then on. In `guest_agent` goroutines go on, and processes exit when they like.

## 4. Proofs

Checked by TLAPS for all constants that satisfy the assumptions named in the modules:
any number of callers, handlers, vcpus, requests, devices, buffers and addresses, not
those of section 3 only. Each `*Proofs` module has an inductive invariant `IInv` (`DeviceProofs` a second one for MSI-X, `MsiXInv`), proved in
`Invariance`; the theorems on single properties follow from it. `PROJECT.json` lists them.
Each `IInv` has been model-checked on the instances of section 3 as well, those of `IoDispatch` and
`SaveRestore` also on larger ones (reads and writes at two addresses; two devices in the kernel, every vcpu interrupted).

`VcpuRunProofs` (finitely many callers; `InterruptResults` is what the build can
produce). `HeldMeansStopped` is not inductive. `IInv` adds
what connects the three levels: the flags of the Go and C halves follow the
program counter (`FlagsInv`: `running` exactly in the guest and on the way out,
`is_running` false only before the first check, while parked or woken, ...), a granted caller
implies a vcpu at or before the check (`GrantedInv`), a pause in force has its
interrupt in flight (`InterruptInFlight`), a parked vcpu has a pause in force
(`NoLostResume`), `paused` is the number of callers that count
(`PausedCountsCallers`, by cardinality lemmas), and the cache is not stale where
nobody may see it stale (`RegsInv`). Each is preserved action by action. `PauseSafety`,
`RegistersFresh`, `InterruptNotLost`, `ResumeNotLost` and `CountExact` are its consequences.
`Refinement` maps "executing" and "holders" to `PauseGate`: with `IInv` every step
is a gate step or a stutter.

`DeviceProofs`, of pausing (finitely many callers, any bound `MaxPaused`). `IInv` says that the count is at
least the number of internal pauses begun and not undone (`CountInv`; it is more after a double count,
which is why safety survives that defect), that the owner of `pause_lock` is the one
caller waiting (`OwnerInv`), that a locked writer excludes readers
(`WriterInv`), and `RunLockFollowsPauses`. `Refinement` as above.

`VirtioQueueProofs` (a queue of at least one entry; counters modulo a larger multiple of it).
`PlaceInv` says that each buffer is in exactly one of eight places: with the driver, in either ring,
in either channel, in the hand of either worker, or in the device. `BuffersKept` follows. The two rings
are sections of counters that wrap, so the steps that post, take and put rest on lemmas
about what a section gains and loses at its ends. A wakeup needs more than
`WakeupInFlight`: an empty ring must ask for a notification of its next buffer, by the flag and by the
event index (`EmptyInv`), `pending` must be set only while its notification is on its way
(`PendingInv`), and when nothing is on its way the ring must be empty or hold one buffer
the driver is about to notify for (`QuietInv`).

`Plan9FidsProofs` (finitely many tags and fids, any tree, any number of Files, any length of
walks). `Shape` gives what a request may have in its hands at each step: how many references, which fid, and
where it goes after a `DecRef`. For fids, `Exclusive` states that a request which rewrites
its fid is alone with it and that one request at most closes it, `PinInv` that a pinned fid is in the pool,
`ReapInv` that one request at most takes it out, and `CountInv` that its count is the
number of requests that pin it, and one for the client. For Files, the count is the sum of the
fids that own the File, the references in local variables, the `DecRef`s under way and one for
the root (`FileInv`); a fid between the two halves of a move owns nothing, which is
sound since its mover is alone. Each action is shown to shift one reference from one of these sets to
another, or to change the count with a set. `EntriesLeave` needs that references carry the
path under which their File is in the map (`PathInv`). `createPost` breaks this: it gives the fid the new
File and leaves its path at the directory. So the theorem is about clients that do not create; with creates
the property fails (section 6).

`IoDispatchProofs` (any number of devices and addresses, BARs of at least two units of 16 bytes). The handlers in the cache are what a search finds (`CacheCoherent`)
because a vcpu that is about to write the maps of the current cache has in hand what a search of it
finds (`LookupInv`), and one with an older cache writes only there. Registers and handlers
agree except for the device whose register has just been written and those that are torn (`BarsInv`):
the address port may be written at any step, and a rebuild that goes to another device adds the written
one to `torn` and takes the rebuilt one out.

`DeviceProofs`, of MSI-X (any number of vectors, of bits in a byte, of workers). `NoInterruptVanishes` needs
that what a goroutine has read lies in the byte it will write (`ReadInv`); `PendingIsDelivered`, which is about
quiet states, is strengthened to hold while goroutines are under way: a pending vector whose mask is
clear has a goroutine that is going to look at it, or is one of the named exceptions (`DeliveryInv`).

`MemoryMapProofs` (any page size, requests, file and load sizes). `FileInv` says that the user regions are
a place for each byte of the file up to where `Reload` or `Layout` has come, and one
only; `SegmentsInv` and `LayInv` tie `Allocated` and the local variables of the two loops to
that point. `RegionsApart` needs that starts differ (`StartsDiffer`), and both that no
address wraps (`BoundInv`). The last rests on `RoomAssumption`: no reservation comes closer to 2^64
than the file and what is loaded are long. The reservations of the code lie below 4 GiB.
`RestartKeepsMemory` compares two boots, so `RestartInv` writes every map between them as a function of
the map before, the map after and `Allocated`: the reservations made so far, and the segments reloaded
so far. Each reservation of the first boot can be made again since those of the second are among the
first's, and each segment can be mapped since it lay next to them. What `Reload` leaves to
`Layout` is then nothing or everything: once `Layout` has filled one gap it meets
the same region again with a negative gap and lays out all the rest, so either the segments are the whole file,
or there is none, and the one region on top is laid out again as it was (`OnTop`).

`SaveRestoreProofs` (any number of vcpus and devices, finitely many calls at a time, any states that KVM can
hold as `StatesAssumption` describes them). The running process has `RunInv`, the one that takes over has
`NewInv`. `RunInv` derives from where each saver is in its call which pauses it holds. The counts cover the
holders (`VcpuCountInv`, `DevCountInv`; more than cover them after a failed interrupt or a double
count), so a vcpu that a saver has paused stays parked (`ParkedInv`), and a device that it has paused stays locked
(`LockedInv`, by `GateInv` and `WaitInv`), whatever the others unpause. Hence what was read of the vcpus stays what they hold up
to the LAPICs in `late` (`InfoInv`), and what was saved of the kernel's devices what they hold up to `ticked` (`SavedInv`),
until the saver unpauses. A `Reload` does write paused vcpus and devices, but only what it has read of them: reading again
gives the same but for an older LAPIC, which `late` of the others then has (`LoadOwn`, `LapicAgain`), and a device in the
kernel gets what its object holds (`KernelCopied`). `SavedIsCut` follows. `CutInv`
carries main's copy of the vcpus, and of the devices that have not gone on, to the state file
(`FileInv`) and through the exec. The data half is `LoadCopies`: a vcpu of any state, loaded with what was read of
another one, has its registers, MSRs (of two entries with one index the last wins, and both were read from
one place), events and so on, up to `SameVcpu`, which leaves out what KVM does not look at and the
interrupt shadow that `GetEvents` loses. `MachineKept` puts the two together; the LAPIC of a vcpu in
`cut.late` is some LAPIC that was read (`Restored`).

`GuestAgentProofs` (finitely many runs). A run never changes its pid (`StartedInv`), processes are entered under their pid
(`ActiveInv`), and a reaper that is to set a code has it from a reaped child whose status is
final and whose pid is that of the process it sets (`ReaperInv`): so the code is that of a process with
this pid (`CodeIsTrue`). `ReadyInv` says that the result of the handshake is made once and taken once, also
on a restored machine.

Only model-checked:

* all liveness. The prover does not reason about fairness and ENABLED.

Every invariant and refinement that a run checks is also proved.

## 5. Plan

1. Done: PauseGate, VcpuRun, DevicePause, VirtioQueue, Plan9Fids, IoDispatch,
   MemoryMap, MsiX, VcpuState, SaveRestore, GuestAgent.
2. Done: theorems for every safety invariant and refinement of these modules.
3. Open: `Plan9Lru` (the mutex of a File, `lockRead`, `lockWrite`, `flush` and the LRU of open
   descriptors: `removeLru` flushes a File with `lruLock` held while a reader of that
   File waits for `lruLock`, and a late `updateLru` may add a removed File), tags and flush
   (`fs.go` waits on a condition with the wrong side of its lock held), the write
   layer; `VirtioResume` (`start()` after a restore); interrupt suppression of the
   ring; the records of the manager (`db.py` rewrites a record that others read).

## 6. Disagreements

What the models show and a comment or the evident intent of the code denies. The first has a
run of its own; the others are stated in the modules as properties that do not hold,
and adding the property to the cfg named gives the counterexample.

* `device_stays_paused` (`ResumedWhenAllUnpaused`): an internal pause that finds the device
  paused is counted twice (`device.go:124`); after two overlapping ones the device stays
  paused for ever.
* `PauseReturnsPaused` (`vcpu_run.cfg`): a second manual `Pause` returns success before the
  vcpu has stopped, against the comment at `kvm_run.go:139`.
* `ManualPauseReturns` (`vcpu_run.cfg`): a manual `Pause` overtaken by another client's
  `Unpause` never returns.
* `OutstandingIsInDevice` (`virtio_queue.cfg`): a late `delete` (`virtio.go:339`) drops a buffer
  that is in the device from the saved state.
* `NothingFoundWhenCleared` (`virtio_queue.cfg` with `ResetSpec`): after a queue is reset an
  old notification makes `ProcessIncoming` take buffers again.
* `LookupDoesNotBlock` (`plan9_fids.cfg`): a `lookup` that finds its path entered meanwhile
  waits for the `filesLock` it holds; the file server stops.

Weaknesses that the models contain, as exceptions that their properties name:

* `Overlaps` does not see a region that lies strictly around the new one (`memory.go:83`), and
  a chunk next to another counts as a conflict; `Allocate` from the top of memory
  without room wraps below zero (`memory.go:241`).
* A rest of user memory that is laid out after the last region is not entered in
  `Allocated` (`user.go:158`).
* The pending bits of MSI-X are updated without a lock, an unmask can come between the test of the
  mask and the setting of the bit, and the mask is looked up at entry vector / 8.
* `PciConfData.Write` reads `PciBus.last` three times (`pci.go:294`, `298`, `299`): when the address port is
  written in between, another device is rebuilt, and the written one keeps a raw BAR register and answers where
  it did before; when nothing is selected any more the process panics.
* Vcpus are read before the devices are paused (`control/state.go:57` and `66`): an interrupt that a device
  raises in between is not saved. KVM's timers go on while everything is paused. `Reload` writes back LAPICs as
  they were read (`rpc_state.go:48`), without the interrupts since.
* A dead vcpu (`kvm_run.go:142`), a vcpu that waits for a device left paused (`io.go:139`) and a worker dead
  with `run_lock` (`virtio.go:288`) each make a save or reload wait for ever.
* The state of a device is encoded after the machine runs again (`main.go:106`); `Reload` loads
  kernel devices that have gone on (`rpc_state.go:57`); `GetEvents` loses the interrupt
  shadow when no interrupt is injected (`kvm_events.go:89`).
* `Process.close` waits for itself (`server.go:73`): with it `clearStale` stops the agent, and a pid
  that comes back stops a `Start`. A killed process, one that exits before `Start` has entered it, and
  the second of two that were started while a reaper saw no children are not reported to `Wait`.
* `createPost` leaves `fid.Path` at the directory (`ops.go:255`): when the fid goes, the entry of the
  directory is deleted and that of the created file stays.
* The maps of the handler cache are written by all vcpus without a lock (`cache.go:62`); a second
  binding of an event fd ends its vcpu's loop (`eventfd.go:65`); `BoundEventFd.Close` calls
  itself (`kvm_eventfd.go:148`).

## 7. Not modelled

The loader's page tables and boot parameters, the discovery of KVM's capabilities and the ACPI
tables are straight-line code or single ioctls; device emulation behind a queue is
file I/O; formatting and logging are left out everywhere. The registers of RTC and UART
are served by one goroutine each. The messages of the file server are encoded and
decoded without state. The manager runs other programs and keeps files. `PROJECT.json`
says for each part what of it is not modelled.
