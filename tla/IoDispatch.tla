----------------------------- MODULE IoDispatch -----------------------------
(***************************************************************************)
(* From an exit of a vcpu to a device's register (machine/entry.go,        *)
(* cache.go, eventfd.go, pci.go, model.go, platform/kvm_eventfd.go).       *)
(*                                                                         *)
(* Every vcpu looks its address up in one shared IoCache, without a lock,  *)
(* submits the access to the handler it finds, and binds hot writes to an  *)
(* event fd, which a goroutine serves from then on without any exit.       *)
(* Meanwhile a guest that writes a BAR register makes the handler of the   *)
(* PCI configuration port rebuild the device's handlers and replace the    *)
(* cache.  The address port has a handler of its own, and may select       *)
(* another device while the data port's handler is at work.                *)
(*                                                                         *)
(* Addresses are counted in units of 16 bytes, the granularity of a BAR    *)
(* register, and a device has one memory BAR of BarSize units whose second *)
(* unit holds the notify register, the only one that answers SaveIO.       *)
(***************************************************************************)
EXTENDS Naturals, FiniteSets, FiniteSetsExt

CONSTANTS
  Vcpus,
  NumDevices,  \* the PCI devices, in the order of model.devices
  MaxAddr,     \* addresses are 0 .. MaxAddr, all ones is MaxAddr
  BarSize,     \* PciBarSizes[0], a power of two
  BarValues,   \* what the guest writes to a BAR register
  Values,      \* what it writes to the notify register: queue numbers
  Accesses,    \* the guest's accesses: an address and a value, or None for a read
  HitLimit,    \* 100 in the code
  MaxFds,      \* how many event fds the process may have
  None

ASSUME SizesType ==
  /\ NumDevices \in Nat \ {0} /\ MaxAddr \in Nat /\ BarSize \in Nat \ {0, 1}
  /\ HitLimit \in Nat \ {0} /\ MaxFds \in Nat
ASSUME AccessesType ==
  BarValues \subseteq 0 .. MaxAddr /\ Accesses \subseteq (0 .. MaxAddr) \X (Values \cup {None})
ASSUME NoneIsNoValue == None \notin Values

Devices == 1 .. NumDevices
Addrs   == 0 .. MaxAddr
AllOnes == MaxAddr
Bars    == {0, 1}       \* PciBarCount: bar 0 is supported, bar 1 is not
Notify  == 1            \* the unit of the notify register in BAR 0
Handlers == [dev : Devices, start : Addrs]

VARIABLES
  config,       \* PciDevice.Config: the BAR registers of each device
  io_handlers,  \* MmioDevice.IoHandlers of each device
  cache,        \* model.mmio_cache
  last,         \* PciBus.last
  conf,         \* the goroutine of the configuration data port
  vcpu,         \* each vcpu's exit
  events,       \* the event fds bound in KVM, with the goroutines serving them
  fatal,        \* the runtime has stopped the process
  torn,         \* the devices whose register was written and another one rebuilt
  owed          \* the devices notified by the guest that have not seen it yet

vars == <<config, io_handlers, cache, last, conf, vcpu, events, fatal, torn, owed>>

Idle     == [pc |-> "guest", addr |-> 0, value |-> None, handler |-> None, seen |-> 0, stale |-> FALSE]
ConfIdle == [pc |-> "idle", bar |-> 0, value |-> 0, dev |-> None, by |-> None]
Keys     == Addrs \X Values

Contains(h, a) == h.start <= a /\ a < h.start + BarSize

\* The first device that has the address wins.
Found(handlers, a) ==
  LET with == {d \in Devices : \E h \in handlers[d] : Contains(h, a)}
  IN  IF with = {} THEN None ELSE CHOOSE h \in handlers[Min(with)] : Contains(h, a)

NewIoCache(handlers) ==
  [handlers |-> handlers, memory |-> [a \in Addrs |-> None], hits |-> [a \in Addrs |-> 0]]

\* All devices are attached with BAR registers of zero.
Init ==
  /\ config = [d \in Devices |-> [i \in Bars |-> IF i = 0 THEN 0 ELSE AllOnes]]
  /\ io_handlers = [d \in Devices |-> {[dev |-> d, start |-> 0]}]
  /\ cache = NewIoCache(io_handlers)
  /\ last = None
  /\ conf = ConfIdle
  /\ vcpu = [v \in Vcpus |-> Idle]
  /\ events = [k \in Keys |-> None]
  /\ fatal = FALSE
  /\ torn = {}
  /\ owed = {}

At(v, pc) == vcpu[v].pc = pc /\ ~fatal
Return(v) == vcpu' = [vcpu EXCEPT ![v] = Idle]

\* An access reaches a device's operations; a write to the notify register
\* wakes the queue.
IsNotify(h, a, x) == x # None /\ a - h.start = Notify
Performed(h, a, x) == owed' = IF IsNotify(h, a, x) THEN owed \ {h.dev} ELSE owed

-----------------------------------------------------------------------------
(* A vcpu's access.                                                        *)

\* A write that KVM matches with an event fd signals it and does not exit.
\* (An event fd bound before the BAR moved takes the write away from the
\* device that is there now: nothing is owed to that device.)
Signal(v, a, x) ==
  /\ At(v, "guest")
  /\ x # None
  /\ events[<<a, x>>] # None
  /\ events' = [events EXCEPT ![<<a, x>>].signalled = TRUE]
  /\ owed' = IF IsNotify(events[<<a, x>>].handler, a, x)
             THEN owed \cup {events[<<a, x>>].handler.dev} ELSE owed
  /\ UNCHANGED <<config, io_handlers, cache, last, conf, vcpu, fatal, torn>>

\* Any other access exits to HandleMmio.  What the guest sends to an address
\* that is just being moved need not arrive.
Exit(v, a, x) ==
  /\ At(v, "guest")
  /\ x # None => events[<<a, x>>] = None
  /\ vcpu' = [vcpu EXCEPT ![v] = [Idle EXCEPT !.pc = "lookup", !.addr = a, !.value = x]]
  /\ LET h == Found(cache.handlers, a)
     IN  owed' = IF h # None /\ IsNotify(h, a, x) /\ h = Found(io_handlers, a)
                 THEN owed \cup {h.dev} ELSE owed
  /\ UNCHANGED <<config, io_handlers, cache, last, conf, events, fatal, torn>>

\* lookup reads the maps; an access that nothing answers is over.
Lookup(v) ==
  /\ At(v, "lookup")
  /\ LET a == vcpu[v].addr
         h == IF cache.memory[a] # None THEN cache.memory[a] ELSE Found(cache.handlers, a)
     IN  IF h = None
         THEN Return(v)
         ELSE vcpu' = [vcpu EXCEPT ![v] = [@ EXCEPT !.pc = "count", !.handler = h, !.seen = cache.hits[a]]]
  /\ UNCHANGED <<config, io_handlers, cache, last, conf, events, fatal, torn, owed>>

\* save only tells whether the limit has been reached.
Counted(n) == IF n < HitLimit THEN n + 1 ELSE HitLimit

\* Faulty variant: the flush empties the maps of a cache that is still in use.
CountShared(v) ==
  /\ At(v, "count")
  /\ cache' = [cache EXCEPT !.memory[vcpu[v].addr] = vcpu[v].handler,
                            !.hits[vcpu[v].addr] = Counted(vcpu[v].seen)]
  /\ vcpu' = [vcpu EXCEPT ![v] = [@ EXCEPT !.pc = "submit", !.seen = 0, !.stale = FALSE]]
  /\ UNCHANGED <<config, io_handlers, last, conf, events, fatal, torn, owed>>

\* ... and then writes them, in the cache it has looked at: increments of two
\* vcpus may become one, and those to a cache that was replaced are lost.
Count(v) ==
  /\ At(v, "count")
  /\ cache' = IF vcpu[v].stale THEN cache
              ELSE [cache EXCEPT !.memory[vcpu[v].addr] = vcpu[v].handler,
                                 !.hits[vcpu[v].addr] = Counted(vcpu[v].seen)]
  /\ vcpu' = [vcpu EXCEPT ![v] = [@ EXCEPT !.pc = "submit", !.seen = 0, !.stale = FALSE]]
  /\ UNCHANGED <<config, io_handlers, last, conf, events, fatal, torn, owed>>

\* Two of them at it: the runtime may stop the process.
MapRace ==
  /\ ~fatal
  /\ \E v, w \in Vcpus : /\ v # w /\ At(v, "count") /\ At(w, "count")
                         /\ ~vcpu[v].stale /\ ~vcpu[w].stale
  /\ fatal' = TRUE
  /\ UNCHANGED <<config, io_handlers, cache, last, conf, vcpu, events, torn, owed>>

\* HandleMmio reads mmio_cache again, for save, and submits the access.
Submit(v) ==
  /\ At(v, "submit")
  /\ vcpu' = [vcpu EXCEPT ![v].pc = "perform"]
  /\ UNCHANGED <<config, io_handlers, cache, last, conf, events, fatal, torn, owed>>

\* The handler's goroutine performs the access and answers the vcpu.
Perform(v) ==
  /\ At(v, "perform")
  /\ LET h == vcpu[v].handler
         a == vcpu[v].addr
         x == vcpu[v].value
     IN  /\ Performed(h, a, x)
         /\ IF IsNotify(h, a, x) THEN vcpu' = [vcpu EXCEPT ![v].pc = "save"] ELSE Return(v)
  /\ UNCHANGED <<config, io_handlers, cache, last, conf, events, fatal, torn>>

\* NewEventFd and SetEventFd: no more than MaxFds event fds, and KVM refuses
\* to bind an address and value twice.
NewEventFdFails == Cardinality({k \in Keys : events[k] # None}) = MaxFds
SetEventFdFails(k) == events[k] # None
BoundEventFd(h) == [handler |-> h, signalled |-> FALSE, pc |-> "wait"]

\* The hits in the cache that was read before the access was submitted.  If it
\* has been replaced since, other vcpus may have gone on counting in it.
HitsHeld(v) ==
  IF vcpu[v].stale THEN vcpu[v].seen .. HitLimit ELSE {cache.hits[vcpu[v].addr]}

\* The write was a notification: save.  An error goes back to Loop and ends it.
Save(v) ==
  /\ At(v, "save")
  /\ \E hits \in HitsHeld(v) : LET k == <<vcpu[v].addr, vcpu[v].value>>
     IN  IF hits < HitLimit
         THEN Return(v) /\ UNCHANGED events
         ELSE IF NewEventFdFails \/ SetEventFdFails(k)
         THEN vcpu' = [vcpu EXCEPT ![v] = [Idle EXCEPT !.pc = "dead"]] /\ UNCHANGED events
         ELSE Return(v) /\ events' = [events EXCEPT ![k] = BoundEventFd(vcpu[v].handler)]
  /\ UNCHANGED <<config, io_handlers, cache, last, conf, fatal, torn, owed>>

-----------------------------------------------------------------------------
(* The goroutine of an event fd.                                           *)

Wait(k) ==
  /\ ~fatal /\ events[k] # None
  /\ events[k].pc = "wait" /\ events[k].signalled
  /\ events' = [events EXCEPT ![k].pc = "submit", ![k].signalled = FALSE]
  /\ UNCHANGED <<config, io_handlers, cache, last, conf, vcpu, fatal, torn, owed>>

\* Faulty variant: the goroutine ends and leaves its event fd bound.
ServeOnce(k) ==
  /\ ~fatal /\ events[k] # None
  /\ events[k].pc = "submit"
  /\ Performed(events[k].handler, k[1], k[2])
  /\ events' = [events EXCEPT ![k].pc = "ended"]
  /\ UNCHANGED <<config, io_handlers, cache, last, conf, vcpu, fatal, torn>>

\* BoundEventFd.Close unbinds, and then calls itself instead of EventFd.Close:
\* the fd stays open.
Unbound(k) == [events EXCEPT ![k] = None]

\* Anything but SaveIO ends it.
Serve(k) ==
  /\ ~fatal /\ events[k] # None
  /\ events[k].pc = "submit"
  /\ Performed(events[k].handler, k[1], k[2])
  /\ events' = IF IsNotify(events[k].handler, k[1], k[2])
               THEN [events EXCEPT ![k].pc = "wait"] ELSE Unbound(k)
  /\ UNCHANGED <<config, io_handlers, cache, last, conf, vcpu, fatal, torn>>

-----------------------------------------------------------------------------
(* The PCI configuration ports.                                            *)

\* A write to the address port: selectLast; None is a bus, device or function
\* that does not exist.  Nothing keeps it away from a data port at work.
SelectLast(v, d) ==
  /\ At(v, "guest")
  /\ last' = d
  /\ UNCHANGED <<config, io_handlers, cache, conf, vcpu, events, fatal, torn, owed>>

\* A write to the data port that hits a BAR register: there is a device.
ConfWrite(v, i, w) ==
  /\ At(v, "guest")
  /\ conf.pc = "idle"
  /\ last # None
  /\ conf' = [pc |-> "write", bar |-> i, value |-> w, dev |-> None, by |-> v]
  /\ vcpu' = [vcpu EXCEPT ![v] = [Idle EXCEPT !.pc = "config"]]
  /\ UNCHANGED <<config, io_handlers, cache, last, events, fatal, torn, owed>>

\* The handler reads PciBus.last anew for each of its steps, and one that has
\* become nil in the meantime is a panic.
NilLast ==
  /\ last = None
  /\ fatal' = TRUE
  /\ UNCHANGED <<config, io_handlers, cache, last, conf, vcpu, events, torn, owed>>

\* Config.Write, on the device that is the last one by now.
ConfSet ==
  /\ ~fatal
  /\ conf.pc = "write"
  /\ \/ NilLast
     \/ /\ last # None
        /\ config' = [config EXCEPT ![last] = [@ EXCEPT ![conf.bar] = conf.value]]
        /\ conf' = [ConfIdle EXCEPT !.pc = "rebuild", !.dev = last, !.by = conf.by]
        /\ UNCHANGED <<io_handlers, cache, last, vcpu, events, fatal, torn, owed>>

\* The BAR registers after RebuildBars: BAR 0 is aligned to its size, and the
\* one that is not supported reads as all ones.
Aligned(a) == a - (a % BarSize)

\* Faulty variant: the register keeps what was written.
RebuiltRegsUnaligned(regs) == [j \in Bars |-> IF j = 0 THEN regs[0] ELSE AllOnes]

RebuiltRegs(regs) == [j \in Bars |-> IF j = 0 THEN Aligned(regs[0]) ELSE AllOnes]

\* The handlers are made from the registers as they were before that.
RebuiltHandlers(d, regs) == {[dev |-> d, start |-> regs[0]]}

\* The devices that lose an address, or keep it for another register.
Moved(handlers) ==
  {d \in Devices : \E a \in Addrs : /\ Found(cache.handlers, a) # None
                                    /\ Found(cache.handlers, a).dev = d
                                    /\ Found(handlers, a) # Found(cache.handlers, a)}

\* RebuildBars, again on the device that is the last one by now: not always
\* the one that was written to.
RebuildBars ==
  /\ ~fatal
  /\ conf.pc = "rebuild"
  /\ \/ NilLast
     \/ /\ last # None
        /\ config' = [config EXCEPT ![last] = RebuiltRegs(config[last])]
        /\ io_handlers' = [io_handlers EXCEPT ![last] = RebuiltHandlers(last, config[last])]
        /\ conf' = [conf EXCEPT !.pc = "flush"]
        /\ torn' = (torn \cup {conf.dev}) \ {last}
        /\ owed' = owed \ Moved(io_handlers')
        /\ UNCHANGED <<cache, last, vcpu, events, fatal>>

\* What vcpu v has in hand of the cache that is being replaced.
Outdated(v) ==
  [vcpu[v] EXCEPT !.stale = @ \/ vcpu[v].pc \in {"count", "perform", "save"},
                  !.seen = IF ~vcpu[v].stale /\ vcpu[v].pc \in {"perform", "save"}
                           THEN cache.hits[vcpu[v].addr] ELSE @]

\* Model.flush replaces the cache, and the vcpu's write returns.
Flush ==
  /\ ~fatal
  /\ conf.pc = "flush"
  /\ cache' = NewIoCache(io_handlers)
  /\ conf' = ConfIdle
  /\ vcpu' = [v \in Vcpus |-> IF v = conf.by THEN Idle ELSE Outdated(v)]
  /\ UNCHANGED <<config, io_handlers, last, events, fatal, torn, owed>>

-----------------------------------------------------------------------------

Access(v) == \E r \in Accesses : Signal(v, r[1], r[2]) \/ Exit(v, r[1], r[2])
Handle(v) == Lookup(v) \/ Count(v) \/ Submit(v) \/ Perform(v) \/ Save(v)
Configure(v) ==
  \/ \E d \in Devices \cup {None} : SelectLast(v, d)
  \/ \E i \in Bars, w \in BarValues : ConfWrite(v, i, w)
Server(k) == Wait(k) \/ Serve(k)
Rebuild == ConfSet \/ RebuildBars \/ Flush

Next ==
  \/ \E v \in Vcpus : Access(v) \/ Handle(v) \/ Configure(v)
  \/ \E k \in Keys : Server(k)
  \/ Rebuild
  \/ MapRace

Spec == Init /\ [][Next]_vars

\* Goroutines and vcpu threads that can go on do.
Fairness ==
  /\ \A v \in Vcpus : WF_vars(Handle(v))
  /\ \A k \in Keys : WF_vars(Server(k))
  /\ WF_vars(Rebuild)

FairSpec == Spec /\ Fairness

-----------------------------------------------------------------------------
(* Properties.                                                             *)

\* The types of the variables; hits are counted up to the limit only.
TypeOK ==
  /\ config \in [Devices -> [Bars -> Addrs]]
  /\ io_handlers \in [Devices -> SUBSET Handlers]
  /\ cache \in [handlers : [Devices -> SUBSET Handlers],
                memory : [Addrs -> Handlers \cup {None}], hits : [Addrs -> 0 .. HitLimit]]
  /\ last \in Devices \cup {None}
  /\ conf \in [pc : {"idle", "write", "rebuild", "flush"}, bar : Bars, value : Addrs,
               dev : Devices \cup {None}, by : Vcpus \cup {None}]
  /\ vcpu \in [Vcpus -> [pc : {"guest", "lookup", "count", "submit", "perform", "save", "config", "dead"},
                         addr : Addrs, value : Values \cup {None}, handler : Handlers \cup {None},
                         seen : 0 .. HitLimit, stale : BOOLEAN]]
  /\ events \in [Keys -> [handler : Handlers, signalled : BOOLEAN, pc : {"wait", "submit"}] \cup {None}]
  /\ fatal \in BOOLEAN
  /\ torn \subseteq Devices
  /\ owed \subseteq Devices

\* Whatever vcpus were in the middle of a lookup when the cache was replaced
\* (model.go:83), the cache never sends an address anywhere but to the handler
\* that a search of the handlers it was made from finds, and these are the
\* devices' current ones whenever no BAR is being moved.
CacheCoherent ==
  /\ \A a \in Addrs : cache.memory[a] \in {None, Found(cache.handlers, a)}
  /\ conf.pc = "idle" => cache.handlers = io_handlers

\* What the guest reads from a BAR register is where, rounded to the BAR's
\* size, the device answers (pci.go:422 and 438): sizing a BAR, writing an
\* address that is not aligned, and selecting another device at any moment
\* included.  The exception are the torn devices: the address port was written
\* between Config.Write and RebuildBars (pci.go:294 and 299), which rebuilt
\* another device, and until its own next rebuild the device has the address in
\* its register as it was written and answers where it did before.
BarsDecode ==
  conf.pc = "idle" =>
    \A d \in Devices \ torn : \E h \in io_handlers[d] :
      Aligned(h.start) = config[d][0] /\ config[d][0] % BarSize = 0

\* A notification of the guest reaches the device, by an exit or through the
\* event fd the same address has been bound to in the meantime, although the
\* cache may be replaced and the BARs of other devices move underneath; a vcpu
\* that dies over the binding has delivered its write.  Only the end of the
\* process prevents it: the race on the maps, or a data port that finds no
\* device selected any more.
NotifyArrives == \A d \in Devices : (d \in owed) ~> (d \notin owed \/ fatal)

=============================================================================
