---------------------------- MODULE VirtioQueue ----------------------------
(***************************************************************************)
(* One virtqueue (machine/virtio.go, machine/virtio.c): the driver in the  *)
(* guest makes buffers available in the avail ring and notifies; the       *)
(* IoHandler that serves the notify register wakes ProcessIncoming, which  *)
(* takes the buffers off the ring and hands them to the device's own       *)
(* goroutines; ProcessOutgoing puts them into the used ring.  All three    *)
(* work under the read lock of the device's run_lock (DevicePause), so a   *)
(* pause waits for them.                                                   *)
(*                                                                         *)
(* A buffer is named by the index of its first descriptor, 0..QueueSize-1. *)
(* Ring counters are 16-bit in the code and count modulo CounterMod here.  *)
(* Driver and ring memory are external: they are modelled as far as the    *)
(* code reads and writes the rings.                                        *)
(***************************************************************************)
EXTENDS Naturals, Sequences, FiniteSets, SequencesExt

CONSTANTS
  QueueSize,   \* VirtioChannel.QueueSize
  CounterMod   \* 2^16 in the code

ASSUME QueueSizeType == QueueSize \in Nat \ {0}
ASSUME CounterModType ==
  CounterMod \in Nat /\ CounterMod > QueueSize /\ CounterMod % QueueSize = 0

Indices  == 0 .. QueueSize - 1
NoBuffer == QueueSize
Counters == 0 .. CounterMod - 1
Bump(n)  == (n + 1) % CounterMod

VARIABLES
  \* The driver.
  event_idx,      \* it has accepted VirtioRingFEventIdx (GuestFeatures)
  free,           \* the buffers it owns
  posting,        \* between its update of avail->idx and its decision to notify
  kick,           \* a write to the notify register has not yet been handled
  last_used,      \* how far it has read the used ring
  \* Ring memory.
  avail_ring, avail_idx, used_ring, used_idx,
  used_flags,     \* VRING_USED_F_NO_NOTIFY is set
  avail_event,
  \* VirtioChannel.
  QueueAddress,   \* TRUE while the queue has an address
  notifications,  \* messages in the channel of capacity 1
  pending,
  Consumed,
  Outstanding,
  incoming, outgoing,  \* the channels of capacity QueueSize
  \* The goroutines.
  handler,        \* the IoHandler: "idle", or "sending" on notifications
  inw,            \* where ProcessIncoming is
  in_buf,         \* the buffer in its hands
  held,           \* the buffers the device's own goroutines work on
  outw,           \* where ProcessOutgoing is
  out_buf,        \* the buffer in its hands
  run_lock        \* "open", "closing" (a writer waits) or "closed"

driverVars == <<event_idx, free, posting, kick, last_used>>
ringVars   == <<avail_ring, avail_idx, used_ring, used_idx, used_flags, avail_event>>
queueVars  == <<QueueAddress, notifications, pending, Consumed, Outstanding, incoming, outgoing>>
goVars     == <<handler, inw, in_buf, held, outw, out_buf>>
vars       == <<driverVars, ringVars, queueVars, goVars, run_lock>>

InStates  == {"recv", "acquire", "look", "take_last", "take_more", "send", "dead"}
OutStates == {"recv", "acquire", "put", "delete"}

\* A goroutine that holds the read lock.
Reading ==
  \/ handler = "sending"
  \/ inw \notin {"recv", "acquire"}
  \/ outw \notin {"recv", "acquire"}

\* The queue as the driver's write of its address leaves it: remap has mapped
\* the ring and sent its notification.
Init ==
  /\ event_idx \in BOOLEAN
  /\ free = Indices
  /\ posting = FALSE
  /\ kick = FALSE
  /\ last_used = 0
  /\ avail_ring = [s \in Indices |-> 0]
  /\ avail_idx = 0
  /\ used_ring = [s \in Indices |-> 0]
  /\ used_idx = 0
  /\ used_flags = FALSE
  /\ avail_event = 0
  /\ QueueAddress = TRUE
  /\ notifications = 1
  /\ pending = 0
  /\ Consumed = 0
  /\ Outstanding = {}
  /\ incoming = <<>>
  /\ outgoing = <<>>
  /\ handler = "idle"
  /\ inw = "recv"
  /\ in_buf = NoBuffer
  /\ held = {}
  /\ outw = "recv"
  /\ out_buf = NoBuffer
  /\ run_lock = "open"

-----------------------------------------------------------------------------
(* The driver (external).                                                  *)

\* A buffer becomes available: ring entry, then index.
DriverPosts(i) ==
  /\ ~posting
  /\ i \in free
  /\ free' = free \ {i}
  /\ avail_ring' = [avail_ring EXCEPT ![avail_idx % QueueSize] = i]
  /\ avail_idx' = Bump(avail_idx)
  /\ posting' = TRUE
  /\ UNCHANGED <<event_idx, kick, last_used, used_ring, used_idx, used_flags, avail_event,
                 queueVars, goVars, run_lock>>

\* The driver notifies the device, unless the device said it need not.
DriverNotifies ==
  /\ posting
  /\ posting' = FALSE
  /\ kick' = (kick \/ IF event_idx THEN Bump(avail_event) = avail_idx ELSE ~used_flags)
  /\ UNCHANGED <<event_idx, free, last_used, ringVars, queueVars, goVars, run_lock>>

\* The driver takes a buffer back.
DriverReaps ==
  /\ last_used # used_idx
  /\ free' = free \cup {used_ring[last_used % QueueSize]}
  /\ last_used' = Bump(last_used)
  /\ UNCHANGED <<event_idx, posting, kick, ringVars, queueVars, goVars, run_lock>>

-----------------------------------------------------------------------------
(* The IoHandler: a write to VirtioOffsetQueueNotify.                      *)

\* Faulty variant: every write sends a notification.
NotifyWriteAlways ==
  /\ kick
  /\ handler = "idle"
  /\ run_lock = "open"
  /\ kick' = FALSE
  /\ handler' = IF QueueAddress THEN "sending" ELSE "idle"
  /\ UNCHANGED <<event_idx, free, posting, last_used, ringVars, queueVars,
                 inw, in_buf, held, outw, out_buf, run_lock>>

\* The compare-and-swap of pending decides whether to send.
NotifyWrite ==
  /\ kick
  /\ handler = "idle"
  /\ run_lock = "open"
  /\ kick' = FALSE
  /\ IF QueueAddress /\ pending = 0
     THEN pending' = 1 /\ handler' = "sending"
     ELSE UNCHANGED <<pending, handler>>
  /\ UNCHANGED <<event_idx, free, posting, last_used, ringVars, QueueAddress, notifications, Consumed, Outstanding,
                 incoming, outgoing, inw, in_buf, held, outw, out_buf, run_lock>>

\* The send goes through when the channel is empty; Release.
NotifySend ==
  /\ handler = "sending"
  /\ notifications = 0
  /\ notifications' = 1
  /\ handler' = "idle"
  /\ UNCHANGED <<driverVars, ringVars, QueueAddress, pending, Consumed, Outstanding, incoming, outgoing,
                 inw, in_buf, held, outw, out_buf, run_lock>>

\* A write of 0 to VirtioOffsetQueuePfn, or of VirtioStatusReboot to
\* VirtioOffsetStatus: the address is cleared, and remap starts over.
ResetQueue ==
  /\ handler = "idle"
  /\ run_lock = "open"
  /\ QueueAddress
  /\ QueueAddress' = FALSE
  /\ Consumed' = 0
  /\ UNCHANGED <<driverVars, ringVars, notifications, pending, Outstanding, incoming,
                 outgoing, goVars, run_lock>>

-----------------------------------------------------------------------------
(* ProcessIncoming.                                                        *)

InReceive ==
  /\ inw = "recv"
  /\ notifications = 1
  /\ notifications' = 0
  /\ inw' = "acquire"
  /\ UNCHANGED <<driverVars, ringVars, QueueAddress, pending, Consumed, Outstanding, incoming, outgoing,
                 handler, in_buf, held, outw, out_buf, run_lock>>

\* Faulty variant: pending is not reset.
InAcquireKeepsPending ==
  /\ inw = "acquire"
  /\ run_lock = "open"
  /\ inw' = "look"
  /\ UNCHANGED <<driverVars, ringVars, queueVars, handler, in_buf, held, outw, out_buf,
                 run_lock>>

\* Acquire, and the reset of pending.
InAcquire ==
  /\ inw = "acquire"
  /\ run_lock = "open"
  /\ pending' = 0
  /\ inw' = "look"
  /\ UNCHANGED <<driverVars, ringVars, QueueAddress, notifications, Consumed, Outstanding, incoming,
                 outgoing, handler, in_buf, held, outw, out_buf, run_lock>>

\* vring_get_buf compares Consumed with avail->idx; nothing there: Release.
\* The comparison of consumed + 1 is made in int, where nothing wraps.
InLook ==
  /\ inw = "look"
  /\ inw' = IF Consumed = avail_idx THEN "recv"
            ELSE IF Consumed + 1 < avail_idx THEN "take_more" ELSE "take_last"
  /\ UNCHANGED <<driverVars, ringVars, queueVars, handler, in_buf, held, outw, out_buf,
                 run_lock>>

\* vchannel.Consumed += 1
NextConsumed == Bump(Consumed)

\* Faulty variant: Consumed is advanced before the entry is read.
EntryAhead == avail_ring[Bump(Consumed) % QueueSize]

\* avail->ring[consumed % num]
Entry == avail_ring[Consumed % QueueSize]

\* Faulty variant: the driver is asked to notify for the buffer just taken.
NotifyBehind == Consumed

\* The avail event: notify for the buffer after this one.
NotifyAt == Bump(Consumed)

\* The rest of vring_get_buf, and processOne up to the send on incoming: the
\* driver is told whether to notify, and the buffer is outstanding; or it
\* cannot be mapped, and ProcessIncoming returns without Release.
InTake ==
  /\ inw \in {"take_last", "take_more"}
  /\ used_flags' = (inw = "take_more")
  /\ avail_event' = IF inw = "take_last" THEN NotifyAt ELSE avail_event
  /\ in_buf' = Entry
  /\ Consumed' = NextConsumed
  /\ \/ inw' = "send" /\ Outstanding' = Outstanding \cup {in_buf'}
     \/ inw' = "dead" /\ UNCHANGED Outstanding
  /\ UNCHANGED <<driverVars, avail_ring, avail_idx, used_ring, used_idx, QueueAddress,
                 notifications, pending, incoming, outgoing, handler, held, outw, out_buf,
                 run_lock>>

InSend ==
  /\ inw = "send"
  /\ Len(incoming) < QueueSize
  /\ incoming' = Append(incoming, in_buf)
  /\ in_buf' = NoBuffer
  /\ inw' = "look"
  /\ UNCHANGED <<driverVars, ringVars, QueueAddress, notifications, pending, Consumed, Outstanding,
                 outgoing, handler, held, outw, out_buf, run_lock>>

-----------------------------------------------------------------------------
(* The device's own goroutines: they take buffers in order and give them   *)
(* back in any.  They do not look at run_lock.                             *)

DeviceTakes ==
  /\ incoming # <<>>
  /\ held' = held \cup {Head(incoming)}
  /\ incoming' = Tail(incoming)
  /\ UNCHANGED <<driverVars, ringVars, QueueAddress, notifications, pending, Consumed, Outstanding,
                 outgoing, handler, inw, in_buf, outw, out_buf, run_lock>>

DeviceReturns(i) ==
  /\ i \in held
  /\ Len(outgoing) < QueueSize
  /\ held' = held \ {i}
  /\ outgoing' = Append(outgoing, i)
  /\ UNCHANGED <<driverVars, ringVars, QueueAddress, notifications, pending, Consumed, Outstanding,
                 incoming, handler, inw, in_buf, outw, out_buf, run_lock>>

-----------------------------------------------------------------------------
(* ProcessOutgoing.                                                        *)

OutReceive ==
  /\ outw = "recv"
  /\ outgoing # <<>>
  /\ out_buf' = Head(outgoing)
  /\ outgoing' = Tail(outgoing)
  /\ outw' = "acquire"
  /\ UNCHANGED <<driverVars, ringVars, QueueAddress, notifications, pending, Consumed, Outstanding,
                 incoming, handler, inw, in_buf, held, run_lock>>

OutAcquire ==
  /\ outw = "acquire"
  /\ run_lock = "open"
  /\ outw' = "put"
  /\ UNCHANGED <<driverVars, ringVars, queueVars, handler, inw, in_buf, held, out_buf,
                 run_lock>>

\* vring_put_buf.  The driver sees the buffer as soon as used->idx is bumped.
OutPut ==
  /\ outw = "put"
  /\ used_ring' = [used_ring EXCEPT ![used_idx % QueueSize] = out_buf]
  /\ used_idx' = Bump(used_idx)
  /\ outw' = "delete"
  /\ UNCHANGED <<driverVars, avail_ring, avail_idx, used_flags, avail_event, queueVars,
                 handler, inw, in_buf, held, out_buf, run_lock>>

\* The buffer is no longer outstanding; Release.
OutDelete ==
  /\ outw = "delete"
  /\ Outstanding' = Outstanding \ {out_buf}
  /\ out_buf' = NoBuffer
  /\ outw' = "recv"
  /\ UNCHANGED <<driverVars, ringVars, QueueAddress, notifications, pending, Consumed, incoming, outgoing,
                 handler, inw, in_buf, held, run_lock>>

-----------------------------------------------------------------------------
(* BaseDevice.Pause and Unpause, as DevicePause has them.                  *)

Pause ==
  /\ \/ run_lock = "open" /\ run_lock' = "closing"
     \/ run_lock = "closing" /\ ~Reading /\ run_lock' = "closed"
  /\ UNCHANGED <<driverVars, ringVars, queueVars, goVars>>

Unpause ==
  /\ run_lock = "closed"
  /\ run_lock' = "open"
  /\ UNCHANGED <<driverVars, ringVars, queueVars, goVars>>

-----------------------------------------------------------------------------
Driver == DriverNotifies \/ DriverReaps \/ \E i \in Indices : DriverPosts(i)
Handle == NotifyWrite \/ NotifySend
ProcessIncoming == InReceive \/ InAcquire \/ InLook \/ InTake \/ InSend
Backend == DeviceTakes \/ \E i \in Indices : DeviceReturns(i)
ProcessOutgoing == OutReceive \/ OutAcquire \/ OutPut \/ OutDelete

Next == Driver \/ Handle \/ ProcessIncoming \/ Backend \/ ProcessOutgoing \/ Pause \/ Unpause

Spec == Init /\ [][Next]_vars

\* With a driver that resets the queue.
ResetSpec == Init /\ [][Next \/ ResetQueue]_vars

\* Every goroutine keeps going; run_lock lets in the readers that waited
\* before its next writer, and lets in a writer that waits.  The driver
\* finishes what it began and takes its buffers back, and the device
\* completes each buffer.  Nobody has to post a buffer, or to pause.
FairSpec ==
  /\ Spec
  /\ WF_vars(DriverNotifies) /\ WF_vars(DriverReaps)
  /\ SF_vars(NotifyWrite) /\ WF_vars(NotifySend)
  /\ WF_vars(InReceive \/ InLook \/ InTake \/ InSend) /\ SF_vars(InAcquire)
  /\ WF_vars(DeviceTakes) /\ \A i \in Indices : WF_vars(DeviceReturns(i))
  /\ WF_vars(OutReceive \/ OutPut \/ OutDelete) /\ SF_vars(OutAcquire)
  /\ WF_vars(run_lock = "closing" /\ Pause)

-----------------------------------------------------------------------------
(* Properties.                                                             *)

TypeOK ==
  /\ free \subseteq Indices /\ held \subseteq Indices /\ Outstanding \subseteq Indices
  /\ event_idx \in BOOLEAN /\ QueueAddress \in BOOLEAN
  /\ posting \in BOOLEAN /\ kick \in BOOLEAN /\ used_flags \in BOOLEAN
  /\ {last_used, avail_idx, used_idx, avail_event, Consumed} \subseteq Counters
  /\ avail_ring \in [Indices -> Indices] /\ used_ring \in [Indices -> Indices]
  /\ notifications \in {0, 1} /\ pending \in {0, 1}
  /\ incoming \in Seq(Indices) /\ outgoing \in Seq(Indices)
  /\ Len(incoming) <= QueueSize /\ Len(outgoing) <= QueueSize
  /\ handler \in {"idle", "sending"}
  /\ inw \in InStates /\ in_buf \in Indices \cup {NoBuffer}
  /\ outw \in OutStates /\ out_buf \in Indices \cup {NoBuffer}
  /\ run_lock \in {"open", "closing", "closed"}

\* The buffers available and not yet consumed, and used and not yet reaped.
Entries(ring, from, to) ==
  [k \in 1 .. (to + CounterMod - from) % CounterMod |-> ring[(from + k - 1) % QueueSize]]
Available == Entries(avail_ring, Consumed, avail_idx)
Returned  == Entries(used_ring, last_used, used_idx)

\* The buffers inside the device: consumed, and not yet in the used ring.
InDevice ==
  ToSet(incoming) \cup held \cup ToSet(outgoing)
    \cup {b \in {in_buf} : inw \in {"send", "dead"}}
    \cup {b \in {out_buf} : outw \in {"acquire", "put"}}

\* Every buffer is in exactly one place: with the driver, in one of the
\* rings, in one of the channels, or in the hands of one goroutine.  None is
\* processed twice, completed twice or lost on the way, across the wrap of
\* the ring counters too, and so no send on a channel can ever block.
BuffersConserved ==
  LET queued == Available \o incoming \o outgoing \o Returned
                  \o (IF inw \in {"send", "dead"} THEN <<in_buf>> ELSE <<>>)
                  \o (IF outw \in {"acquire", "put"} THEN <<out_buf>> ELSE <<>>)
  IN  /\ Len(queued) = Cardinality(ToSet(queued))
      /\ Len(queued) + Cardinality(held) + Cardinality(free) = QueueSize
      /\ ToSet(queued) \cup held \cup free = Indices

\* A buffer that waits in the avail ring has a wakeup on its way, although
\* pending and the event index suppress notifications: the driver is still to
\* decide, its write or a message in the channel is to be handled, or
\* ProcessIncoming is to look at the ring once more.
WakeupInFlight ==
  Consumed # avail_idx =>
    posting \/ kick \/ handler = "sending" \/ notifications = 1 \/ inw # "recv"

\* A paused device is described by what is saved of it: the buffers inside the
\* device are the outstanding ones, so that resuming resubmits them
\* (virtio.go:77-81, "This is used for correctly suspending and resuming the active state of
\* the device").  It does not hold: OutDelete may come after the driver has posted the
\* buffer again and InTake has marked it (virtio.go:339).
OutstandingIsInDevice == run_lock = "closed" => Outstanding = InDevice

\* virtio.go:644-645 as its comment has it: once the address is cleared no notifications
\* are processed, that is ProcessIncoming finds no buffer on the ring (least of all one it
\* has taken before, now that Consumed is 0 again).  It does not hold of ResetSpec: a
\* notification that is in the channel by then is processed.
NothingFoundWhenCleared ==
  [][~QueueAddress /\ inw = "look" => inw' \in {"look", "recv"}]_vars

\* Pausing the device succeeds: no goroutine waits for another one while it
\* keeps the device from being paused.  The exception is a buffer that cannot
\* be mapped, after which the device cannot be paused any more.
QueuePauseReturns == run_lock = "closing" ~> run_lock = "closed" \/ inw = "dead"

\* Every buffer comes back to the driver, however often the device is paused
\* meanwhile, unless it is paused for good or ProcessIncoming has ended.
BufferReturns ==
  []<>(run_lock = "open") =>
    \A i \in Indices : i \notin free ~> i \in free \/ inw = "dead"

=============================================================================
