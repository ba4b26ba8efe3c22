-------------------------------- MODULE MsiX --------------------------------
(***************************************************************************)
(* The MSI-X table of a PCI device (machine/msix.go).  The goroutines of   *)
(* the device's channels raise interrupts; the handler of the table's BAR  *)
(* writes entries and the handler of the PCI configuration port writes the *)
(* control register.  None of them takes a lock the others take, so that   *)
(* the test of the mask, the read and the write of a byte of pending bits  *)
(* and the signal are separate steps.                                      *)
(*                                                                         *)
(* Of the registers only the bits that decide matter here: the enable bit  *)
(* of the control register (the others are read-only) and the mask bit of  *)
(* an entry.  The guest reads the pending bits and never writes them.      *)
(***************************************************************************)
EXTENDS Naturals, FiniteSets

CONSTANTS
  Workers,   \* goroutines that raise interrupts, one per channel
  Vectors,   \* the number of entries
  ByteBits,  \* pending bits in a byte: 8 in the code
  MaxRaised, \* bound: interrupts a worker raises
  MaxWrites, \* bound: writes of the guest
  Table, Conf

ASSUME VectorsAssumption == Vectors \in Nat \ {0} /\ ByteBits \in Nat \ {0}
ASSUME BoundsAssumption == MaxRaised \in Nat /\ MaxWrites \in Nat
ASSUME ActorsAssumption == Table # Conf /\ {Table, Conf} \cap Workers = {}

Actors == Workers \cup {Table, Conf}
Vecs   == 0 .. Vectors - 1

VARIABLES
  enabled,  \* the enable bit of MsiXConf.Control
  masked,   \* the mask bit of each entry
  Pending,  \* the vectors whose pending bit is set
  at,       \* where each goroutine is
  raised, writes,
  owed,     \* ghost: vectors raised and not signalled since
  clobbered, \* ghost: vectors whose bit a concurrent read and write lost or brought back
  late,     \* ghost: vectors set pending after they were unmasked
  stranded  \* ghost: vectors unmasked by a write of another entry, and not checked since

table  == <<enabled, masked>>
ghosts == <<owed, clobbered, late, stranded>>
msixVars == <<enabled, masked, Pending, at, raised, writes, ghosts>>

\* A goroutine is idle or at a step for a vector; val is the byte it has read.
Idle == [pc |-> "idle", vec |-> 0, val |-> {}]
Goes(a, pc, v) == at' = [at EXCEPT ![a] = [pc |-> pc, vec |-> v, val |-> {}]]

Byte(v) == {u \in Vecs : u \div ByteBits = v \div ByteBits}

\* The entry a vector's mask is read from has the number of the vector's byte.
IsMasked(v) == v \div ByteBits < Vectors /\ masked[v \div ByteBits]

\* NewMsiXDevice ranges over copies of the entries: none starts out masked.
MsiXInit ==
  /\ enabled = FALSE
  /\ masked = [v \in Vecs |-> FALSE]
  /\ Pending = {}
  /\ at = [a \in Actors |-> Idle]
  /\ raised = [w \in Workers |-> 0]
  /\ writes = 0
  /\ owed = {}
  /\ clobbered = {}
  /\ late = {}
  /\ stranded = {}

-----------------------------------------------------------------------------
(* VirtioChannel.Interrupt and SendInterrupt.                              *)

\* A worker raises an interrupt on the vector the guest has given its queue:
\* nothing happens without one (v = Vectors stands for that too), a vector past
\* the table is an error nobody looks at, and a disabled table means the interrupt line.
Interrupt(w, v) ==
  /\ at[w] = Idle
  /\ raised[w] < MaxRaised
  /\ raised' = [raised EXCEPT ![w] = @ + 1]
  /\ IF enabled /\ v \in Vecs
     THEN Goes(w, "send", v) /\ owed' = owed \cup {v}
     ELSE UNCHANGED <<at, owed>>
  /\ UNCHANGED <<table, Pending, writes, clobbered, late, stranded>>

\* What a goroutine does after SendInterrupt or CheckPending returns: the loop
\* of CheckAllPending goes on to the next vector.
Return(a, v) ==
  IF a = Conf /\ v + 1 < Vectors THEN Goes(a, "isPending", v + 1)
  ELSE at' = [at EXCEPT ![a] = Idle]

SendInterrupt(a) ==
  /\ at[a].pc = "send"
  /\ Goes(a, IF IsMasked(at[a].vec) THEN "setGet" ELSE "clearGet", at[a].vec)
  /\ UNCHANGED <<table, Pending, raised, writes, ghosts>>

\* SetPending and ClearPending read the byte.
Get8(a) ==
  /\ at[a].pc \in {"setGet", "clearGet"}
  /\ at' = [at EXCEPT ![a] = [pc  |-> IF @.pc = "setGet" THEN "setSet" ELSE "clearSet",
                              vec |-> @.vec,
                              val |-> Pending \cap Byte(@.vec)]]
  /\ UNCHANGED <<table, Pending, raised, writes, ghosts>>

\* Faulty variant: the other bits of the byte are not kept.
PendingWithOnly(a) == (Pending \ Byte(at[a].vec)) \cup {at[a].vec}

\* The pending bits with those of the byte just read and this vector's bit.
PendingWith(a) == (Pending \ Byte(at[a].vec)) \cup at[a].val \cup {at[a].vec}
PendingWithout(a) == (Pending \ Byte(at[a].vec)) \cup (at[a].val \ {at[a].vec})

\* Bits of the byte that changed since it was read go back to what they were.
Stale(a) == (Byte(at[a].vec) \ {at[a].vec}) \cap
  ((Pending \ at[a].val) \cup (at[a].val \ Pending))

SetPending(a) ==
  /\ at[a].pc = "setSet"
  /\ Pending' = PendingWith(a)
  /\ clobbered' = clobbered \cup Stale(a)
  /\ late' = IF IsMasked(at[a].vec) THEN late ELSE late \cup {at[a].vec}
  /\ Return(a, at[a].vec)
  /\ UNCHANGED <<table, raised, writes, owed, stranded>>

ClearPending(a) ==
  /\ at[a].pc = "clearSet"
  /\ Pending' = PendingWithout(a)
  /\ clobbered' = clobbered \cup Stale(a)
  /\ late' = late \ {at[a].vec}
  /\ Goes(a, "signal", at[a].vec)
  /\ UNCHANGED <<table, raised, writes, owed, stranded>>

\* vm.SignalMSI with the entry's address and data.
SignalMSI(a) ==
  /\ at[a].pc = "signal"
  /\ owed' = owed \ {at[a].vec}
  /\ Return(a, at[a].vec)
  /\ UNCHANGED <<table, Pending, raised, writes, clobbered, late, stranded>>

-----------------------------------------------------------------------------
(* The guest's writes.                                                     *)

\* The vectors whose mask the write takes back although it is not theirs.
Strands(v, control) ==
  IF masked[v] /\ ~control THEN stranded \cup {u \in Vecs \ {v} : u \div ByteBits = v} ELSE stranded

\* Faulty variant: a write of an entry does not look at its pending bit.
EntryWriteOnly(v, control) ==
  /\ at[Table] = Idle
  /\ writes < MaxWrites
  /\ writes' = writes + 1
  /\ masked' = [masked EXCEPT ![v] = control]
  /\ stranded' = Strands(v, control)
  /\ UNCHANGED <<at, enabled, Pending, raised, owed, clobbered, late>>

\* A write of an entry's control, and the deferred CheckPending.  A write of
\* address or data leaves the mask as it is: control = masked[v].
EntryWrite(v, control) ==
  /\ at[Table] = Idle
  /\ writes < MaxWrites
  /\ writes' = writes + 1
  /\ masked' = [masked EXCEPT ![v] = control]
  /\ stranded' = Strands(v, control)
  /\ Goes(Table, "isPending", v)
  /\ UNCHANGED <<enabled, Pending, raised, owed, clobbered, late>>

\* A write of the control register, and CheckAllPending.
ControlWrite(enable) ==
  /\ at[Conf] = Idle
  /\ writes < MaxWrites
  /\ writes' = writes + 1
  /\ enabled' = enable
  /\ Goes(Conf, "isPending", 0)
  /\ UNCHANGED <<masked, Pending, raised, ghosts>>

\* CheckPending reads the pending bit, then the mask, and then sends.
CheckPending(a) ==
  /\ at[a].pc = "isPending"
  /\ IF at[a].vec \in Pending THEN Goes(a, "isMasked", at[a].vec) ELSE Return(a, at[a].vec)
  /\ stranded' = stranded \ {at[a].vec}
  /\ UNCHANGED <<table, Pending, raised, writes, owed, clobbered, late>>

CheckMasked(a) ==
  /\ at[a].pc = "isMasked"
  /\ IF IsMasked(at[a].vec) THEN Return(a, at[a].vec) ELSE Goes(a, "send", at[a].vec)
  /\ UNCHANGED <<table, Pending, raised, writes, ghosts>>

Deliver(a) ==
  SendInterrupt(a) \/ Get8(a) \/ SetPending(a) \/ ClearPending(a) \/ SignalMSI(a)
    \/ CheckPending(a) \/ CheckMasked(a)

MsiXNext ==
  \/ \E w \in Workers, v \in 0 .. Vectors : Interrupt(w, v)
  \/ \E a \in Actors : Deliver(a)
  \/ \E v \in Vecs, control \in BOOLEAN : EntryWrite(v, control)
  \/ \E enable \in BOOLEAN : ControlWrite(enable)

MsiXSpec == MsiXInit /\ [][MsiXNext]_msixVars

-----------------------------------------------------------------------------
(* Properties.                                                             *)

\* A goroutine that will yet signal the vector, or set its bit.
InFlight(v) == \E a \in Actors :
  at[a].vec = v /\ at[a].pc \in {"send", "setGet", "setSet", "clearGet", "clearSet", "signal"}

\* An interrupt that was raised and not signalled has its pending bit set or
\* is still being sent, however the mask tests, the byte updates and the
\* checks interleave: it is lost only when another vector's read and write of
\* the same byte (msix.go:131, 136) straddles its own.
NoInterruptVanishes ==
  \A v \in owed : v \in Pending \/ InFlight(v) \/ v \in clobbered

\* When nothing is under way, a vector is pending and unmasked only because
\* its bit was set after the mask was taken back (the test at msix.go:348 is
\* stale at 350), because of a lost update, or because the mask that holds it
\* back is another entry's (msix.go:145): a write there checks only its own
\* vector, and the rest wait for the next write of their entry or of control.
PendingIsDelivered ==
  (\A a \in Actors : at[a] = Idle) =>
    \A v \in Pending : IsMasked(v) \/ v \in late \cup clobbered \cup stranded

=============================================================================
