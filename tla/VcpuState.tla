------------------------------ MODULE VcpuState ------------------------------
(***************************************************************************)
(* What a vcpu and the in-kernel devices are saved as and loaded from      *)
(* (platform/state.go, kvm_events.go, kvm_msrs.go, kvm_apic.go, ...).  The *)
(* state KVM holds is k; the operators Get... give what the code keeps of  *)
(* a part of it, Set... what KVM holds once that has been written.  Values *)
(* of registers and the like are opaque; Nil is a nil pointer or slice.    *)
(***************************************************************************)
EXTENDS Naturals, Sequences, SequencesExt

CONSTANT Nil

\* Fields that are copied one by one.
FpuFields   == {"fpr", "fcw", "fsw", "ftwx", "last", "xmm", "mxcsr"}
MpStates    == {"runnable", "uninitialized", "init-received", "halted", "sipi-received"}
Chips       == {"pic1", "pic2", "ioapic"}
RegisterNames == {"general", "control", "descriptors", "segments"}

-----------------------------------------------------------------------------
(* The parts of a vcpu.                                                    *)

GetRegisters(k) == [r \in RegisterNames |-> k.regs[r]]

\* A register without a value is left alone.
SetRegisters(k, regs) ==
  [k EXCEPT !.regs = [r \in RegisterNames |-> IF regs[r] = Nil THEN @[r] ELSE regs[r]]]

GetMpState(k)     == k.mp
SetMpState(k, mp) == [k EXCEPT !.mp = mp]

\* KVM is not asked: the cpuid is what was set last.
GetCpuid(k)        == k.cpuid
SetCpuid(k, cpuid) == [k EXCEPT !.cpuid = cpuid]

GetLApic(k)        == [data |-> k.lapic]
SetLApic(k, lapic) == IF lapic.data = Nil THEN k ELSE [k EXCEPT !.lapic = lapic.data]

\* The MSRs KVM lists, one by one, and back.
GetMsrs(k, list) == [i \in DOMAIN list |-> [index |-> list[i], value |-> k.msrs[list[i]]]]
\* They are written in their order: of two with one index the last counts.
SetMsrs(k, msrs) ==
  LET at(x) == {i \in DOMAIN msrs : msrs[i].index = x}
      last(x) == CHOOSE i \in at(x) : \A j \in at(x) : j <= i
  IN  [k EXCEPT !.msrs = [x \in DOMAIN @ |-> IF at(x) = {} THEN @[x] ELSE msrs[last(x)].value]]

\* Faulty variant: an interrupt under injection is dropped.
GetEventsNoInterrupt(k) ==
  LET e == k.events
  IN  [exception |-> IF ~e.exception.injected THEN Nil
                     ELSE [number |-> e.exception.nr,
                           code |-> IF e.exception.has_code THEN e.exception.code ELSE Nil],
       interrupt |-> Nil, nmi |-> e.nmi, sipi |-> e.sipi, flags |-> e.flags]

\* An exception and an interrupt are kept if they are being injected; the
\* interrupt shadow is part of the interrupt, and lost without one.
GetEvents(k) ==
  LET e == k.events
  IN  [exception |-> IF ~e.exception.injected THEN Nil
                     ELSE [number |-> e.exception.nr,
                           code |-> IF e.exception.has_code THEN e.exception.code ELSE Nil],
       interrupt |-> IF ~e.interrupt.injected THEN Nil
                     ELSE [number |-> e.interrupt.nr, soft |-> e.interrupt.soft,
                           shadow |-> e.interrupt.shadow],
       nmi |-> e.nmi, sipi |-> e.sipi, flags |-> e.flags]

SetEvents(k, events) ==
  LET x == events.exception
      i == events.interrupt
  IN  [k EXCEPT !.events =
        [exception |-> IF x = Nil THEN [injected |-> FALSE, nr |-> 0, has_code |-> FALSE, code |-> 0]
                       ELSE [injected |-> TRUE, nr |-> x.number, has_code |-> x.code # Nil,
                             code |-> IF x.code # Nil THEN x.code ELSE 0],
         interrupt |-> IF i = Nil THEN [injected |-> FALSE, nr |-> 0, soft |-> FALSE, shadow |-> FALSE]
                       ELSE [injected |-> TRUE, nr |-> i.number, soft |-> i.soft, shadow |-> i.shadow],
         nmi |-> events.nmi, sipi |-> events.sipi, flags |-> events.flags]]

GetFpuState(k)      == [f \in FpuFields |-> k.fpu[f]]
SetFpuState(k, fpu) == [k EXCEPT !.fpu = [f \in FpuFields |-> fpu[f]]]

\* KVM gives the number of registers and an array with room for more.
GetXcrs(k)       == [i \in 1 .. k.xcrs.nr |-> k.xcrs.array[i]]
SetXcrs(k, xcrs) ==
  [k EXCEPT !.xcrs = [nr |-> Len(xcrs),
                      array |-> [i \in DOMAIN @.array |-> IF i <= Len(xcrs) THEN xcrs[i] ELSE 0]]]

GetXSave(k)         == k.xsave
SetXSave(k, region) == [k EXCEPT !.xsave = region]

-----------------------------------------------------------------------------
(* A vcpu.                                                                 *)

NewVcpuInfo(k, list) ==
  [registers |-> GetRegisters(k), mp |-> GetMpState(k), cpuid |-> GetCpuid(k),
   lapic |-> GetLApic(k), msrs |-> GetMsrs(k, list), events |-> GetEvents(k),
   fpu |-> GetFpuState(k), xcrs |-> GetXcrs(k), xsave |-> GetXSave(k)]

\* Writing it out fails for a state that has no name.
Marshals(info) == info.mp \in MpStates

\* The parts in the order they are loaded; n of them, when one fails.
LoadParts(k, info, n) ==
  LET a == SetRegisters(k, info.registers)
      b == IF n > 1 /\ info.mp # Nil THEN SetMpState(a, info.mp) ELSE a
      c == IF n > 2 /\ info.cpuid # Nil THEN SetCpuid(b, info.cpuid) ELSE b
      d == IF n > 3 THEN SetLApic(c, info.lapic) ELSE c
      e == IF n > 4 /\ info.msrs # Nil THEN SetMsrs(d, info.msrs) ELSE d
      f == IF n > 5 THEN SetEvents(e, info.events) ELSE e
      g == IF n > 6 /\ info.fpu # Nil THEN SetFpuState(f, info.fpu) ELSE f
      h == IF n > 7 /\ info.xcrs # Nil THEN SetXcrs(g, info.xcrs) ELSE g
  IN  IF n > 8 /\ info.xsave # Nil THEN SetXSave(h, info.xsave) ELSE h

Parts == 9

\* What KVM can hold: the fields are there, an array has slots elements, and
\* nothing that can be read is Nil.
IsVcpu(k, list, slots) ==
  LET x == k.events.exception
      i == k.events.interrupt
  IN  /\ k = [regs |-> [r \in RegisterNames |-> k.regs[r]], mp |-> k.mp, cpuid |-> k.cpuid,
              lapic |-> k.lapic, msrs |-> [m \in ToSet(list) |-> k.msrs[m]], events |-> k.events,
              fpu |-> [f \in FpuFields |-> k.fpu[f]], xcrs |-> k.xcrs, xsave |-> k.xsave]
      /\ k.xcrs = [nr |-> k.xcrs.nr, array |-> [n \in 1 .. slots |-> k.xcrs.array[n]]]
      /\ slots \in Nat /\ k.xcrs.nr \in 0 .. slots
      /\ k.events = [exception |-> x, interrupt |-> i, nmi |-> k.events.nmi,
                     sipi |-> k.events.sipi, flags |-> k.events.flags]
      /\ x = [injected |-> x.injected, nr |-> x.nr, has_code |-> x.has_code, code |-> x.code]
      /\ i = [injected |-> i.injected, nr |-> i.nr, soft |-> i.soft, shadow |-> i.shadow]
      /\ {x.injected, x.has_code, i.injected} \subseteq BOOLEAN
      /\ \A r \in RegisterNames : k.regs[r] # Nil
      /\ k.mp # Nil /\ k.cpuid # Nil /\ k.lapic # Nil /\ GetMsrs(k, list) # Nil
      /\ GetFpuState(k) # Nil /\ GetXcrs(k) # Nil /\ k.xsave # Nil
      /\ x.injected => /\ x.has_code => x.code # Nil
                       /\ [number |-> x.nr, code |-> IF x.has_code THEN x.code ELSE Nil] # Nil
      /\ i.injected => [number |-> i.nr, soft |-> i.soft, shadow |-> i.shadow] # Nil

-----------------------------------------------------------------------------
(* The devices KVM emulates.                                               *)

GetIrqChip(chip) == [c \in Chips |-> chip[c]]
SetIrqChip(chip, state) == [c \in Chips |-> IF state[c] = Nil THEN chip[c] ELSE state[c]]

GetPit(pit)        == [data |-> pit]
SetPit(pit, state) == IF state.data = Nil THEN pit ELSE state.data

GetClock(clock)        == [time |-> clock.time, flags |-> clock.flags]
SetClock(clock, state) == [clock EXCEPT !.time = state.time, !.flags = state.flags]

IsIrqChip(chip) == chip = [c \in Chips |-> chip[c]] /\ \A c \in Chips : chip[c] # Nil
IsPit(pit)      == pit # Nil
IsClock(clock)  == clock = [time |-> clock.time, flags |-> clock.flags]

=============================================================================
