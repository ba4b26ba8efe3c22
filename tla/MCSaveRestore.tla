--------------------------- MODULE MCSaveRestore ---------------------------
(* An instance of SaveRestore for TLC: two vcpus, the interrupt            *)
(* controllers in the kernel, and a device outside of it.                  *)
EXTENDS SaveRestore

K(gen, mp, exception, interrupt) ==
  [regs |-> [r \in RegisterNames |-> gen], mp |-> mp, cpuid |-> 1, lapic |-> gen,
   msrs |-> <<gen, 7>>, fpu |-> [f \in FpuFields |-> gen], xsave |-> gen,
   xcrs |-> [nr |-> 1, array |-> <<gen, 0>>],
   events |-> [exception |-> exception, interrupt |-> interrupt,
               nmi |-> gen = 2, sipi |-> 0, flags |-> 0]]

NoException == [injected |-> FALSE, nr |-> 0, has_code |-> FALSE, code |-> 0]
NoInterrupt == [injected |-> FALSE, nr |-> 0, soft |-> FALSE, shadow |-> FALSE]

MCFreshVcpu == K(0, "uninitialized", NoException, NoInterrupt)
MCVcpuStates ==
  {K(2, "halted", [injected |-> TRUE, nr |-> 14, has_code |-> TRUE, code |-> 2],
     [injected |-> TRUE, nr |-> 32, soft |-> FALSE, shadow |-> TRUE])}

\* An interrupt shadow, and no interrupt.
MCBootVcpu == K(1, "runnable", NoException, [NoInterrupt EXCEPT !.shadow = TRUE])

Kernel(gen) == [d \in KernelDevs |-> [c \in Chips |-> gen]]
MCFreshKernel == Kernel(0)
MCBootKernel == Kernel(1)
MCKernelStates == {Kernel(2)}

MCDevSeq == <<"apic", "disk">>
MCMsrList == <<1, 2>>
=============================================================================
