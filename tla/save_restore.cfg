SPECIFICATION FairSpec
CONSTANTS
  Vcpus = {1, 2}
  DevSeq <- MCDevSeq
  KernelDevs = {"apic"}
  ManualDevs = {"disk"}
  Main = Main
  Rpcs = {rpc}
  VcpuStates <- MCVcpuStates
  KernelStates <- MCKernelStates
  FreshVcpu <- MCFreshVcpu
  FreshKernel <- MCFreshKernel
  BootVcpu <- MCBootVcpu
  BootKernel <- MCBootKernel
  MsrList <- MCMsrList
  InterruptMayFail = TRUE
  Targets = {2}
  MaxSteps = 1
  Nobody = Nobody
  Nil = Nil
INVARIANTS
  SavedIsMachine
  RestartKeepsMachine
PROPERTIES
  CallsReturn
CHECK_DEADLOCK FALSE
