----------------------------- MODULE SchedProofs -----------------------------
(***************************************************************************)
(* Proofs about Sched, for every table size, every set of page tables and  *)
(* every mix of calls.                                                     *)
(***************************************************************************)
EXTENDS Sched, WellFoundedInduction, TLAPS

\* A process has a page table, and on every way back to the process the core
\* was taken from, the core still is on it, unless an execve replaced it.
HeldAsp ==
    /\ \A p \in used : cr3[p] \in Asps
    /\ mode \in {"user", "sysret"} => current_pid \in used
    /\ mode \in {"user", "sysret"} => asp = cr3[current_pid]
    /\ mode \in {"switch", "idle"} /\ current_pid \in used /\ scheduler_execve = 0
           => asp = cr3[current_pid]

\* What a parked process waits for is what its reason says.
WaitTargets ==
    \A p \in used \cap is_blocked :
        /\ why[p] = "child" => wait_pid[p] \in Pids \ {p}
        /\ why[p] = "anychild" => wait_pid[p] = WAIT_ANY

IInv ==
    /\ TypeOK
    /\ PwdKept
    /\ HeldAsp
    /\ NoZombie
    /\ OrphansHaveInit
    /\ WaitTargets
    /\ NoLostWakeup

-----------------------------------------------------------------------------
(* IInv is inductive: one lemma per action.                                *)

\* Slot 0, where reparent_children sends the orphans, is in the table.
LEMMA ZeroPid == 0 \in Pids
  BY SchedAssumption DEF Pids

\* The 16 bits of an exit code that the slot keeps are a natural number.
LEMMA U16Type == \A c \in Int : U16(c) \in Nat
  BY DEF U16

\* The initial state: init alone, running.
LEMMA InitIInv == Init => IInv
<1> SUFFICES ASSUME Init PROVE IInv
  OBVIOUS
<1> USE SchedAssumption DEF Init
<1>0. 0 \in Pids
  BY DEF Pids
<1>1. TypeOK
  BY <1>0 DEF TypeOK, Contexts, Modes, Reasons, NoStatus
<1>2. PwdKept /\ HeldAsp /\ NoZombie /\ OrphansHaveInit
  BY <1>0 DEF PwdKept, HeldAsp, NoZombie, OrphansHaveInit
<1>3. WaitTargets /\ NoLostWakeup
  BY <1>0 DEF WaitTargets, NoLostWakeup
<1> QED
  BY <1>1, <1>2, <1>3 DEF IInv

\* A creation without a page table stops the machine, on the kernel's.
LEMMA LoadNoAspStep ==
    ASSUME IInv, LoadNoAsp
    PROVE  IInv'
<1> USE SchedAssumption DEF IInv, LoadNoAsp, CanCall, table
<1>1. TypeOK'
  BY DEF TypeOK, Contexts, Modes, Reasons
<1>2. PwdKept' /\ HeldAsp' /\ NoZombie'
  BY DEF TypeOK, PwdKept, HeldAsp, NoZombie
<1>3. OrphansHaveInit'
  BY DEF OrphansHaveInit
<1>4. WaitTargets' /\ NoLostWakeup'
  BY DEF WaitTargets, NoLostWakeup, LiveChild
<1> HIDE DEF LoadNoAsp
<1> QED
  BY <1>1, <1>2, <1>3, <1>4

\* A creation that fails in load_program or stat leaves the table as it was.
LEMMA LoadLeaksStep ==
    ASSUME IInv, LoadLeaks
    PROVE  IInv'
<1> USE SchedAssumption DEF IInv, LoadLeaks, CanCall, Return, table
<1>1. TypeOK'
  BY DEF TypeOK, Contexts, Modes, Reasons
<1>2. PwdKept' /\ HeldAsp' /\ NoZombie'
  BY DEF TypeOK, PwdKept, HeldAsp, NoZombie
<1>3. OrphansHaveInit'
  BY DEF TypeOK, HeldAsp, NoZombie, OrphansHaveInit
<1>4. WaitTargets' /\ NoLostWakeup'
  BY DEF TypeOK, WaitTargets, NoLostWakeup, LiveChild
<1> HIDE DEF LoadLeaks
<1> QED
  BY <1>1, <1>2, <1>3, <1>4

\* A creation that fails on the working directory leaves its slot free.
LEMMA NewprocNoPwdStep ==
    ASSUME IInv, NewprocNoPwd
    PROVE  IInv'
<1> USE SchedAssumption DEF IInv, NewprocNoPwd, CanCall, Return, FirstFree
<1>1. TypeOK'
  BY DEF TypeOK, Contexts, Modes, Reasons
<1>2. PwdKept' /\ HeldAsp' /\ NoZombie'
  BY DEF TypeOK, PwdKept, HeldAsp, NoZombie
<1>3. OrphansHaveInit'
  BY DEF TypeOK, HeldAsp, NoZombie, OrphansHaveInit
<1>4. WaitTargets' /\ NoLostWakeup'
  BY DEF TypeOK, WaitTargets, NoLostWakeup, LiveChild
<1> HIDE DEF NewprocNoPwd
<1> QED
  BY <1>1, <1>2, <1>3, <1>4

\* SYS_NEWPROC fills a free slot with a live child of the caller.
LEMMA SysNewprocStep ==
    ASSUME IInv, SysNewproc
    PROVE  IInv'
<1> USE SchedAssumption DEF IInv, SysNewproc, CanCall, Return, FirstFree,
           LoadProgram
<1>1. TypeOK'
  BY DEF TypeOK, Contexts, Modes, Reasons
<1>2. PwdKept' /\ HeldAsp' /\ NoZombie'
  BY DEF TypeOK, PwdKept, HeldAsp, NoZombie
<1>3. OrphansHaveInit'
  BY DEF TypeOK, HeldAsp, NoZombie, OrphansHaveInit
<1>4. WaitTargets' /\ NoLostWakeup'
  BY SMTT(60) DEF TypeOK, WaitTargets, NoLostWakeup, LiveChild
<1> HIDE DEF SysNewproc
<1> QED
  BY <1>1, <1>2, <1>3, <1>4

\* SYS_EXECVE replaces the page table of the caller only.
LEMMA SysExecveStep ==
    ASSUME IInv, SysExecve
    PROVE  IInv'
<1> USE SchedAssumption DEF IInv, SysExecve, CanCall, LoadProgram
<1>1. TypeOK'
  BY DEF TypeOK, Contexts, Modes, Reasons
<1>2. PwdKept' /\ HeldAsp' /\ NoZombie'
  BY DEF TypeOK, PwdKept, HeldAsp, NoZombie
<1>3. OrphansHaveInit'
  BY SMTT(60) DEF TypeOK, HeldAsp, NoZombie, OrphansHaveInit
<1>4. WaitTargets' /\ NoLostWakeup'
  BY SMTT(60) DEF TypeOK, WaitTargets, NoLostWakeup, LiveChild
<1> HIDE DEF SysExecve
<1> QED
  BY <1>1, <1>2, <1>3, <1>4

\* SYS_EXIT gives the orphans to init and wakes the parent that waits.
LEMMA SysExitStep ==
    ASSUME IInv, NEW c \in Codes, SysExit(c)
    PROVE  IInv'
<1> USE SchedAssumption DEF IInv, SysExit, CanCall, EndProc, wake_waiter,
           reparent_children, Wakes
<1>1. TypeOK'
  BY ZeroPid, U16Type, SMTT(60) DEF TypeOK, Contexts, Modes, Reasons
<1>2. PwdKept' /\ HeldAsp' /\ NoZombie'
  BY DEF TypeOK, PwdKept, HeldAsp, NoZombie
<1>3. OrphansHaveInit'
  BY SMTT(60) DEF TypeOK, HeldAsp, NoZombie, OrphansHaveInit
<1>4. WaitTargets' /\ NoLostWakeup'
  BY SMTT(60) DEF TypeOK, WaitTargets, NoLostWakeup, LiveChild
<1> HIDE DEF SysExit
<1> QED
  BY <1>1, <1>2, <1>3, <1>4

\* SYS_KILL does the same for another process than the caller.
LEMMA SysKillStep ==
    ASSUME IInv, NEW pid \in Pids, SysKill(pid)
    PROVE  IInv'
<1> USE SchedAssumption DEF IInv, SysKill, CanCall, Return, EndProc,
           wake_waiter, reparent_children, Wakes
<1>1. TypeOK'
  BY ZeroPid, U16Type, SMTT(60) DEF TypeOK, Contexts, Modes, Reasons
<1>2. PwdKept' /\ HeldAsp' /\ NoZombie'
  BY DEF TypeOK, PwdKept, HeldAsp, NoZombie
<1>3. OrphansHaveInit'
  BY SMTT(60) DEF TypeOK, HeldAsp, NoZombie, OrphansHaveInit
<1>4. WaitTargets' /\ NoLostWakeup'
  BY SMTT(60) DEF TypeOK, WaitTargets, NoLostWakeup, LiveChild
<1> HIDE DEF SysKill
<1> QED
  BY <1>1, <1>2, <1>3, <1>4

\* A fault ends the faulting process, or stops the machine with init.
LEMMA UserFaultStep ==
    ASSUME IInv, UserFault
    PROVE  IInv'
<1> USE SchedAssumption DEF IInv, UserFault, CanCall, wake_waiter,
           reparent_children, Wakes
<1>1. TypeOK'
  BY ZeroPid, U16Type, SMTT(60) DEF TypeOK, Contexts, Modes, Reasons
<1>2. PwdKept' /\ HeldAsp' /\ NoZombie'
  BY DEF TypeOK, PwdKept, HeldAsp, NoZombie
<1>3. OrphansHaveInit'
  BY SMTT(60) DEF TypeOK, HeldAsp, NoZombie, OrphansHaveInit
<1>4. WaitTargets' /\ NoLostWakeup'
  BY SMTT(60) DEF TypeOK, WaitTargets, NoLostWakeup, LiveChild
<1> HIDE DEF UserFault
<1> QED
  BY <1>1, <1>2, <1>3, <1>4

\* SYS_WAIT on a pid parks the caller on a live process.
LEMMA SysWaitStep ==
    ASSUME IInv, NEW pid \in Pids, NEW ptr \in StatusPtrs, SysWait(pid, ptr)
    PROVE  IInv'
<1> USE SchedAssumption DEF IInv, SysWait, CanCall, Return, EHANG
<1>1. TypeOK'
  BY SMTT(60) DEF TypeOK, Contexts, Modes, Reasons
<1>2. PwdKept' /\ HeldAsp' /\ NoZombie'
  BY DEF TypeOK, PwdKept, HeldAsp, NoZombie
<1>3. OrphansHaveInit'
  BY SMTT(60) DEF TypeOK, HeldAsp, NoZombie, OrphansHaveInit
<1>4. WaitTargets' /\ NoLostWakeup'
  BY SMTT(60) DEF TypeOK, WaitTargets, NoLostWakeup, LiveChild
<1> HIDE DEF SysWait
<1> QED
  BY <1>1, <1>2, <1>3, <1>4

\* SYS_WAIT(-1) that takes a dead slot changes no live process.
LEMMA SysWaitAnyDeadStep ==
    ASSUME IInv, NEW ptr \in StatusPtrs, SysWaitAnyDead(ptr)
    PROVE  IInv'
<1> USE SchedAssumption DEF IInv, SysWaitAnyDead, CanCall, Return,
           DeadChildren, U16
<1>1. TypeOK'
  BY SMTT(60) DEF TypeOK, Contexts, Modes, Reasons
<1>2. PwdKept' /\ HeldAsp' /\ NoZombie'
  BY SMTT(60) DEF TypeOK, PwdKept, HeldAsp, NoZombie
<1>3. OrphansHaveInit'
  BY SMTT(60) DEF TypeOK, HeldAsp, NoZombie, OrphansHaveInit
<1>4. WaitTargets' /\ NoLostWakeup'
  BY SMTT(60) DEF TypeOK, WaitTargets, NoLostWakeup, LiveChild
<1> HIDE DEF SysWaitAnyDead
<1> QED
  BY <1>1, <1>2, <1>3, <1>4

\* SYS_WAIT(-1) without a dead child marks the caller.
LEMMA SysWaitAnyHangStep ==
    ASSUME IInv, NEW ptr \in StatusPtrs, SysWaitAnyHang(ptr)
    PROVE  IInv'
<1> USE SchedAssumption DEF IInv, SysWaitAnyHang, CanCall, Return,
           DeadChildren
<1>1. TypeOK'
  BY DEF TypeOK, Contexts, Modes, Reasons
<1>2. PwdKept' /\ HeldAsp' /\ NoZombie'
  BY SMTT(60) DEF TypeOK, PwdKept, HeldAsp, NoZombie
<1>3. OrphansHaveInit'
  BY SMTT(60) DEF TypeOK, HeldAsp, NoZombie, OrphansHaveInit
<1>4. WaitTargets' /\ NoLostWakeup'
  BY SMTT(60) DEF TypeOK, WaitTargets, NoLostWakeup, LiveChild
<1> HIDE DEF SysWaitAnyHang
<1> QED
  BY <1>1, <1>2, <1>3, <1>4

\* SYS_SLEEP parks the caller with a deadline.
LEMMA SysSleepStep ==
    ASSUME IInv, NEW d \in Durations, SysSleep(d)
    PROVE  IInv'
<1> USE SchedAssumption DEF IInv, SysSleep, CanCall, Return
<1>1. TypeOK'
  BY SMTT(60) DEF TypeOK, Contexts, Modes, Reasons
<1>2. PwdKept' /\ HeldAsp' /\ NoZombie'
  BY DEF TypeOK, PwdKept, HeldAsp, NoZombie
<1>3. OrphansHaveInit'
  BY SMTT(60) DEF TypeOK, HeldAsp, NoZombie, OrphansHaveInit
<1>4. WaitTargets' /\ NoLostWakeup'
  BY SMTT(60) DEF TypeOK, WaitTargets, NoLostWakeup, LiveChild
<1> HIDE DEF SysSleep
<1> QED
  BY <1>1, <1>2, <1>3, <1>4

\* SYS_SETPWD gives the caller another directory.
LEMMA SysSetpwdStep ==
    ASSUME IInv, NEW d \in Dirs, SysSetpwd(d)
    PROVE  IInv'
<1> USE SchedAssumption DEF IInv, SysSetpwd, CanCall, Return
<1>1. TypeOK'
  BY DEF TypeOK, Contexts, Modes, Reasons
<1>2. PwdKept' /\ HeldAsp' /\ NoZombie'
  BY DEF TypeOK, PwdKept, HeldAsp, NoZombie
<1>3. OrphansHaveInit'
  BY SMTT(60) DEF TypeOK, HeldAsp, NoZombie, OrphansHaveInit
<1>4. WaitTargets' /\ NoLostWakeup'
  BY DEF TypeOK, WaitTargets, NoLostWakeup, LiveChild
<1> HIDE DEF SysSetpwd
<1> QED
  BY <1>1, <1>2, <1>3, <1>4

\* Other calls leave the process table.
LEMMA SysOtherStep ==
    ASSUME IInv, SysOther
    PROVE  IInv'
<1> USE SchedAssumption DEF IInv, SysOther, Return, table
<1>1. TypeOK'
  BY DEF TypeOK, Contexts, Modes, Reasons
<1>2. PwdKept' /\ HeldAsp' /\ NoZombie'
  BY DEF TypeOK, PwdKept, HeldAsp, NoZombie
<1>3. OrphansHaveInit'
  BY SMTT(60) DEF TypeOK, HeldAsp, NoZombie, OrphansHaveInit
<1>4. WaitTargets' /\ NoLostWakeup'
  BY DEF TypeOK, WaitTargets, NoLostWakeup, LiveChild
<1> HIDE DEF SysOther
<1> QED
  BY <1>1, <1>2, <1>3, <1>4

\* A tick in user mode starts a switch.
LEMMA TickUserStep ==
    ASSUME IInv, TickUser
    PROVE  IInv'
<1> USE SchedAssumption DEF IInv, TickUser, table
<1>1. TypeOK'
  BY DEF TypeOK, Contexts, Modes, Reasons
<1>2. PwdKept' /\ HeldAsp' /\ NoZombie'
  BY DEF TypeOK, PwdKept, HeldAsp, NoZombie
<1>3. OrphansHaveInit'
  BY SMTT(60) DEF TypeOK, HeldAsp, NoZombie, OrphansHaveInit
<1>4. WaitTargets' /\ NoLostWakeup'
  BY DEF TypeOK, WaitTargets, NoLostWakeup, LiveChild
<1> HIDE DEF TickUser
<1> QED
  BY <1>1, <1>2, <1>3, <1>4

\* A tick in the kernel is noted.
LEMMA TickKernelStep ==
    ASSUME IInv, TickKernel
    PROVE  IInv'
<1> USE SchedAssumption DEF IInv, TickKernel, table
<1>1. TypeOK'
  BY DEF TypeOK, Contexts, Modes, Reasons
<1>2. PwdKept' /\ HeldAsp' /\ NoZombie'
  BY DEF TypeOK, PwdKept, HeldAsp, NoZombie
<1>3. OrphansHaveInit'
  BY SMTT(60) DEF TypeOK, HeldAsp, NoZombie, OrphansHaveInit
<1>4. WaitTargets' /\ NoLostWakeup'
  BY DEF TypeOK, WaitTargets, NoLostWakeup, LiveChild
<1> HIDE DEF TickKernel
<1> QED
  BY <1>1, <1>2, <1>3, <1>4

\* The way out of a call goes to user mode or to a switch.
LEMMA SyscallExitStep ==
    ASSUME IInv, SyscallExit
    PROVE  IInv'
<1> USE SchedAssumption DEF IInv, SyscallExit, LateTick, table
<1>1. TypeOK'
  BY DEF TypeOK, Contexts, Modes, Reasons
<1>2. PwdKept' /\ HeldAsp' /\ NoZombie'
  BY DEF TypeOK, PwdKept, HeldAsp, NoZombie
<1>3. OrphansHaveInit'
  BY SMTT(60) DEF TypeOK, HeldAsp, NoZombie, OrphansHaveInit
<1>4. WaitTargets' /\ NoLostWakeup'
  BY DEF TypeOK, WaitTargets, NoLostWakeup, LiveChild
<1> HIDE DEF SyscallExit
<1> QED
  BY <1>1, <1>2, <1>3, <1>4

\* scheduler_switch returns to the process it came from.
LEMMA ResumeStep ==
    ASSUME IInv, Resume
    PROVE  IInv'
<1> USE SchedAssumption DEF IInv, Resume, nextproc, Eligible, EndSleep,
           LateTick
<1>1. TypeOK'
  BY SMTT(60) DEF TypeOK, Contexts, Modes, Reasons
<1>2. PwdKept' /\ HeldAsp' /\ NoZombie'
  BY SMTT(60) DEF TypeOK, PwdKept, HeldAsp, NoZombie
<1>3. OrphansHaveInit'
  BY SMTT(60) DEF TypeOK, HeldAsp, NoZombie, OrphansHaveInit
<1>4. WaitTargets' /\ NoLostWakeup'
  BY SMTT(60) DEF TypeOK, WaitTargets, NoLostWakeup, LiveChild
<1> HIDE DEF Resume
<1> QED
  BY <1>1, <1>2, <1>3, <1>4

\* scheduler_switch leaves for a live process, on its page table.
LEMMA DispatchStep ==
    ASSUME IInv, NEW t \in Pids, Dispatch(t)
    PROVE  IInv'
<1> USE SchedAssumption DEF IInv, Dispatch, nextproc, Eligible, EndSleep,
           LateTick
<1>1. TypeOK'
  BY SMTT(60) DEF TypeOK, HeldAsp, PwdKept, Contexts, Modes, Reasons
<1>2. PwdKept' /\ HeldAsp' /\ NoZombie'
  BY SMTT(60) DEF TypeOK, PwdKept, HeldAsp, NoZombie
<1>3. OrphansHaveInit'
  BY SMTT(60) DEF TypeOK, HeldAsp, NoZombie, OrphansHaveInit
<1>4. WaitTargets' /\ NoLostWakeup'
  BY SMTT(60) DEF TypeOK, WaitTargets, NoLostWakeup, LiveChild
<1> HIDE DEF Dispatch
<1> QED
  BY <1>1, <1>2, <1>3, <1>4

\* Waiting in scheduler_switch changes nothing.
LEMMA IdleStep ==
    ASSUME IInv, Idle
    PROVE  IInv'
<1> USE SchedAssumption DEF IInv, Idle, LateTick, table
<1>1. TypeOK'
  BY SMTT(60) DEF TypeOK, Contexts, Modes, Reasons
<1>2. PwdKept' /\ HeldAsp' /\ NoZombie'
  BY SMTT(60) DEF TypeOK, PwdKept, HeldAsp, NoZombie
<1>3. OrphansHaveInit'
  BY SMTT(60) DEF TypeOK, HeldAsp, NoZombie, OrphansHaveInit
<1>4. WaitTargets' /\ NoLostWakeup'
  BY SMTT(60) DEF TypeOK, WaitTargets, NoLostWakeup, LiveChild
<1> HIDE DEF Idle
<1> QED
  BY <1>1, <1>2, <1>3, <1>4

\* So does the clock.
LEMMA ClockStep ==
    ASSUME IInv, Clock
    PROVE  IInv'
<1> USE SchedAssumption DEF IInv, Clock, table, cpu
<1>1. TypeOK'
  BY SMTT(60) DEF TypeOK, Contexts, Modes, Reasons
<1>2. PwdKept' /\ HeldAsp' /\ NoZombie'
  BY SMTT(60) DEF TypeOK, PwdKept, HeldAsp, NoZombie
<1>3. OrphansHaveInit'
  BY SMTT(60) DEF TypeOK, HeldAsp, NoZombie, OrphansHaveInit
<1>4. WaitTargets' /\ NoLostWakeup'
  BY DEF TypeOK, WaitTargets, NoLostWakeup, LiveChild
<1> HIDE DEF Clock
<1> QED
  BY <1>1, <1>2, <1>3, <1>4

\* Steps that change nothing, and the halted machine, keep IInv.
LEMMA StutterIInv ==
    ASSUME IInv, UNCHANGED vars
    PROVE  IInv'
<1> USE DEF IInv, vars, table, cpu
<1>1. TypeOK'
  BY DEF TypeOK
<1>2. PwdKept' /\ HeldAsp' /\ NoZombie' /\ OrphansHaveInit'
  BY SMTT(60) DEF PwdKept, HeldAsp, NoZombie, OrphansHaveInit
<1>3. WaitTargets' /\ NoLostWakeup'
  BY DEF WaitTargets, NoLostWakeup, LiveChild
<1> QED
  BY <1>1, <1>2, <1>3, SMTT(60)

\* Every step of the machine keeps IInv.
LEMMA NextIInv ==
    ASSUME IInv, [Next]_vars
    PROVE  IInv'
<1>0. CASE LoadNoAsp
  BY <1>0, LoadNoAspStep
<1>1. CASE LoadLeaks
  BY <1>1, LoadLeaksStep
<1>2. CASE NewprocNoPwd
  BY <1>2, NewprocNoPwdStep
<1>3. CASE SysNewproc
  BY <1>3, SysNewprocStep
<1>4. CASE SysExecve
  BY <1>4, SysExecveStep
<1>5. CASE \E c \in Codes : SysExit(c)
  BY <1>5, SysExitStep
<1>6. CASE \E p \in Pids : SysKill(p)
  BY <1>6, SysKillStep
<1>7. CASE \E p \in Pids, ptr \in StatusPtrs : SysWait(p, ptr)
  BY <1>7, SysWaitStep, SMTT(60)
<1>8. CASE \E ptr \in StatusPtrs : SysWaitAnyDead(ptr)
  BY <1>8, SysWaitAnyDeadStep
<1>9. CASE \E ptr \in StatusPtrs : SysWaitAnyHang(ptr)
  BY <1>9, SysWaitAnyHangStep
<1>10. CASE \E d \in Durations : SysSleep(d)
  BY <1>10, SysSleepStep
<1>11. CASE \E d \in Dirs : SysSetpwd(d)
  BY <1>11, SysSetpwdStep
<1>12. CASE SysOther
  BY <1>12, SysOtherStep
<1>13. CASE UserFault
  BY <1>13, UserFaultStep
<1>14. CASE TickUser
  BY <1>14, TickUserStep
<1>15. CASE TickKernel
  BY <1>15, TickKernelStep
<1>16. CASE SyscallExit
  BY <1>16, SyscallExitStep
<1>17. CASE Resume
  BY <1>17, ResumeStep
<1>18. CASE \E t \in Pids : Dispatch(t)
  BY <1>18, DispatchStep
<1>19. CASE Idle
  BY <1>19, IdleStep
<1>20. CASE Clock
  BY <1>20, ClockStep
<1>21. CASE UNCHANGED vars
  BY <1>21, StutterIInv
<1> QED
  BY <1>0, <1>1, <1>2, <1>3, <1>4, <1>5, <1>6, <1>7, <1>8, <1>9, <1>10, <1>11,
     <1>12, <1>13, <1>14, <1>15, <1>16, <1>17, <1>18, <1>19, <1>20, <1>21,
     SMTT(60)
     DEF Next, Syscall, Tick, Switch, Halted

-----------------------------------------------------------------------------
(* Safety.                                                                 *)

\* The inductive invariant holds in every reachable state.
THEOREM Invariance == Spec => []IInv
<1>1. Init => IInv
  BY InitIInv
<1>2. IInv /\ [Next]_vars => IInv'
  BY NextIInv
<1> QED
  BY <1>1, <1>2, PTL DEF Spec

\* Every field of the process table and of the core stays within its type.
THEOREM TypeCorrect == Spec => []TypeOK
<1>1. IInv => TypeOK
  BY SMTT(60) DEF IInv
<1> QED
  BY <1>1, Invariance, PTL

\* User code runs only as a process that is in the table and alive, on its own
\* page table (sys_exit, sys_kill, kill_user_process, scheduler_switch).
THEOREM CurrentAlwaysRuns == Spec => []CurrentRuns
<1>1. IInv => CurrentRuns
  BY DEF IInv, TypeOK, HeldAsp, NoZombie, CurrentRuns
<1> QED
  BY <1>1, Invariance, PTL

\* No death slips past a parent parked in SYS_WAIT (wake_waiter,
\* reparent_children).
THEOREM WakeupsAreNotLost == Spec => []NoLostWakeup
<1>1. IInv => NoLostWakeup
  BY DEF IInv
<1> QED
  BY <1>1, Invariance, PTL

\* No process has a parent that is gone, unless that is init
\* (reparent_children).
THEOREM OrphansGoToInit == Spec => []OrphansHaveInit
<1>1. IInv => OrphansHaveInit
  BY DEF IInv
<1> QED
  BY <1>1, Invariance, PTL

\* A slot in use is never that of a dead process, once a handler is done
\* (endproc_shared, kill_user_process).
THEOREM NoZombies == Spec => []NoZombie
<1>1. IInv => NoZombie
  BY DEF IInv
<1> QED
  BY <1>1, Invariance, PTL

\* chdir in scheduler_switch always has a directory to go to (new_process).
THEOREM PwdIsKept == Spec => []PwdKept
<1>1. IInv => PwdKept
  BY DEF IInv
<1> QED
  BY <1>1, Invariance, PTL

\* The table is whole between handlers (new_process, endproc_shared).
THEOREM TableIsSound == Spec => []TableSound
<1>1. IInv => TableSound
  BY DEF IInv, TableSound
<1> QED
  BY <1>1, Invariance, PTL

-----------------------------------------------------------------------------
(* Page tables, as long as every executable's interpreter loads.           *)

\* Init alone has the one page table that is allocated, and runs on it.
LEMMA InitAsp == Init => AspSound
  BY SchedAssumption, ZeroPid, SMTT(60) DEF Init, AspSound

\* Every step keeps the page tables of live processes allocated and apart, and
\* the core off the freed ones.
LEMMA NextAsp ==
    ASSUME IInv, AspSound, InterpMayFail = FALSE, [Next]_vars
    PROVE  AspSound'
<1> USE SchedAssumption DEF AspSound
<1>0. CASE LoadNoAsp
  BY <1>0, SMTT(60) DEF LoadNoAsp, table
<1>1. CASE LoadLeaks
  BY <1>1, SMTT(60) DEF LoadLeaks, table
<1>2. CASE NewprocNoPwd
  BY <1>2 DEF NewprocNoPwd
<1>3. CASE SysNewproc
  <2>1. PICK s \in Pids, a \in Asps :
            /\ FirstFree(s) /\ LoadProgram(a)
            /\ used' = used \cup {s} /\ cr3' = [cr3 EXCEPT ![s] = a]
    BY <1>3, ZenonT(60) DEF SysNewproc
  <2>2. asp' = asp
    BY <1>3 DEF SysNewproc
  <2>3. a \notin live /\ live' = live \cup {a}
    BY <2>1 DEF LoadProgram
  <2>4. s \notin used /\ cr3 \in [Pids -> Asps \cup {NULL}] /\ used \subseteq Pids
    BY <2>1 DEF FirstFree, IInv, TypeOK
  <2> QED
    BY <2>1, <2>2, <2>3, <2>4, SMTT(60)
<1>4. CASE SysExecve
  <2>1. PICK a \in Asps :
            LoadProgram(a) /\ cr3' = [cr3 EXCEPT ![current_pid] = a]
    BY <1>4, ZenonT(60) DEF SysExecve
  <2>2. used' = used /\ asp' = asp
    BY <1>4 DEF SysExecve
  <2>3. a \notin live /\ live' = live \cup {a}
    BY <2>1 DEF LoadProgram
  <2>4. cr3 \in [Pids -> Asps \cup {NULL}] /\ used \subseteq Pids
    BY DEF IInv, TypeOK
  <2> QED
    BY <2>1, <2>2, <2>3, <2>4
<1>5. CASE \E c \in Codes : SysExit(c)
  <2>1. /\ used' = used \ {current_pid} /\ live' = live \ {cr3[current_pid]}
        /\ cr3' = cr3 /\ asp' = pml4 /\ mode = "user"
    BY <1>5 DEF SysExit, CanCall, EndProc
  <2>2. current_pid \in used
    BY <2>1, SMTT(60) DEF IInv, HeldAsp
  <2> QED
    BY <2>1, <2>2
<1>6. CASE \E p \in Pids : SysKill(p)
  <2>1. PICK p \in Pids : SysKill(p)
    BY <1>6, SMTT(60)
  <2>2. /\ used' = used \ {p} /\ live' = live \ {cr3[p]}
        /\ cr3' = cr3 /\ asp' = asp
        /\ mode = "user" /\ p # current_pid /\ p \in used
    BY <2>1, SMTT(60) DEF SysKill, CanCall, EndProc
  <2>3. current_pid \in used /\ asp = cr3[current_pid]
    BY <2>2 DEF IInv, HeldAsp
  <2> QED
    BY <2>2, <2>3
<1>7. CASE UserFault
  <2>1. \/ used' = used \ {current_pid} /\ live' = live \ {asp}
        \/ used' = used /\ live' = live
    BY <1>7, SMTT(60) DEF UserFault
  <2>2. cr3' = cr3 /\ asp' = pml4 /\ mode = "user"
    BY <1>7 DEF UserFault, CanCall
  <2>3. current_pid \in used /\ asp = cr3[current_pid]
    BY <2>2 DEF IInv, HeldAsp
  <2> QED
    BY <2>1, <2>2, <2>3, SMTT(60)
<1>8. CASE \E p \in Pids, ptr \in StatusPtrs : SysWait(p, ptr)
  <2>1. PICK p \in Pids, ptr \in StatusPtrs : SysWait(p, ptr)
    BY <1>8, SMTT(60)
  <2>2. used' = used \/ used' = used \ {p}
    BY <2>1, SMTT(60) DEF SysWait, Return
  <2>3. cr3' = cr3 /\ live' = live /\ asp' = asp
    BY <2>1, SMTT(60) DEF SysWait
  <2> QED
    BY <2>2, <2>3
<1>9. CASE \E ptr \in StatusPtrs : SysWaitAnyDead(ptr) \/ SysWaitAnyHang(ptr)
  BY <1>9, SMTT(60) DEF SysWaitAnyDead, SysWaitAnyHang
<1>10. CASE (\E d \in Durations : SysSleep(d)) \/ (\E d \in Dirs : SysSetpwd(d))
  BY <1>10, SMTT(60) DEF SysSleep, SysSetpwd
<1>11. CASE SysOther \/ Tick \/ SyscallExit
  BY <1>11, SMTT(60) DEF SysOther, Tick, TickUser, TickKernel, SyscallExit,
     table
<1>12. CASE Resume
  BY <1>12, SMTT(60) DEF Resume
<1>13. CASE \E t \in Pids : Dispatch(t)
  <2>1. PICK t \in Pids : Dispatch(t)
    BY <1>13
  <2>2. t \in used
    BY <2>1, SMTT(60) DEF Dispatch, nextproc, Eligible
  <2>3. used' = used /\ live' = live /\ cr3' = cr3 /\ asp' = cr3[t]
    BY <2>1, SMTT(60) DEF Dispatch
  <2> QED
    BY <2>2, <2>3, SMTT(60)
<1>14. CASE Idle \/ Clock \/ UNCHANGED vars
  BY <1>14 DEF Idle, Clock, vars, table, cpu
<1> QED
  BY <1>0, <1>1, <1>2, <1>3, <1>4, <1>5, <1>6, <1>7, <1>8, <1>9, <1>10, <1>11,
     <1>12, <1>13, <1>14,
     ZenonT(60)
     DEF Next, Syscall, Switch, Halted

\* When no interpreter is missing, every process keeps an allocated page table
\* of its own and the core never walks a freed one (load_program,
\* endproc_shared, vmm_skasp in sys_exit).  With InterpMayFail
\* TLC finds AspSound violated, so the assumption is needed.
THEOREM PageTablesSound ==
    ASSUME InterpMayFail = FALSE
    PROVE  Spec => []AspSound
<1>1. Init => AspSound
  BY InitAsp
<1>2. IInv /\ AspSound /\ [Next]_vars => AspSound'
  BY NextAsp, ZenonT(60)
<1> QED
  BY <1>1, <1>2, Invariance, PTL DEF Spec

-----------------------------------------------------------------------------
(* The scan of nextproc.                                                   *)

\* A scan that meets an eligible process finds one: the first round the table.
LEMMA ScanFinds ==
    ASSUME TypeOK, NEW p \in Pids, Eligible(p)
    PROVE  \E t \in Pids : nextproc(t)
<1> DEFINE T == {Turn(q) : q \in {r \in Pids : Eligible(r)}}
           R == OpToRel(<, Nat)
<1>1. \A q \in Pids : Turn(q) \in Nat
  BY SchedAssumption, SMTT(60) DEF Turn, TypeOK, Pids
<1>2. T \subseteq Nat /\ T # {}
  BY <1>1
<1>3. IsWellFoundedOn(R, Nat)
  BY NatLessThanWellFounded, ZenonT(60)
<1>4. \E x \in T : \A y \in T : ~(<<y, x>> \in R)
  <2> HIDE DEF T, R
  <2> QED
    BY <1>2, <1>3, WFMin, ZenonT(60)
<1>5. \A x, y \in Nat : y < x => <<y, x>> \in R
  BY DEF OpToRel
<1>6. \E x \in T : \A y \in T : x <= y
  <2> HIDE DEF T, R
  <2>1. PICK x \in T : \A y \in T : ~(<<y, x>> \in R)
    BY <1>4
  <2>2. ASSUME NEW y \in T PROVE x <= y
    <3>1. ~(<<y, x>> \in R)
      BY <2>1
    <3>2. x \in Nat /\ y \in Nat
      BY <1>2
    <3>3. ~(y < x)
      BY <1>5, <3>1, <3>2
    <3> QED
      BY <3>2, <3>3
  <2> QED
    BY <2>2
<1> QED
  BY <1>6 DEF nextproc

\* The core halts only when every process there is is blocked
\* (scheduler_switch, nextproc).
THEOREM NeverIdleWithWork == Spec => []WorkConserving
<1>1. Init => WorkConserving
  BY DEF Init, WorkConserving
<1>2. IInv /\ WorkConserving /\ [Next]_vars => WorkConserving'
  <2> SUFFICES ASSUME IInv, WorkConserving, [Next]_vars, mode' = "idle"
               PROVE  (used \subseteq is_blocked)'
    BY DEF WorkConserving
  <2>1. CASE Idle
    <3>1. \A p \in Pids : ~Eligible(p)
      BY <2>1, ScanFinds DEF Idle, IInv
    <3>2. used \cap is_dead = {}
      BY <2>1 DEF Idle, IInv, NoZombie
    <3> QED
      BY <2>1, <3>1, <3>2 DEF Idle, Eligible, table, IInv, TypeOK
  <2>2. CASE Clock \/ UNCHANGED vars
    BY <2>2, SMTT(60) DEF Clock, vars, table, cpu, WorkConserving
  <2>3. CASE Syscall
    BY <2>3, ZenonT(60) DEF Syscall, LoadNoAsp, LoadLeaks, NewprocNoPwd, SysNewproc,
       SysExecve, SysExit, SysKill, SysWait, SysWaitAnyDead, SysWaitAnyHang,
       SysSleep, SysSetpwd, SysOther, Return
  <2>4. CASE UserFault \/ Tick \/ SyscallExit \/ Resume \/ \E t \in Pids : Dispatch(t)
    BY <2>4 DEF UserFault, Tick, TickUser, TickKernel, SyscallExit, Resume,
                Dispatch
  <2> QED
    BY <2>1, <2>2, <2>3, <2>4 DEF Next, Switch, Halted
<1> QED
  BY <1>1, <1>2, Invariance, PTL DEF Spec
=============================================================================
