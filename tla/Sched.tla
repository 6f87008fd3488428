-------------------------------- MODULE Sched --------------------------------
(***************************************************************************)
(* The process table and the preemptive round-robin scheduler of a machine *)
(* with one core: process creation and replacement, exit, kill, faults,    *)
(* SYS_WAIT, SYS_SLEEP, the preemption tick and the dispatch loop          *)
(* (src/src/scheduler/, src/src/usr/syscalls/ssc_proc/, time.c,            *)
(* syscall_s.asm, int_hdlr.c).                                             *)
(*                                                                         *)
(* A system call runs on the one kernel stack and is never preempted: a    *)
(* tick taken in the kernel only sets preempt_pending, which is looked at  *)
(* on the way out.  A handler's body is therefore one step, and the way    *)
(* out of the call (mode "sysret") is another, so that a tick can fall     *)
(* between them.                                                           *)
(***************************************************************************)
EXTENDS Integers

CONSTANTS
    MAX_PROCESSES,  \* slots of proctbl; WAIT_ANY is the first number past them
    Asps, pml4,     \* page tables that vmm_casp can hand out, and the kernel's
    NULL,
    Dirs, Root,     \* working directories, and the one init starts in
    Codes,          \* arguments of SYS_EXIT
    StatusPtrs,     \* the int* of SYS_WAIT: 0 for NULL, 1 for the status word
    Durations,      \* arguments of SYS_SLEEP
    MaxMs,          \* bound on the clock
    Calls,          \* what programs do: the calls they make, "fault", and
                    \* "nomem" for creations that fail half way
    InterpMayFail   \* may the program interpreter of an executable be missing?

ASSUME SchedAssumption ==
    /\ MAX_PROCESSES \in Nat \ {0}
    /\ NULL \notin Asps
    /\ pml4 \notin Asps
    /\ NULL \notin Dirs
    /\ Root \in Dirs
    /\ Codes \subseteq Int
    /\ StatusPtrs \subseteq {0, 1}
    /\ Durations \subseteq Nat
    /\ MaxMs \in Nat
    /\ InterpMayFail \in BOOLEAN

Pids == 0 .. MAX_PROCESSES - 1
WAIT_ANY == MAX_PROCESSES

EHANG == 23

\* A status word nobody wrote since the program last looked at it.
NoStatus == -1001

\* The slot keeps the low 16 bits of an exit code.
U16(c) == c % 65536

\* A register context is known by where it resumes: at the start of a program,
\* behind a system call (whose result is in rax), or in the middle of user code,
\* as it was or with its rax overwritten.  "none" is the zeroed context of a
\* process that died, and stands for the saved context of a running process,
\* which is overwritten before it is read.
Contexts == {"none", "entry", "syscall", "user", "clobbered"}

VARIABLES
    \* the fields of proctbl; used, is_dead and is_blocked are the sets of the
    \* pids whose flag is set
    used, is_dead, is_blocked, wait_pid, wake_ms, ppid, pwd, code, codeptr,
    cr3, ctx,
    \* memory the kernel writes to or frees: a process's status word, and the
    \* page tables that are allocated
    status, live,
    \* the core
    current_pid, preempt_pending, scheduler_execve, mode, frame, asp, cwd,
    getms,
    \* why a blocked process is blocked (history: the code keeps no such field)
    why

table == <<used, is_dead, is_blocked, wait_pid, wake_ms, ppid, pwd, code,
           codeptr, cr3, ctx>>
cpu == <<current_pid, preempt_pending, scheduler_execve, mode, frame, asp, cwd>>
vars == <<table, status, live, cpu, getms, why>>

Modes == {"user", "sysret", "switch", "idle", "panic"}
Reasons == {"none", "child", "anychild", "other", "sleep"}

-----------------------------------------------------------------------------
(* The machine as start_scheduler leaves it: init runs in slot 0.          *)

Init ==
    \E a \in Asps :
        /\ used = {0}
        /\ is_dead = {}
        /\ is_blocked = {}
        /\ wait_pid = [p \in Pids |-> IF p = 0 THEN WAIT_ANY ELSE 0]
        /\ wake_ms = [p \in Pids |-> 0]
        /\ ppid = [p \in Pids |-> 0]
        /\ pwd = [p \in Pids |-> IF p = 0 THEN Root ELSE NULL]
        /\ code = [p \in Pids |-> 0]
        /\ codeptr = [p \in Pids |-> 0]
        /\ cr3 = [p \in Pids |-> IF p = 0 THEN a ELSE NULL]
        /\ ctx = [p \in Pids |-> "none"]
        /\ status = [p \in Pids |-> NoStatus]
        /\ live = {a}
        /\ current_pid = 0
        /\ preempt_pending = 0
        /\ scheduler_execve = 0
        /\ mode = "user"
        /\ frame = "none"
        /\ asp = a
        /\ cwd = Root
        /\ getms = 0
        /\ why = [p \in Pids |-> "none"]

\* User code may enter the kernel with this call.
CanCall(call) == mode = "user" /\ call \in Calls

\* A handler returns to syscall_s.
Return ==
    /\ mode' = "sysret"
    /\ frame' = "syscall"

-----------------------------------------------------------------------------
(* Creating and replacing processes.                                       *)

\* new_process takes the first slot that is not in use.
FirstFree(s) == s \notin used /\ \A p \in Pids \ used : s <= p

\* load_program: a new page table.  When the interpreter cannot be loaded the
\* table is freed and load_program carries on with it.
LoadProgram(a) ==
    /\ a \in Asps \ live
    /\ live' \in {live \cup {a}} \cup (IF InterpMayFail THEN {live} ELSE {})

\* vmm_casp finds no frame, and load_program does not look at what it returned:
\* the walk of the table at NULL, where the kernel's page table maps nothing,
\* faults in the kernel, and except_panic halts it.
LoadNoAsp ==
    /\ CanCall("nomem")
    /\ asp' = pml4
    /\ mode' = "panic"
    /\ UNCHANGED <<table, status, live, current_pid, preempt_pending,
                   scheduler_execve, frame, cwd, getms, why>>

\* The load fails after the page table is made, or the stat of the executable
\* does: the table is left behind.
LoadLeaks ==
    /\ CanCall("nomem")
    /\ \E a \in Asps \ live : live' = live \cup {a}
    /\ Return
    /\ UNCHANGED <<table, status, current_pid, preempt_pending,
                   scheduler_execve, asp, cwd, getms, why>>

\* Mutant: the slot is claimed before the last allocation that can fail.
NewprocNoPwd_EarlyClaim ==
    /\ CanCall("nomem")
    /\ \E s \in Pids, a \in Asps \ live :
        /\ FirstFree(s)
        /\ live' = live \cup {a}
        /\ cr3' = [cr3 EXCEPT ![s] = a]
        /\ pwd' = [pwd EXCEPT ![s] = NULL]
        /\ used' = used \cup {s}
        /\ is_dead' = is_dead \ {s}
    /\ Return
    /\ UNCHANGED <<is_blocked, wait_pid, wake_ms, ppid, code, codeptr, ctx,
                   status, current_pid, preempt_pending, scheduler_execve, asp,
                   cwd, getms, why>>

\* new_process finds no memory for the working directory: the slot stays free
\* with the fields set so far.
NewprocNoPwd ==
    /\ CanCall("nomem")
    /\ \E s \in Pids, a \in Asps \ live :
        /\ FirstFree(s)
        /\ live' = live \cup {a}
        /\ pwd' = [pwd EXCEPT ![s] = NULL]
        /\ ppid' = [ppid EXCEPT ![s] = IF s = 0 THEN @ ELSE current_pid]
    /\ Return
    /\ UNCHANGED <<used, is_dead, is_blocked, wait_pid, wake_ms, code, codeptr,
                   cr3, ctx, status, current_pid, preempt_pending,
                   scheduler_execve, asp, cwd, getms, why>>

SysNewproc ==
    /\ CanCall("newproc")
    /\ \E s \in Pids, a \in Asps :
        /\ FirstFree(s)
        /\ LoadProgram(a)
        /\ used' = used \cup {s}
        /\ is_dead' = is_dead \ {s}
        /\ is_blocked' = is_blocked \ {s}
        /\ wait_pid' = [wait_pid EXCEPT ![s] = WAIT_ANY]
        /\ wake_ms' = [wake_ms EXCEPT ![s] = 0]
        /\ ppid' = [ppid EXCEPT ![s] = current_pid]
        /\ pwd' = [pwd EXCEPT ![s] = IF s = 0 THEN Root ELSE pwd[current_pid]]
        /\ cr3' = [cr3 EXCEPT ![s] = a]
        /\ ctx' = [ctx EXCEPT ![s] = "entry"]
        /\ why' = [why EXCEPT ![s] = "none"]
        /\ Return
    /\ UNCHANGED <<code, codeptr, status, current_pid, preempt_pending,
                   scheduler_execve, asp, cwd, getms>>

\* The old page table is neither freed nor left: vmm_sasp(uasp) puts it back
\* until the switch.
SysExecve ==
    /\ CanCall("execve")
    /\ \E a \in Asps :
        /\ LoadProgram(a)
        /\ cr3' = [cr3 EXCEPT ![current_pid] = a]
    /\ is_dead' = is_dead \ {current_pid}
    /\ is_blocked' = is_blocked \ {current_pid}
    /\ wait_pid' = [wait_pid EXCEPT ![current_pid] = WAIT_ANY]
    /\ wake_ms' = [wake_ms EXCEPT ![current_pid] = 0]
    /\ why' = [why EXCEPT ![current_pid] = "none"]
    /\ scheduler_execve' = 1
    /\ frame' = "entry"
    /\ mode' = "switch"
    /\ UNCHANGED <<used, ppid, pwd, code, codeptr, ctx, status, current_pid,
                   preempt_pending, asp, cwd, getms>>

-----------------------------------------------------------------------------
(* Dying.                                                                  *)

\* Mutant: orphans keep the pid of their dead parent.
reparent_children_Skipped(old) == UNCHANGED ppid

reparent_children(old) ==
    ppid' = [p \in Pids |->
                IF p \in used /\ p \notin is_dead /\ p # old /\ ppid[p] = old
                THEN 0 ELSE ppid[p]]

\* Mutant: only a parent that waits for any child is woken.
Wakes_AnyOnly(pid, q) ==
    /\ q = ppid[pid]
    /\ q # pid
    /\ q \in is_blocked
    /\ wait_pid[q] = WAIT_ANY

\* wake_waiter(pid) finds q parked.  Only init is its own parent, and its
\* flag is cleared before (endproc_shared) or the machine stops (a fault).
Wakes(pid, q) ==
    /\ q = ppid[pid]
    /\ q # pid
    /\ q \in is_blocked
    /\ wait_pid[q] \in {pid, WAIT_ANY}

\* The result register and the status word wake_waiter hands to q.
wake_waiter(pid, exitcode) ==
    /\ ctx' = [q \in Pids |-> IF Wakes(pid, q) /\ ctx[q] = "user"
                              THEN "clobbered" ELSE ctx[q]]
    /\ status' = [q \in Pids |-> IF Wakes(pid, q) /\ codeptr[q] # 0
                                 THEN exitcode ELSE status[q]]
    /\ why' = [q \in Pids |-> IF Wakes(pid, q) \/ q = pid
                              THEN "none" ELSE why[q]]

\* endproc_shared, with exitcode the code found in the slot.
EndProc(pid, exitcode) ==
    /\ is_blocked' = {q \in is_blocked : q # pid /\ ~Wakes(pid, q)}
    /\ is_dead' = is_dead \cup {pid}
    /\ reparent_children(pid)
    /\ wake_waiter(pid, exitcode)
    /\ pwd' = [pwd EXCEPT ![pid] = NULL]
    /\ live' = live \ {cr3[pid]}
    /\ used' = used \ {pid}
    /\ UNCHANGED <<wait_pid, wake_ms, codeptr, cr3>>

\* Mutant: the dying process's page table stays loaded while it is freed.
SysExit_OnOwnAsp(c) ==
    /\ CanCall("exit")
    /\ code' = [code EXCEPT ![current_pid] = U16(c)]
    /\ EndProc(current_pid, U16(c))
    /\ frame' = "none"
    /\ mode' = "switch"
    /\ UNCHANGED <<current_pid, preempt_pending, scheduler_execve, asp, cwd,
                   getms>>

SysExit(c) ==
    /\ CanCall("exit")
    /\ code' = [code EXCEPT ![current_pid] = U16(c)]
    /\ EndProc(current_pid, U16(c))
    /\ asp' = pml4
    /\ frame' = "none"
    /\ mode' = "switch"
    /\ UNCHANGED <<current_pid, preempt_pending, scheduler_execve, cwd, getms>>

\* Mutant: a process may kill itself.
SysKill_Self(pid) ==
    /\ CanCall("kill")
    /\ pid # 0
    /\ pid \in used /\ pid \notin is_dead
    /\ EndProc(pid, code[pid])
    /\ Return
    /\ UNCHANGED <<code, current_pid, preempt_pending, scheduler_execve, asp,
                   cwd, getms>>

\* The credentials check of SYS_KILL is a refusal, which is SysOther.
SysKill(pid) ==
    /\ CanCall("kill")
    /\ pid \notin {0, current_pid}
    /\ pid \in used /\ pid \notin is_dead
    /\ EndProc(pid, code[pid])
    /\ Return
    /\ UNCHANGED <<code, current_pid, preempt_pending, scheduler_execve, asp,
                   cwd, getms>>

\* kill_user_process: like EndProc, but the flag, the fds and the working
\* directory stay, and the death of pid 0 stops the machine.
UserFault ==
    LET pid == current_pid IN
    /\ CanCall("fault")
    /\ is_blocked' = {q \in is_blocked : ~Wakes(pid, q)}
    /\ is_dead' = is_dead \cup {pid}
    /\ reparent_children(pid)
    /\ wake_waiter(pid, code[pid])
    /\ IF pid = 0
       THEN mode' = "panic" /\ UNCHANGED <<live, used>>
       ELSE /\ mode' = "switch"
            /\ live' = live \ {asp}
            /\ used' = used \ {pid}
    /\ asp' = pml4
    /\ frame' = "none"
    /\ UNCHANGED <<wait_pid, wake_ms, pwd, code, codeptr, cr3, current_pid,
                   preempt_pending, scheduler_execve, cwd, getms>>

-----------------------------------------------------------------------------
(* Blocking.                                                               *)

LiveChild(c, p) == c \in used /\ c \notin is_dead /\ ppid[c] = p

\* SYS_WAIT on one pid.  Whether pid is a child of the caller is not looked at.
SysWait(pid, ptr) ==
    /\ CanCall("wait")
    /\ pid \in used
    /\ pid # current_pid
    /\ IF pid \notin is_dead
       THEN /\ wait_pid' = [wait_pid EXCEPT ![current_pid] = pid]
            /\ is_blocked' = is_blocked \cup {current_pid}
            /\ codeptr' = [codeptr EXCEPT ![current_pid] = ptr]
            /\ preempt_pending' = 1
            /\ status' = [status EXCEPT ![current_pid] =
                                            IF ptr # 0 THEN -EHANG ELSE @]
            /\ why' = [why EXCEPT ![current_pid] =
                           IF ppid[pid] = current_pid THEN "child" ELSE "other"]
            /\ UNCHANGED used
       ELSE /\ used' = used \ {pid}
            /\ status' = [status EXCEPT ![current_pid] =
                                            IF ptr # 0 THEN code[pid] ELSE @]
            /\ UNCHANGED <<wait_pid, is_blocked, codeptr, preempt_pending, why>>
    /\ Return
    /\ UNCHANGED <<is_dead, wake_ms, ppid, pwd, code, cr3, ctx, live,
                   current_pid, scheduler_execve, asp, cwd, getms>>

\* The slots that SYS_WAIT(-1) takes for dead children: used is not looked at.
DeadChildren(p) == {i \in is_dead \ {p} : ppid[i] = p}

\* SYS_WAIT(-1) with a dead child.  The status word gets proctbl[-1].code,
\* which is whatever lies before the table.
SysWaitAnyDead(ptr) ==
    /\ CanCall("waitany")
    /\ \E i \in DeadChildren(current_pid) :
        /\ \A j \in DeadChildren(current_pid) : i <= j
        /\ used' = used \ {i}
        /\ Return
    /\ \E garbage \in {U16(c) : c \in Codes} :
        status' = [status EXCEPT ![current_pid] =
                                        IF ptr # 0 THEN garbage ELSE @]
    /\ UNCHANGED <<is_dead, is_blocked, wait_pid, wake_ms, ppid, pwd, code,
                   codeptr, cr3, ctx, live, current_pid, preempt_pending,
                   scheduler_execve, asp, cwd, getms, why>>

\* SYS_WAIT(-1) without one: the caller is marked blocked and goes on running,
\* because no switch is requested.
SysWaitAnyHang(ptr) ==
    /\ CanCall("waitany")
    /\ DeadChildren(current_pid) = {}
    /\ wait_pid' = [wait_pid EXCEPT ![current_pid] = WAIT_ANY]
    /\ is_blocked' = is_blocked \cup {current_pid}
    /\ codeptr' = [codeptr EXCEPT ![current_pid] = ptr]
    /\ why' = [why EXCEPT ![current_pid] =
                    IF \E c \in Pids \ {current_pid} : LiveChild(c, current_pid)
                    THEN "anychild" ELSE "other"]
    /\ Return
    /\ UNCHANGED <<used, is_dead, wake_ms, ppid, pwd, code, cr3, ctx, status,
                   live, current_pid, preempt_pending, scheduler_execve, asp,
                   cwd, getms>>

SysSleep(d) ==
    /\ CanCall("sleep")
    /\ getms + d <= MaxMs
    /\ preempt_pending' = 1
    /\ IF d = 0
       THEN UNCHANGED <<wake_ms, is_blocked, why>>
       ELSE /\ wake_ms' = [wake_ms EXCEPT ![current_pid] = getms + d]
            /\ is_blocked' = is_blocked \cup {current_pid}
            /\ why' = [why EXCEPT ![current_pid] = "sleep"]
    /\ Return
    /\ UNCHANGED <<used, is_dead, wait_pid, ppid, pwd, code, codeptr, cr3, ctx,
                   status, live, current_pid, scheduler_execve, asp, cwd,
                   getms>>

\* SYS_SETPWD replaces the process's directory and leaves the kernel's cwd.
SysSetpwd(d) ==
    /\ CanCall("setpwd")
    /\ pwd' = [pwd EXCEPT ![current_pid] = d]
    /\ Return
    /\ UNCHANGED <<used, is_dead, is_blocked, wait_pid, wake_ms, ppid, code,
                   codeptr, cr3, ctx, status, live, current_pid,
                   preempt_pending, scheduler_execve, asp, cwd, getms, why>>

\* Every other call, and every call that is refused: the process table stays.
SysOther ==
    /\ mode = "user"
    /\ Return
    /\ UNCHANGED <<table, status, live, current_pid, preempt_pending,
                   scheduler_execve, asp, cwd, getms, why>>

-----------------------------------------------------------------------------
(* Ticks and switching.                                                    *)

\* A tick in user mode enters scheduler_switch with the interrupted context.
TickUser ==
    /\ mode = "user"
    /\ frame' = "user"
    /\ mode' = "switch"
    /\ UNCHANGED <<table, status, live, current_pid, preempt_pending,
                   scheduler_execve, asp, cwd, getms, why>>

\* A tick in the kernel is put off to the end of the call.
TickKernel ==
    /\ mode = "sysret"
    /\ preempt_pending = 0
    /\ preempt_pending' = 1
    /\ UNCHANGED <<table, status, live, current_pid, scheduler_execve, mode,
                   frame, asp, cwd, getms, why>>

\* A tick can still fall between the last look at the flag and user mode.
LateTick == preempt_pending' \in {0, 1}

SyscallExit ==
    /\ mode = "sysret"
    /\ IF preempt_pending = 1
       THEN mode' = "switch" /\ preempt_pending' = 0 /\ UNCHANGED frame
       ELSE mode' = "user" /\ LateTick /\ frame' = "none"
    /\ UNCHANGED <<table, status, live, current_pid, scheduler_execve, asp, cwd,
                   getms, why>>

\* Mutant: the deadline must be met on the millisecond.
Expired_Exact(p) == wake_ms[p] # 0 /\ getms = wake_ms[p]

Expired(p) == wake_ms[p] # 0 /\ getms >= wake_ms[p]

\* Mutant: the scan always starts at slot 0.
Turn_FromZero(p) == p

\* What nextproc accepts, and how far round the table it finds it.
Eligible(p) ==
    /\ p \in used
    /\ p \notin is_dead
    /\ p \in is_blocked => Expired(p)

Turn(p) == (p + MAX_PROCESSES - current_pid - 1) % MAX_PROCESSES

\* Mutant: the scan stops short of the process it started from.
nextproc_NotSelf(t) ==
    /\ Eligible(t)
    /\ t # current_pid
    /\ \A p \in Pids : Eligible(p) => Turn(t) <= Turn(p)
nextproc(t) ==
    /\ Eligible(t)
    /\ \A p \in Pids : Eligible(p) => Turn(t) <= Turn(p)

\* nextproc ends the sleep of the process it returns.
EndSleep(t) ==
    IF t \in is_blocked
    THEN /\ is_blocked' = is_blocked \ {t}
         /\ wake_ms' = [wake_ms EXCEPT ![t] = 0]
         /\ why' = [why EXCEPT ![t] = "none"]
    ELSE UNCHANGED <<is_blocked, wake_ms, why>>

\* scheduler_switch returns to the only process there is to run ...
Resume ==
    /\ mode \in {"switch", "idle"}
    /\ nextproc(current_pid)
    /\ scheduler_execve = 0
    /\ EndSleep(current_pid)
    /\ mode' = "user"
    /\ frame' = "none"
    /\ LateTick
    /\ UNCHANGED <<used, is_dead, wait_pid, ppid, pwd, code, codeptr, cr3, ctx,
                   status, live, current_pid, scheduler_execve, asp, cwd,
                   getms>>

\* ... or saves the context it was given and leaves for t.
Dispatch(t) ==
    /\ mode \in {"switch", "idle"}
    /\ nextproc(t)
    /\ t = current_pid => scheduler_execve = 1
    /\ EndSleep(t)
    /\ ctx' = [[ctx EXCEPT ![current_pid] = frame] EXCEPT ![t] = "none"]
    /\ current_pid' = t
    /\ scheduler_execve' = IF t = current_pid THEN 0 ELSE scheduler_execve
    /\ asp' = cr3[t]
    /\ cwd' = pwd[t]
    /\ mode' = "user"
    /\ frame' = "none"
    /\ LateTick
    /\ UNCHANGED <<used, is_dead, wait_pid, ppid, pwd, code, codeptr, cr3,
                   status, live, getms>>

\* Nobody can run: halt until the next interrupt, a tick sets the flag.
Idle ==
    /\ mode \in {"switch", "idle"}
    /\ ~\E t \in Pids : nextproc(t)
    /\ mode' = "idle"
    /\ LateTick
    /\ UNCHANGED <<table, status, live, current_pid, scheduler_execve, frame,
                   asp, cwd, getms, why>>

Clock ==
    /\ mode # "panic"
    /\ getms < MaxMs
    /\ getms' = getms + 1
    /\ UNCHANGED <<table, status, live, cpu, why>>

\* panic halts the core for good.
Halted == mode = "panic" /\ UNCHANGED vars

-----------------------------------------------------------------------------

Syscall ==
    \/ LoadNoAsp \/ LoadLeaks \/ NewprocNoPwd \/ SysNewproc \/ SysExecve
    \/ \E c \in Codes : SysExit(c)
    \/ \E p \in Pids : SysKill(p)
    \/ \E p \in Pids, ptr \in StatusPtrs : SysWait(p, ptr)
    \/ \E ptr \in StatusPtrs : SysWaitAnyDead(ptr) \/ SysWaitAnyHang(ptr)
    \/ \E d \in Durations : SysSleep(d)
    \/ \E d \in Dirs : SysSetpwd(d)
    \/ SysOther

Tick == TickUser \/ TickKernel
Switch == Resume \/ (\E t \in Pids : Dispatch(t)) \/ Idle

Next ==
    \/ Syscall \/ UserFault
    \/ Tick \/ SyscallExit \/ Switch
    \/ Clock \/ Halted

Spec == Init /\ [][Next]_vars

\* The timer interrupts and the clock never stop, a handler returns, and
\* scheduler_switch gets to the end of its scan.
Fairness ==
    /\ WF_vars(Tick)
    /\ WF_vars(SyscallExit)
    /\ WF_vars(Switch)
    /\ WF_vars(Clock)

FairSpec == Spec /\ Fairness
-----------------------------------------------------------------------------
(* Properties.                                                             *)

\* Every field stays within its type.
TypeOK ==
    /\ used \subseteq Pids
    /\ is_dead \subseteq Pids
    /\ is_blocked \subseteq Pids
    /\ wait_pid \in [Pids -> Pids \cup {WAIT_ANY}]
    /\ wake_ms \in [Pids -> Nat]
    /\ ppid \in [Pids -> Pids]
    /\ pwd \in [Pids -> Dirs \cup {NULL}]
    /\ code \in [Pids -> Nat]
    /\ codeptr \in [Pids -> {0, 1}]
    /\ cr3 \in [Pids -> Asps \cup {NULL}]
    /\ ctx \in [Pids -> Contexts]
    /\ status \in [Pids -> Int]
    /\ live \in SUBSET Asps
    /\ current_pid \in Pids
    /\ preempt_pending \in {0, 1}
    /\ scheduler_execve \in {0, 1}
    /\ mode \in Modes
    /\ frame \in Contexts
    /\ asp \in Asps \cup {pml4}
    /\ cwd \in Dirs
    /\ getms \in Nat
    /\ why \in [Pids -> Reasons]

\* User code runs only as a process that is in the table and alive, on that
\* process's own page table: no exit, kill, execve or fault, in whatever order
\* they come, leaves the core inside a process that is gone
\* (scheduler_switch, sys_exit, sys_kill).
CurrentRuns ==
    mode \in {"user", "sysret"} =>
        /\ current_pid \in used
        /\ current_pid \notin is_dead
        /\ asp = cr3[current_pid]

\* Every process has an allocated page table that it shares with nobody, and
\* the core never keeps walking a page table that has been freed (vmm_dasp in
\* endproc_shared, vmm_skasp in sys_exit).
AspSound ==
    /\ \A p \in used : cr3[p] \in live
    /\ \A p, q \in used : cr3[p] = cr3[q] => p = q
    /\ asp \in live \cup {pml4}

\* A process that waits for its own child waits for one that is still alive and
\* still its child; one that waits for any of its children has one left.  So
\* no death slips past a parked parent, whatever happens to the pids in
\* between (sys_wait, wake_waiter, reparent_children).
NoLostWakeup ==
    \A p \in used \cap is_blocked :
        /\ why[p] = "child" => LiveChild(wait_pid[p], p)
        /\ why[p] = "anychild" => \E c \in Pids \ {p} : LiveChild(c, p)

\* The parent of a process is in the table, or it is slot 0, init's, whether or
\* not that is in use: a pid other than 0 that is given out again never inherits
\* the children of its previous owner (reparent_children, new_process).
OrphansHaveInit ==
    \A p \in used : ppid[p] = 0 \/ ppid[p] \in used

\* No slot is both in use and dead once a handler is done, except that of an
\* init whose fault stopped the machine.  SYS_WAIT on a pid can thus never
\* find the dead child its second branch is for.
NoZombie ==
    mode # "panic" => used \cap is_dead = {}

\* The core halts only when every process there is is blocked: the scan of
\* nextproc never misses one that could run (scheduler_switch).
WorkConserving == mode = "idle" => used \subseteq is_blocked

\* A process in the table always has a working directory for the chdir of
\* scheduler_switch to go to, also after a creation that failed half way
\* (new_process).
PwdKept == \A p \in used : pwd[p] # NULL

\* Between handlers every slot is whole: its fields are within their types, it
\* is not in use and dead at once, and in use it has a working directory,
\* whatever creations failed half way and in whatever order processes ended
\* (new_process, endproc_shared).
TableSound == TypeOK /\ NoZombie /\ PwdKept

\* A process that can run does run, however the others call, sleep and spawn
\* (nextproc starts its scan behind the current process).
Runnable(p) == p \in used \ (is_dead \cup is_blocked)
NoStarvation ==
    \A p \in Pids :
        Runnable(p) ~> \/ ~Runnable(p)
                       \/ mode = "user" /\ current_pid = p
                       \/ mode = "panic"

\* A sleep ends: the deadline is noticed even when the machine is idle
\* (sys_sleep, nextproc, the halt loop of scheduler_switch).
SleepEnds ==
    \A p \in Pids :
        p \in used \cap is_blocked /\ wake_ms[p] # 0
            ~> p \notin used \cap is_blocked \/ mode = "panic"

-----------------------------------------------------------------------------
(* What the documentation says and the code does not do.                   *)

\* process.h: is_blocked is cleared "when the child we asked for dies or sleep
\* deadline passes".  A process in SYS_SLEEP is thus left alone until then.
SleepLasts ==
    [][\A p \in Pids :
        /\ p \in is_blocked /\ why[p] = "sleep"
        /\ p \in used' /\ p \notin is_blocked'
        => getms >= wake_ms[p]]_vars

\* wait.c on SYS_WAIT(-1): "if no processes are dead we should hang the
\* process".  A process marked blocked does not run user code.
BlockedDoesNotRun == mode = "user" => current_pid \notin is_blocked

\* end.c: "scheduler_switch only returns when nobody is left", and then the
\* machine panics.
PanicsWhenAllExit == used = {} ~> mode = "panic"
=============================================================================
