------------------------------- MODULE SmpReq -------------------------------
(***************************************************************************)
(* Requests between the boot core (BSP) and the other cores (APs):         *)
(* send_ap_request and the AP's handler, send_bsp_request and the BSP's,   *)
(* the AP's startup and main loop, and what kmain asks of the APs          *)
(* (src/src/smp/, src/src/kern/kmain.c).                                   *)
(*                                                                         *)
(* Each core has one pending bit for the request vector.  The AP's handler *)
(* does not return to the code it interrupted: it drops that code's stack  *)
(* and enters the main loop afresh (smp_contloop).  apstates[i].lock is    *)
(* only ever taken by core i with interrupts off and apreqvec[i].lock only *)
(* by the BSP, so neither is ever contended and neither is modelled.       *)
(***************************************************************************)
EXTENDS Integers

CONSTANTS
    NAPs,       \* how many other cores there are
    Tries,      \* how often kmain tries ap_run: 100
    Api,        \* requests the kernel makes once it is up
    MaxApi      \* bound on their number

ASSUME SmpReqAssumption ==
    /\ NAPs \in Nat \ {0}
    /\ Tries \in Nat
    /\ Api \subseteq {"run", "pause", "cont", "stop"}
    /\ MaxApi \in Nat

APs == 1 .. NAPs
None == 0

VARIABLES
    \* the BSP: where it is, where it goes on after a request, and its locals
    bpc, bret, target, tries, nextap, api,
    \* each AP: where it is, where it goes on after send_bsp_request
    pc, ret,
    \* apstates[i].state
    state,
    \* smp_info[i].status
    status,
    \* apreqvec[i].done and .type, the AP's pending bit, and (history) whether
    \* the last interrupt was lost
    done, type, ipi, dropped,
    \* global_bspreq_buf, and the BSP's pending bit
    lock, bdone, from, data, bipi,
    \* ap_test_done
    tested

bsp == <<bpc, bret, target, tries, nextap, api>>
mailbox == <<done, type, ipi, dropped>>
bspreq == <<lock, bdone, from, data, bipi>>
vars == <<bsp, pc, ret, state, status, mailbox, bspreq, tested>>

\* The four calls of send_bsp_request, and the status each asks for.
Reports == {"startup", "start", "end", "stop"}
Wanted(r) == IF r = "start" THEN "working" ELSE "waiting"

-----------------------------------------------------------------------------
(* An AP.                                                                  *)

\* smp_main_finish enables the APIC and interrupts ...
ApEnable(a) ==
    /\ pc[a] = "off"
    /\ pc' = [pc EXCEPT ![a] = "finish"]
    /\ UNCHANGED <<bsp, ret, state, status, mailbox, bspreq, tested>>

\* ... and reports to the BSP.
ApFinish(a) ==
    /\ pc[a] = "finish"
    /\ state' = [state EXCEPT ![a] = "waiting"]
    /\ pc' = [pc EXCEPT ![a] = "lock"]
    /\ ret' = [ret EXCEPT ![a] = "startup"]
    /\ UNCHANGED <<bsp, status, mailbox, bspreq, tested>>

\* Mutant: the answer to the last request is left in the buffer.
BspReqSend_Stale(a) ==
    /\ pc[a] = "lock"
    /\ lock = None
    /\ lock' = a
    /\ from' = a
    /\ data' = Wanted(ret[a])
    /\ bipi' = 1
    /\ pc' = [pc EXCEPT ![a] = "wait"]
    /\ UNCHANGED <<bsp, ret, state, status, mailbox, bdone, tested>>

\* send_bsp_request: the buffer's lock, the request, the interrupt.
BspReqSend(a) ==
    /\ pc[a] = "lock"
    /\ lock = None
    /\ lock' = a
    /\ from' = a
    /\ data' = Wanted(ret[a])
    /\ bdone' = 0
    /\ bipi' = 1
    /\ pc' = [pc EXCEPT ![a] = "wait"]
    /\ UNCHANGED <<bsp, ret, state, status, mailbox, tested>>

\* Where an AP goes on after send_bsp_request.
Resumes(r) ==
    CASE r = "start" -> "fn"
      [] r = "end" -> "end"
      [] r \in {"startup", "stop"} -> "loop"

\* The answer is there; the lock is released.  The handler of a stop request
\* then answers in its turn.
BspReqDone(a) ==
    /\ pc[a] = "wait"
    /\ bdone = 1
    /\ lock' = None
    /\ pc' = [pc EXCEPT ![a] = Resumes(ret[a])]
    /\ done' = IF ret[a] = "stop" THEN [done EXCEPT ![a] = 1] ELSE done
    /\ UNCHANGED <<bsp, ret, state, status, type, ipi, dropped, bdone, from, data,
                   bipi, tested>>

\* smp_mainloop finds a function to start ...
LoopStart(a) ==
    /\ pc[a] = "loop"
    /\ state[a] = "start"
    /\ pc' = [pc EXCEPT ![a] = "lock"]
    /\ ret' = [ret EXCEPT ![a] = "start"]
    /\ UNCHANGED <<bsp, state, status, mailbox, bspreq, tested>>

\* ... or processes to run, with interrupts on, or sleeps with them on.
LoopRunning(a) ==
    /\ pc[a] = "loop"
    /\ state[a] = "running"
    /\ pc' = [pc EXCEPT ![a] = "run"]
    /\ UNCHANGED <<bsp, ret, state, status, mailbox, bspreq, tested>>

\* The function (ap_testtask) runs with interrupts on ...
RunFn(a) ==
    /\ pc[a] = "fn"
    /\ tested' = 1
    /\ pc' = [pc EXCEPT ![a] = "fnret"]
    /\ UNCHANGED <<bsp, ret, state, status, mailbox, bspreq>>

\* ... and they are off again when its end is reported.
FnReturns(a) ==
    /\ pc[a] = "fnret"
    /\ pc' = [pc EXCEPT ![a] = "lock"]
    /\ ret' = [ret EXCEPT ![a] = "end"]
    /\ UNCHANGED <<bsp, state, status, mailbox, bspreq, tested>>

LoopEnd(a) ==
    /\ pc[a] = "end"
    /\ state' = [state EXCEPT ![a] = IF @ = "start" THEN "waiting" ELSE @]
    /\ pc' = [pc EXCEPT ![a] = "loop"]
    /\ UNCHANGED <<bsp, ret, status, mailbox, bspreq, tested>>

-----------------------------------------------------------------------------
(* smp_request_hdlr_c.                                                     *)

\* Interrupts are on here.  A core that waits for the BSP's answer turns them
\* on between two looks at it if they were on when it called send_bsp_request,
\* which they were not at the end of a function and in the handler.  A handler
\* that gets in there leaves the call for good, with the lock.
IF_ON(a) ==
    \/ pc[a] \in {"finish", "loop", "fn", "fnret", "run"}
    \/ pc[a] = "wait" /\ ret[a] \in {"startup", "start"}

Taken(a, t) ==
    /\ ipi[a] = 1
    /\ IF_ON(a)
    /\ type[a] = t
    /\ ipi' = [ipi EXCEPT ![a] = 0]

\* The handler answers and leaves through smp_contloop.
Answer(a) ==
    /\ done' = [done EXCEPT ![a] = 1]
    /\ pc' = [pc EXCEPT ![a] = "loop"]

\* Mutant: the refusal is not answered.
HdlrRunRefused_Silent(a) ==
    /\ Taken(a, "run")
    /\ state[a] # "waiting"
    /\ pc' = [pc EXCEPT ![a] = "loop"]
    /\ UNCHANGED <<bsp, ret, state, status, done, type, dropped, bspreq, tested>>

HdlrRunRefused(a) ==
    /\ Taken(a, "run")
    /\ state[a] # "waiting"
    /\ Answer(a)
    /\ UNCHANGED <<bsp, ret, state, status, type, dropped, bspreq, tested>>

\* Mutant: any core may be launched.
HdlrRun_Anytime(a) ==
    /\ Taken(a, "run")
    /\ state' = [state EXCEPT ![a] = "start"]
    /\ Answer(a)
    /\ UNCHANGED <<bsp, ret, status, type, dropped, bspreq, tested>>

HdlrRun(a) ==
    /\ Taken(a, "run")
    /\ state[a] = "waiting"
    /\ state' = [state EXCEPT ![a] = "start"]
    /\ Answer(a)
    /\ UNCHANGED <<bsp, ret, status, type, dropped, bspreq, tested>>

HdlrPause(a) ==
    /\ Taken(a, "pause")
    /\ state' = [state EXCEPT ![a] = "paused"]
    /\ Answer(a)
    /\ UNCHANGED <<bsp, ret, status, type, dropped, bspreq, tested>>

\* Mutant: the request is not answered.
HdlrCont_Silent(a) ==
    /\ Taken(a, "cont")
    /\ state' = [state EXCEPT ![a] = "running"]
    /\ pc' = [pc EXCEPT ![a] = "loop"]
    /\ UNCHANGED <<bsp, ret, status, done, type, dropped, bspreq, tested>>

HdlrCont(a) ==
    /\ Taken(a, "cont")
    /\ state' = [state EXCEPT ![a] = "running"]
    /\ Answer(a)
    /\ UNCHANGED <<bsp, ret, status, type, dropped, bspreq, tested>>

HdlrStop(a) ==
    /\ Taken(a, "stop")
    /\ state' = [state EXCEPT ![a] = "waiting"]
    /\ pc' = [pc EXCEPT ![a] = "lock"]
    /\ ret' = [ret EXCEPT ![a] = "stop"]
    /\ UNCHANGED <<bsp, status, done, type, dropped, bspreq, tested>>

-----------------------------------------------------------------------------
(* The BSP, whose interrupts are on throughout.                            *)

\* bsp_request_hdlr_c: BSP_REQ_SETSTAT.  Nobody sends BSP_REQ_PANIC.
BspHandles ==
    /\ bipi = 1
    /\ bipi' = 0
    /\ status' = [status EXCEPT ![from] = data]
    /\ bdone' = 1
    /\ UNCHANGED <<bsp, pc, ret, state, mailbox, lock, from, data, tested>>

\* send_ap_request.  An APIC that is not enabled drops the interrupt.
SendApRequest(a, t, then) ==
    /\ done' = [done EXCEPT ![a] = 0]
    /\ type' = [type EXCEPT ![a] = t]
    /\ ipi' = IF pc[a] = "off" THEN ipi ELSE [ipi EXCEPT ![a] = 1]
    /\ dropped' = IF pc[a] = "off" THEN 1 ELSE 0
    /\ target' = a
    /\ bpc' = "wait"
    /\ bret' = then

ApReqDone ==
    /\ bpc = "wait"
    /\ done[target] = 1
    /\ bpc' = bret
    /\ UNCHANGED <<bret, target, tries, nextap, api, pc, ret, state, status,
                   mailbox, bspreq, tested>>

Waiting == {a \in APs : status[a] = "waiting"}

\* ap_run takes the first core that waits.
FirstWaiting(a) == a \in Waiting /\ \A b \in Waiting : a <= b

\* Mutant: kmain tries again after a run that worked.
TestRuns_Again(a) ==
    /\ bpc = "test"
    /\ tries > 0
    /\ FirstWaiting(a)
    /\ tries' = tries - 1
    /\ SendApRequest(a, "run", IF tries > 1 THEN "test" ELSE "cont")
    /\ UNCHANGED <<nextap, api, pc, ret, state, status, bspreq, tested>>

\* kmain: "while (tries-- > 0 && ap_run(...) < 0)".
TestRuns(a) ==
    /\ bpc = "test"
    /\ tries > 0
    /\ FirstWaiting(a)
    /\ tries' = tries - 1
    /\ SendApRequest(a, "run", IF tries > 1 THEN "testwait" ELSE "cont")
    /\ UNCHANGED <<nextap, api, pc, ret, state, status, bspreq, tested>>

TestFails ==
    /\ bpc = "test"
    /\ tries = 0 \/ Waiting = {}
    /\ IF tries > 0
       THEN tries' = tries - 1 /\ UNCHANGED bpc
       ELSE bpc' = "cont" /\ UNCHANGED tries
    /\ UNCHANGED <<bret, target, nextap, api, pc, ret, state, status, mailbox,
                   bspreq, tested>>

\* kmain waits for the function, and gives up after a while.
TestWaited ==
    /\ bpc = "testwait"
    /\ bpc' = "cont"
    /\ UNCHANGED <<bret, target, tries, nextap, api, pc, ret, state, status,
                   mailbox, bspreq, tested>>

\* kmain continues every AP in turn, then the BSP starts its scheduler.
Continue(a) ==
    /\ bpc = "cont"
    /\ a = nextap
    /\ nextap' = nextap + 1
    /\ SendApRequest(a, "cont", IF a = NAPs THEN "sched" ELSE "cont")
    /\ UNCHANGED <<tries, api, pc, ret, state, status, bspreq, tested>>

\* ap_run, ap_pause, ap_continue and ap_stop, which apreq.h offers to the running
\* kernel.  Today only kmain calls ap_run and ap_continue, and nobody the others.
ApiCall(a, t) ==
    /\ bpc = "sched"
    /\ api < MaxApi
    /\ t \in Api
    /\ t = "run" => FirstWaiting(a)
    /\ api' = api + 1
    /\ SendApRequest(a, t, "sched")
    /\ UNCHANGED <<tries, nextap, pc, ret, state, status, bspreq, tested>>

-----------------------------------------------------------------------------

Init ==
    /\ bpc = "test"
    /\ bret = "test"
    /\ target = None
    /\ tries = Tries
    /\ nextap = 1
    /\ api = 0
    /\ pc = [a \in APs |-> "off"]
    /\ ret = [a \in APs |-> "startup"]
    /\ state = [a \in APs |-> "waiting"]
    /\ status = [a \in APs |-> "dead"]
    /\ done = [a \in APs |-> 0]
    /\ type = [a \in APs |-> "run"]
    /\ ipi = [a \in APs |-> 0]
    /\ dropped = 0
    /\ lock = None
    /\ bdone = 0
    /\ from = None
    /\ data = "dead"
    /\ bipi = 0
    /\ tested = 0

\* Code of an AP that waits for nobody.
ApSteps(a) ==
    \/ ApEnable(a) \/ ApFinish(a) \/ BspReqDone(a)
    \/ LoopStart(a) \/ LoopRunning(a) \/ RunFn(a) \/ FnReturns(a) \/ LoopEnd(a)

Handler(a) ==
    \/ HdlrRunRefused(a) \/ HdlrRun(a) \/ HdlrPause(a) \/ HdlrCont(a)
    \/ HdlrStop(a)

\* kmain, up to the scheduler.
Kmain ==
    \/ ApReqDone \/ TestFails \/ TestWaited
    \/ \E a \in APs : TestRuns(a) \/ Continue(a)

Next ==
    \/ \E a \in APs : ApSteps(a) \/ BspReqSend(a) \/ Handler(a)
    \/ BspHandles
    \/ Kmain
    \/ \E a \in APs, t \in Api : ApiCall(a, t)

Spec == Init /\ [][Next]_vars

\* Cores do not stop; an interrupt that is pending while interrupts are on is
\* taken; who spins on a lock that stays free gets it.
FairSpec ==
    /\ Spec
    /\ WF_vars(BspHandles)
    /\ WF_vars(Kmain)
    /\ \A a \in APs :
          /\ WF_vars(ApSteps(a))
          /\ WF_vars(Handler(a))
          /\ WF_vars(BspReqSend(a))

-----------------------------------------------------------------------------
(* Properties.                                                             *)

TypeOK ==
    /\ bpc \in {"test", "testwait", "cont", "wait", "sched"}
    /\ bret \in {"test", "testwait", "cont", "sched"}
    /\ target \in APs \cup {None}
    /\ tries \in 0 .. Tries
    /\ nextap \in 1 .. NAPs + 1
    /\ api \in 0 .. MaxApi
    /\ pc \in [APs -> {"off", "finish", "lock", "wait", "loop", "fn", "fnret",
                       "run", "end"}]
    /\ ret \in [APs -> Reports]
    /\ state \in [APs -> {"waiting", "paused", "start", "running"}]
    /\ status \in [APs -> {"dead", "waiting", "working"}]
    /\ done \in [APs -> 0 .. 1]
    /\ type \in [APs -> {"run", "pause", "cont", "stop"}]
    /\ ipi \in [APs -> 0 .. 1]
    /\ dropped \in 0 .. 1
    /\ lock \in APs \cup {None}
    /\ bdone \in 0 .. 1
    /\ from \in APs \cup {None}
    /\ data \in {"dead", "waiting", "working"}
    /\ bipi \in 0 .. 1
    /\ tested \in 0 .. 1

\* A handler took the core that holds the lock of global_bspreq_buf out of
\* send_bsp_request: nobody will release it.
Orphaned == \E a \in APs : lock = a /\ pc[a] # "wait"

\* What a core finds in the request buffer is the answer to its own request: when
\* done is set the BSP's table has the status this core asked for, and a request
\* that is pending is that of the core that holds the lock, whoever else waits
\* for the buffer and whatever interrupted the holder (send_bsp_request).
AnswerIsOwn ==
    /\ \A a \in APs : pc[a] = "wait" /\ bdone = 1 => status[a] = Wanted(ret[a])
    /\ bipi = 1 => lock # None /\ from = lock /\ bdone = 0

\* The core kmain's ap_run picks by its SMP_STATUS_WAITING is up, and still waiting
\* when the request gets there: kmain does not wait for a function that was lost
\* or refused (ap_run looks at the BSP's copy of the state, the handler at the
\* state).
RunIsTaken ==
    /\ dropped = 1 => type[target] # "run"
    /\ \A a \in APs :
          api = 0 /\ ipi[a] = 1 /\ type[a] = "run" => state[a] = "waiting"

\* smp_main.c: "only safe to launch out of the idle loop, yanking a paused or
\* running core would orphan whatever frame it was wearing".  A launch comes out
\* of the idle loop or out of one frame: that of the core's first report, which
\* the BSP has answered and the core has not looked at yet.
LaunchFrame ==
    [][\A a \in APs :
          state[a] # "start" /\ state'[a] = "start" =>
              /\ state[a] = "waiting"
              /\ \/ pc[a] = "loop"
                 \/ /\ pc[a] = "wait"
                    /\ ret[a] = "startup"
                    /\ lock = a
                    /\ bdone = 1]_vars

\* Boot comes to its end: every request kmain makes of a core is answered
\* (smp_main.c: "ack anyway or the bsp spins forever"), unless it was sent before
\* that core enabled its APIC, or a request took the holder of the buffer's lock
\* out of its wait.
BootCompletes == <>(bpc = "sched" \/ dropped = 1 \/ Orphaned)

\* With the same exceptions every request of the running kernel is answered.
RequestsAnswered == bpc = "wait" ~> (bpc # "wait" \/ dropped = 1 \/ Orphaned)
=============================================================================
