---------------------------- MODULE SmpReqProofs ----------------------------
(***************************************************************************)
(* Proofs about the requests between the cores, for any number of cores    *)
(* and any sequence of requests, wherever the interrupts fall.             *)
(***************************************************************************)
EXTENDS SmpReq, TLAPS

\* Who waits for an answer holds the lock, and the buffer holds its request; once
\* that is answered the table has the status it asked for.  The buffer is the lock
\* holder's even if a handler took the holder out of its wait.
BufferIsHolders ==
    /\ \A a \in APs : pc[a] = "wait" =>
          /\ lock = a
          /\ data = Wanted(ret[a])
          /\ bdone = 1 => status[a] = Wanted(ret[a])
    /\ lock # None => from = lock
    /\ bipi = 1 => lock # None /\ bdone = 0

\* A core whose first report is not answered yet ...
Fresh(a) ==
    \/ pc[a] \in {"off", "finish"}
    \/ ret[a] = "startup" /\ (pc[a] = "lock" \/ (pc[a] = "wait" /\ bdone = 0))

\* ... is not known to wait, gets no function, and has the lock only to report.
FreshUnknown ==
    \A a \in APs : Fresh(a) =>
        /\ status[a] = "dead"
        /\ ipi[a] = 1 => type[a] # "run"
        /\ pc[a] # "wait" => lock # a

\* Where a core is tells its state.
StateFollows ==
    \A a \in APs :
        /\ pc[a] = "run" => state[a] = "running"
        /\ pc[a] \in {"fn", "fnret"} => state[a] = "start"
        /\ pc[a] \in {"lock", "wait"} /\ ret[a] = "start" => state[a] = "start"

\* Until kmain's first request no core has had one.
BootQuiet ==
    /\ bpc = "test" => \A a \in APs : ipi[a] = 0 /\ state[a] = "waiting"
    /\ bpc = "wait" => bret # "test"

RInv ==
    TypeOK /\ BufferIsHolders /\ FreshUnknown /\ StateFollows /\ BootQuiet
      /\ RunIsTaken

USE DEF APs, None

\* Boot.
LEMMA InitRInv == Init => RInv
  BY SmpReqAssumption, SMTT(60) DEF Init, RInv, TypeOK, BufferIsHolders, FreshUnknown, Fresh,
     StateFollows, BootQuiet, RunIsTaken, Reports

\* The AP's own code.
LEMMA ApStep ==
    ASSUME NEW a \in APs
    PROVE  RInv /\ ApSteps(a) => RInv'
  <1> SUFFICES ASSUME RInv, ApSteps(a) PROVE RInv'
    OBVIOUS
  <1> USE DEF RInv, TypeOK, BufferIsHolders, FreshUnknown, Fresh,
     StateFollows, BootQuiet, RunIsTaken,
          Reports, Wanted, bsp, mailbox, bspreq
  <1>1. CASE ApEnable(a)
    BY <1>1 DEF ApEnable
  <1>2. CASE ApFinish(a)
    BY <1>2 DEF ApFinish
  <1>3. CASE BspReqDone(a)
    BY <1>3 DEF BspReqDone, Resumes
  <1>4. CASE LoopStart(a)
    BY <1>4 DEF LoopStart
  <1>5. CASE LoopRunning(a)
    BY <1>5 DEF LoopRunning
  <1>6. CASE RunFn(a)
    BY <1>6 DEF RunFn
  <1>7. CASE FnReturns(a)
    BY <1>7 DEF FnReturns
  <1>8. CASE LoopEnd(a)
    BY <1>8, SMTT(60) DEF LoopEnd
  <1> HIDE DEF RInv
  <1> QED
    BY <1>1, <1>2, <1>3, <1>4, <1>5, <1>6, <1>7, <1>8 DEF ApSteps

\* send_bsp_request takes the lock and fills the buffer.
LEMMA SendStep ==
    ASSUME NEW a \in APs
    PROVE  RInv /\ BspReqSend(a) => RInv'
  <1> SUFFICES ASSUME RInv, BspReqSend(a) PROVE RInv'
    OBVIOUS
  <1> QED
    BY SMTT(60)
       DEF BspReqSend, RInv, TypeOK, BufferIsHolders, FreshUnknown, Fresh,
     StateFollows, BootQuiet, RunIsTaken, Reports, Wanted, bsp, mailbox

\* A request interrupts a core, which may hold the lock.
LEMMA HandlerStep ==
    ASSUME NEW a \in APs
    PROVE  RInv /\ Handler(a) => RInv'
  <1> SUFFICES ASSUME RInv, Handler(a) PROVE RInv'
    OBVIOUS
  <1> USE DEF RInv, TypeOK, BufferIsHolders, FreshUnknown, Fresh,
     StateFollows, BootQuiet, RunIsTaken,
          Reports, Wanted, bsp, bspreq, Taken, IF_ON, Answer
  <1>1. CASE HdlrRunRefused(a)
    BY <1>1 DEF HdlrRunRefused
  <1>2. CASE HdlrRun(a)
    BY <1>2 DEF HdlrRun
  <1>3. CASE HdlrPause(a)
    BY <1>3, SMTT(60) DEF HdlrPause
  <1>4. CASE HdlrCont(a)
    BY <1>4 DEF HdlrCont
  <1>5. CASE HdlrStop(a)
    BY <1>5 DEF HdlrStop
  <1> HIDE DEF RInv
  <1> QED
    BY <1>1, <1>2, <1>3, <1>4, <1>5 DEF Handler

\* The BSP answers the core that holds the lock, waiting or not.
LEMMA BspStep == RInv /\ BspHandles => RInv'
  <1> SUFFICES ASSUME RInv, BspHandles PROVE RInv'
    OBVIOUS
  <1>1. lock \in APs /\ from = lock
    BY DEF BspHandles, RInv, TypeOK, BufferIsHolders
  <1> QED
    BY <1>1 DEF BspHandles, RInv, TypeOK, BufferIsHolders, FreshUnknown, Fresh,
       StateFollows, BootQuiet, RunIsTaken, Reports, Wanted, bsp, mailbox

\* The BSP's own code.
LEMMA KmainStep == RInv /\ Kmain => RInv'
  <1> SUFFICES ASSUME RInv, Kmain PROVE RInv'
    OBVIOUS
  <1> USE SmpReqAssumption
          DEF RInv, TypeOK, BufferIsHolders, FreshUnknown, Fresh,
     StateFollows, BootQuiet, RunIsTaken,
          Reports, Wanted, bspreq, mailbox
  <1>1. CASE ApReqDone
    BY <1>1 DEF ApReqDone
  <1>2. CASE TestFails
    BY <1>2 DEF TestFails
  <1>3. CASE TestWaited
    BY <1>3 DEF TestWaited
  <1>4. ASSUME NEW a \in APs, TestRuns(a) PROVE RInv'
    BY <1>4, SMTT(60) DEF TestRuns, SendApRequest, FirstWaiting, Waiting
  <1>5. ASSUME NEW a \in APs, Continue(a) PROVE RInv'
    BY <1>5 DEF Continue, SendApRequest
  <1> HIDE DEF RInv
  <1> QED
    BY <1>1, <1>2, <1>3, <1>4, <1>5 DEF Kmain

\* Requests of the running kernel.
LEMMA ApiStep ==
    ASSUME NEW a \in APs, NEW t \in Api
    PROVE  RInv /\ ApiCall(a, t) => RInv'
  BY SmpReqAssumption
     DEF ApiCall, SendApRequest, FirstWaiting, Waiting, RInv, TypeOK, BufferIsHolders, FreshUnknown, Fresh,
     StateFollows, BootQuiet, RunIsTaken, Reports, Wanted, bspreq

\* Every step keeps the invariant.
LEMMA NextRInv ==
    RInv /\ [Next]_vars => RInv'
  <1> SUFFICES ASSUME RInv, [Next]_vars PROVE RInv'
    OBVIOUS
  <1>1. ASSUME NEW a \in APs, ApSteps(a) PROVE RInv'
    BY <1>1, ApStep
  <1>2. ASSUME NEW a \in APs, BspReqSend(a) PROVE RInv'
    BY <1>2, SendStep
  <1>3. ASSUME NEW a \in APs, Handler(a) PROVE RInv'
    BY <1>3, HandlerStep
  <1>4. CASE BspHandles
    BY <1>4, BspStep
  <1>5. CASE Kmain
    BY <1>5, KmainStep
  <1>6. ASSUME NEW a \in APs, NEW t \in Api, ApiCall(a, t) PROVE RInv'
    BY <1>6, ApiStep, SMTT(60)
  <1>7. CASE UNCHANGED vars
    BY <1>7 DEF vars, bsp, mailbox, bspreq, RInv, TypeOK, BufferIsHolders, FreshUnknown, Fresh,
     StateFollows, BootQuiet, RunIsTaken
  <1> QED
    BY <1>1, <1>2, <1>3, <1>4, <1>5, <1>6, <1>7 DEF Next

\* The invariant holds throughout.
LEMMA RInvAlways ==
    Spec => []RInv
  BY InitRInv, NextRInv, PTL DEF Spec

-----------------------------------------------------------------------------
(* The theorems.                                                           *)

\* What a core finds in the request buffer is the answer to its own request, for
\* any number of cores and wherever a request interrupts them (send_bsp_request).
THEOREM AnswersAreOwn == Spec => []AnswerIsOwn
  <1>1. RInv => AnswerIsOwn
    BY DEF RInv, BufferIsHolders, AnswerIsOwn
  <1> QED BY <1>1, RInvAlways, PTL

\* The function kmain has a core run (ap_run) is neither lost nor refused.
THEOREM RunsAreTaken == Spec => []RunIsTaken
  <1>1. RInv => RunIsTaken
    BY DEF RInv
  <1> QED BY <1>1, RInvAlways, PTL

\* AP_REQ_RUN launches a core out of its idle loop or out of its first report
\* once that is answered, and out of no other frame.
THEOREM LaunchesDropNoFrame == Spec => LaunchFrame
  <1> DEFINE Launch ==
        \A a \in APs :
            state[a] # "start" /\ state'[a] = "start" =>
                /\ state[a] = "waiting"
                /\ \/ pc[a] = "loop"
                   \/ /\ pc[a] = "wait"
                      /\ ret[a] = "startup"
                      /\ lock = a
                      /\ bdone = 1
  <1>1. RInv /\ [Next]_vars => [Launch]_vars
    <2> SUFFICES ASSUME RInv, Next PROVE Launch
      BY DEF vars
    <2>1. ASSUME NEW a \in APs, HdlrRun(a) PROVE Launch
      <3>1. state[a] = "waiting" /\ IF_ON(a) /\ ipi[a] = 1 /\ type[a] = "run"
        BY <2>1 DEF HdlrRun, Taken
      <3>2. \/ pc[a] = "loop"
            \/ pc[a] = "wait" /\ ret[a] = "startup"
        BY <3>1 DEF IF_ON, RInv, StateFollows, FreshUnknown, Fresh
      <3>3. pc[a] = "wait" /\ ret[a] = "startup" => lock = a /\ bdone = 1
        BY <3>1 DEF RInv, TypeOK, BufferIsHolders, FreshUnknown, Fresh
      <3>4. \A b \in APs : b # a => state'[b] = state[b]
        BY <2>1 DEF HdlrRun, RInv, TypeOK
      <3> QED BY <3>1, <3>2, <3>3, <3>4
    <2>2. ASSUME \A a \in APs : ~ HdlrRun(a)
          PROVE  \A b \in APs : state'[b] = "start" => state[b] = "start"
      <3>1. ASSUME NEW a \in APs, ApSteps(a)
            PROVE  \A b \in APs : state'[b] = "start" => state[b] = "start"
        BY <3>1, ZenonT(60) DEF ApSteps, ApEnable, ApFinish, BspReqDone,
           LoopStart, LoopRunning, RunFn, FnReturns, LoopEnd, RInv, TypeOK
      <3>2. ASSUME NEW a \in APs, Handler(a)
            PROVE  \A b \in APs : state'[b] = "start" => state[b] = "start"
        BY <2>2, <3>2, ZenonT(60) DEF Handler, HdlrRunRefused, HdlrPause,
           HdlrCont, HdlrStop, RInv, TypeOK
      <3>3. ASSUME \/ \E a \in APs : BspReqSend(a)
                   \/ BspHandles
                   \/ Kmain
                   \/ \E a \in APs, t \in Api : ApiCall(a, t)
            PROVE  state' = state
        BY <3>3 DEF BspReqSend, BspHandles, Kmain, ApReqDone, TestFails,
           TestWaited, TestRuns, Continue, ApiCall
      <3> QED BY <3>1, <3>2, <3>3, SMTT(60) DEF Next
    <2> QED BY <2>1, <2>2
  <1> QED BY <1>1, RInvAlways, PTL DEF Spec, LaunchFrame
=============================================================================
