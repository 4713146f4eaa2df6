------------------------------- MODULE DeviceIo -------------------------------
(***************************************************************************)
(* The superblock layers over the devices of the repository: org_block is  *)
(* an algo_aio_device or a test_algo_device.  Each do_request of the lowest*)
(* layer is a call of the device, each report of a request is made by the  *)
(* device's own thread, which runs request_done of every layer.            *)
(***************************************************************************)
EXTENDS SuperIo, AioDevice, QueueDevice

ASSUME NoRequestAssumption == NoRequest \notin Requests

VARIABLE kind     \* the class of the device

ioVars == <<vars, aioVars, queueVars, kind>>

DeviceInit ==
  /\ Init /\ AioInit /\ QueueInit
  /\ kind \in {"aio", "queue"}

\* The device's do_request.
Accept(r) ==
  \/ kind = "aio" /\ Submit(r) /\ UNCHANGED queueVars
  \/ kind = "queue" /\ Push(r) /\ UNCHANGED aioVars

\* The device's thread calls complete_request.
Deliver(r, s) ==
  \/ kind = "aio" /\ TakeEvent(r) /\ s = OK /\ UNCHANGED queueVars
  \/ kind = "queue" /\ Finish(r) /\ UNCHANGED aioVars

\* What the device does between the two.
AioStep ==
  /\ (\E r \in Requests : KernelFinish(r)) \/ KernelSignal \/ EpollEvent \/ ReadEventFd
  /\ UNCHANGED <<vars, queueVars, kind>>

QueueStep == Pop /\ UNCHANGED <<vars, aioVars, kind>>

Accepted(r) ==
  /\ Accept(r)
  /\ pending' = pending \cup {r}
  /\ UNCHANGED <<reported, kind>>

UserAct(u) ==
  \/ (Call(u) \/ Lock(u) \/ Wait(u)) /\ UNCHANGED <<pending, reported, aioVars, queueVars, kind>>
  \/ SyncRequest(u) /\ Accepted(u)

\* The owner of an ordinary request issues it when it has it in hand.
IssueAct(r) == r \notin pending /\ \E a \in Addrs : DoRequest(r, a) /\ Accepted(r)

ReportAct(r) ==
  \E s \in Status :
    /\ Deliver(r, s)
    /\ RequestDone(r, s)
    /\ pending' = pending \ {r}
    /\ reported' = [reported EXCEPT ![r] = s]
    /\ UNCHANGED kind

DeviceNext ==
  \/ \E u \in Users : UserAct(u)
  \/ \E r \in Reqs : IssueAct(r)
  \/ \E r \in Requests : ReportAct(r)
  \/ AioStep
  \/ QueueStep

\* Threads inside a call run on; the kernel finishes what it accepted, counts
\* it, and wakes the epoll thread; pool and worker threads run.
DeviceFairness ==
  /\ \A u \in Users : WF_ioVars(UserAct(u) /\ pc[u] # "idle")
  /\ \A r \in Requests : WF_ioVars(ReportAct(r)) /\ WF_ioVars(KernelFinish(r) /\ AioStep)
  /\ WF_ioVars(KernelSignal /\ AioStep)
  /\ WF_ioVars(EpollEvent /\ AioStep)
  /\ WF_ioVars(ReadEventFd /\ AioStep)
  /\ WF_ioVars(QueueStep)

DeviceSpec == DeviceInit /\ [][DeviceNext]_ioVars /\ DeviceFairness
-------------------------------------------------------------------------------
\* Both devices are the block device the layers count on: each request the
\* layers pass down is reported once, and what has been passed
\* down and not reported is exactly what the device's structures hold.
Blocks == INSTANCE SuperIo WITH
            pending <- IF kind = "aio" THEN AioPending ELSE QueuePending

BlockSpec == Blocks!SafetySpec
===============================================================================
