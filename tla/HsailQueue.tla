----------------------------- MODULE HsailQueue -----------------------------
(***************************************************************************)
(* The life of the one user mode queue that HsailRuntimeContext shares     *)
(* among all tests of a run (hexl_hsaruntime/HsailRuntime.cpp), and of the *)
(* kernel dispatches that the tests push through it.                       *)
(*                                                                         *)
(* Three parties run concurrently:                                         *)
(*   - the host thread, which runs one test after the other: NewState, then*)
(*     DispatchCreate / DispatchArg / DispatchExecute for each dispatch of *)
(*     the scenario, then the destructor of HsailRuntimeContextState;      *)
(*   - the packet processor of the agent (external), which consumes packets*)
(*     in order, because every header carries the BARRIER bit;             *)
(*   - the runtime thread that calls HsaQueueErrorCallback (external).     *)
(*                                                                         *)
(* Handles of signals and kernarg blocks are reused after they are freed,  *)
(* as any allocator does.  An allocation that fails is modelled by the     *)
(* failing outcome of the call.                                            *)
(***************************************************************************)
EXTENDS Integers, Sequences

CONSTANTS
    Size,            \* queue->size: number of packet slots
    Signals,         \* handles hsa_signal_create can return
    KernArgs,        \* kernarg blocks hsa_memory_allocate can return
    NoSignal,        \* the zero signal handle of a cleared packet
    NoArg,           \* kernarg_address 0
    MaxTests,        \* bound: tests of the run
    MaxDispatches    \* bound: dispatches of one scenario

ASSUME SizeAssumption == Size \in Nat \ {0}
ASSUME HandleAssumption == NoSignal \notin Signals /\ NoArg \notin KernArgs
ASSUME BoundAssumption == MaxTests \in Nat /\ MaxDispatches \in Nat

VARIABLES
    pc,          \* where the host thread is
    tests,       \* number of tests started
    queue,       \* HsailRuntimeContext::queue: generation of the queue, 0 if null
    gen,         \* generations created so far
    queueError,  \* HsailRuntimeContext::queueError (volatile bool)
    state,       \* of the current queue: active, failing (callback due), reported
    writeIndex, readIndex, doorbell, ring,   \* of the current queue
    lost,        \* packet ids of the current queue nobody waits for any more
    sigAlloc, sigVal,      \* allocated signals, and the value of each handle
    argAlloc, argData,     \* allocated kernarg blocks, who wrote each one last
    live,        \* the HsailDispatch objects of the running test, oldest first
    serial       \* dispatches created so far

hostVars == <<pc, tests, live, serial>>
queueVars == <<queue, gen, state, writeIndex, readIndex, doorbell, ring, lost>>
heapVars == <<sigAlloc, sigVal, argAlloc, argData>>
vars == <<hostVars, queueVars, queueError, heapVars>>

PCs == {"idle", "test", "clear", "reserve", "fill", "args", "ready", "wait",
        "cleanup", "disposed"}

Slot == [hdr : {"invalid", "dispatch"}, owner : Nat,
         sig : Signals \cup {NoSignal}, arg : KernArgs \cup {NoArg}]

Dispatch == [serial : Nat, queue : Nat, id : Nat,
             sig : Signals, arg : KernArgs \cup {NoArg}]

EmptySlot == [hdr |-> "invalid", owner |-> 0, sig |-> NoSignal, arg |-> NoArg]
EmptyRing == [i \in 0..(Size - 1) |-> EmptySlot]

\* The packet of a given packet id, and the one the processor is at.
SlotOf(id) == id % Size
HeadPacket == ring[SlotOf(readIndex)]

\* The dispatch the host is working on: the newest one of the test.
cur == live[Len(live)]
-----------------------------------------------------------------------------
(* A run starts after HsailRuntimeContext::Init: one healthy, empty queue.  *)
Init ==
    /\ pc = "idle" /\ tests = 0 /\ live = <<>> /\ serial = 0
    /\ queue = 1 /\ gen = 1 /\ state = "active" /\ queueError = FALSE
    /\ writeIndex = 0 /\ readIndex = 0 /\ doorbell = -1 /\ ring = EmptyRing
    /\ lost = {}
    /\ sigAlloc = {} /\ sigVal = [s \in Signals |-> 0]
    /\ argAlloc = {} /\ argData = [a \in KernArgs |-> 0]

NewState ==
    /\ pc = "idle" /\ tests < MaxTests
    /\ tests' = tests + 1
    /\ pc' = "test"
    /\ UNCHANGED <<live, serial, queueVars, queueError, heapVars>>

(* hsa_queue_create: a fresh generation with an empty ring.                 *)
FreshQueue ==
    /\ gen' = gen + 1 /\ queue' = gen' /\ state' = "active"
    /\ writeIndex' = 0 /\ readIndex' = 0 /\ doorbell' = -1
    /\ ring' = EmptyRing /\ lost' = {}

(* hsa_queue_create failed after the old queue was destroyed.               *)
NoQueue ==
    /\ queue' = 0
    /\ UNCHANGED <<gen, state, writeIndex, readIndex, doorbell, ring, lost>>

(* QueueNoError, first part: destroy a queue whose error was noted, create  *)
(* a queue when there is none.  queueError is read here and cleared later.  *)
QueueNoErrorCheck ==
    /\ pc = "test" /\ Len(live) < MaxDispatches
    /\ IF queueError \/ queue = 0 THEN FreshQueue \/ NoQueue ELSE UNCHANGED queueVars
    /\ pc' = "clear"
    /\ UNCHANGED <<tests, live, serial, queueError, heapVars>>

(* QueueNoError, second part: queueError = false; a null queue ends the     *)
(* scenario ("Queue is not available").                                     *)
ClearQueueError(flag) ==
    /\ pc = "clear"
    /\ queueError' = flag
    /\ pc' = IF queue = 0 THEN "cleanup" ELSE "reserve"
    /\ UNCHANGED <<tests, live, serial, queueVars, heapVars>>

KeepQueueError == ClearQueueError(queueError)    \* a variation
QueueNoErrorClear == ClearQueueError(FALSE)

(* DispatchCreate takes the next write index without looking at the read    *)
(* index, and clears the packet except its header and setup words.          *)
Reserve(n, header) ==
    /\ pc = "reserve"
    /\ writeIndex' = writeIndex + n
    /\ serial' = serial + 1
    /\ ring' = [ring EXCEPT ![SlotOf(writeIndex)] =
                   [hdr |-> header, owner |-> serial + 1,
                    sig |-> NoSignal, arg |-> NoArg]]
    /\ pc' = "fill"
    /\ UNCHANGED <<tests, live, queue, gen, state, readIndex, doorbell, lost,
                   queueError, heapVars>>

ReserveTwo == Reserve(2, ring[SlotOf(writeIndex)].hdr)    \* a variation
ReserveWithHeader == Reserve(1, "dispatch")               \* a variation
ReservePacket == Reserve(1, ring[SlotOf(writeIndex)].hdr)

(* The kernarg block and the completion signal are created, and the         *)
(* HsailDispatch is put in the context.                                     *)
Fill(value) ==
    /\ pc = "fill"
    /\ \E s \in Signals \ sigAlloc, a \in (KernArgs \ argAlloc) \cup {NoArg} :
         /\ sigAlloc' = sigAlloc \cup {s}
         /\ sigVal' = [sigVal EXCEPT ![s] = value]
         /\ argAlloc' = argAlloc \cup ({a} \ {NoArg})
         /\ ring' = [ring EXCEPT ![SlotOf(writeIndex - 1)].sig = s,
                                 ![SlotOf(writeIndex - 1)].arg = a]
         /\ live' = Append(live, [serial |-> serial, queue |-> queue,
                                  id |-> writeIndex - 1, sig |-> s, arg |-> a])
         /\ pc' = IF a = NoArg THEN "ready" ELSE "args"
    /\ UNCHANGED <<tests, serial, queue, gen, state, writeIndex, readIndex,
                   doorbell, lost, queueError, argData>>

FillZeroSignal == Fill(0)    \* a variation
FillPacket == Fill(1)

\* A variation: the signal is created before the calls that may fail.
FillFailsWithSignal ==
    /\ pc = "fill"
    /\ \E s \in Signals \ sigAlloc : sigAlloc' = sigAlloc \cup {s}
    /\ lost' = lost \cup {writeIndex - 1}
    /\ pc' = "cleanup"
    /\ UNCHANGED <<tests, live, serial, queue, gen, state, writeIndex, readIndex,
                   doorbell, ring, queueError, argAlloc, sigVal, argData>>

(* One of the calls of DispatchCreate after the reservation failed: the     *)
(* slot stays reserved, and a kernarg block that was allocated is leaked.   *)
FillPacketFails ==
    /\ pc = "fill"
    /\ \E a \in (KernArgs \ argAlloc) \cup {NoArg} :
         /\ argAlloc' = argAlloc \cup ({a} \ {NoArg})
         /\ ring' = [ring EXCEPT ![SlotOf(writeIndex - 1)].arg = a]
    /\ lost' = lost \cup {writeIndex - 1}
    /\ pc' = "cleanup"
    /\ UNCHANGED <<tests, live, serial, queue, gen, state, writeIndex,
                   readIndex, doorbell, queueError, sigAlloc, sigVal, argData>>

(* DispatchArg writes the arguments to the kernarg block.                   *)
WriteArguments(d) ==
    /\ pc = "args"
    /\ argData' = [argData EXCEPT ![d.arg] = cur.serial]
    /\ pc' = "ready"
    /\ UNCHANGED <<tests, live, serial, queueVars, queueError, sigAlloc,
                   sigVal, argAlloc>>

WriteToFirst == WriteArguments(live[1])    \* a variation
DispatchArg == WriteArguments(cur)

(* DispatchExecute publishes the packet: header with release, then the      *)
(* doorbell of the runtime's current queue.                                 *)
PublishPacket(bell, next) ==
    /\ pc = "ready"
    /\ ring' = IF cur.queue = queue
                 THEN [ring EXCEPT ![SlotOf(cur.id)].hdr = "dispatch"]
                 ELSE ring    \* a write to the ring of a destroyed queue
    /\ doorbell' = bell
    /\ pc' = next
    /\ UNCHANGED <<tests, live, serial, queue, gen, state, writeIndex,
                   readIndex, lost, queueError, heapVars>>

PublishSlotNumber == PublishPacket(SlotOf(cur.id), "wait")  \* a variation
Publish == PublishPacket(cur.id, "wait")

(* The packet the host stops waiting for is lost when the processor has not *)
(* finished it and no error is noted: nobody will look at it again.         *)
StopWaiting(next) ==
    /\ pc' = next
    /\ lost' = IF cur.queue = queue /\ cur.id >= readIndex /\ state # "reported"
                 THEN lost \cup {cur.id} ELSE lost
    /\ UNCHANGED <<tests, live, serial, queue, gen, state, writeIndex, readIndex,
                   doorbell, ring, queueError, heapVars>>

(* The wait loop of DispatchExecute sees the completion signal at 0.  An    *)
(* error noted in the meantime still fails the execution.                   *)
WaitDone ==
    /\ pc = "wait" /\ sigVal[cur.sig] = 0
    /\ StopWaiting(IF queueError THEN "cleanup" ELSE "test")

\* A variation: the flag is looked at only once the signal is at 0.
WaitErrorAfterDone ==
    /\ pc = "wait" /\ sigVal[cur.sig] = 0 /\ queueError
    /\ StopWaiting("cleanup")

(* The loop is left because of a queue error.  DispatchExecuteError of the  *)
(* debugtrap test counts this as success, and its scenario ends here too.   *)
WaitError ==
    /\ pc = "wait" /\ sigVal[cur.sig] # 0 /\ queueError
    /\ StopWaiting("cleanup")

\* A variation: a timeout makes the host publish the packet again.
WaitTimeoutRetries ==
    /\ pc = "wait" /\ sigVal[cur.sig] # 0
    /\ pc' = "ready"
    /\ UNCHANGED <<tests, live, serial, queueVars, queueError, heapVars>>

(* "Kernel execution timed out": nothing is done about the packet.          *)
WaitTimeout ==
    /\ pc = "wait" /\ sigVal[cur.sig] # 0
    /\ StopWaiting("cleanup")

(* The scenario has no further dispatch.                                    *)
EndScenario ==
    /\ pc = "test"
    /\ pc' = "cleanup"
    /\ UNCHANGED <<tests, live, serial, queueVars, queueError, heapVars>>

(* ~HsailRuntimeContextState deletes the newest object first; the dispatch  *)
(* frees its kernarg block and its completion signal.  A packet that the    *)
(* processor is not done with stays in the ring and refers to both.         *)
DispatchDestroy ==
    /\ pc = "cleanup" /\ live # <<>>
    /\ argAlloc' = argAlloc \ {cur.arg}
    /\ sigAlloc' = sigAlloc \ {cur.sig}
    /\ live' = SubSeq(live, 1, Len(live) - 1)
    /\ UNCHANGED <<pc, tests, serial, queueVars, queueError, sigVal, argData>>

EndTest ==
    /\ pc = "cleanup" /\ live = <<>>
    /\ pc' = "idle"
    /\ UNCHANGED <<tests, live, serial, queueVars, queueError, heapVars>>

(* Dispose: QueueDestroy and hsa_shut_down.  QueueDestroy asserts queue.    *)
Dispose ==
    /\ pc = "idle" /\ tests = MaxTests
    /\ queue' = 0
    /\ pc' = "disposed"
    /\ UNCHANGED <<tests, live, serial, gen, state, writeIndex, readIndex,
                   doorbell, ring, lost, queueError, heapVars>>
-----------------------------------------------------------------------------
(* The packet processor takes the packet at the read index when its header  *)
(* is valid; a reserved packet that is not published blocks the queue.      *)
CanProcess ==
    /\ queue # 0 /\ state = "active"
    /\ readIndex < writeIndex /\ readIndex <= doorbell
    /\ HeadPacket.hdr = "dispatch"

PacketCompletes ==
    /\ CanProcess /\ HeadPacket.sig \in Signals
    /\ sigVal' = [sigVal EXCEPT ![HeadPacket.sig] = @ - 1]
    /\ ring' = [ring EXCEPT ![SlotOf(readIndex)].hdr = "invalid"]
    /\ readIndex' = readIndex + 1
    /\ UNCHANGED <<hostVars, queue, gen, state, writeIndex, doorbell, lost,
                   queueError, sigAlloc, argAlloc, argData>>

(* The kernel traps, or the packet is bad: the queue enters the error state *)
(* and processes nothing more.                                              *)
PacketFails ==
    /\ CanProcess
    /\ state' = "failing"
    /\ UNCHANGED <<hostVars, queue, gen, writeIndex, readIndex, doorbell, ring,
                   lost, queueError, heapVars>>

\* A variation: the callback restarts the queue itself.
QueueErrorRestarts ==
    /\ queue # 0 /\ state = "failing"
    /\ FreshQueue
    /\ queueError' = TRUE
    /\ UNCHANGED <<hostVars, heapVars>>

(* HsaQueueErrorCallback -> QueueError: only notes the error.               *)
QueueError ==
    /\ queue # 0 /\ state = "failing"
    /\ state' = "reported"
    /\ queueError' = TRUE
    /\ UNCHANGED <<hostVars, queue, gen, writeIndex, readIndex, doorbell, ring,
                   lost, heapVars>>
-----------------------------------------------------------------------------
DispatchCreate == QueueNoErrorCheck \/ QueueNoErrorClear \/ ReservePacket
                    \/ FillPacket \/ FillPacketFails
DispatchExecute == Publish \/ WaitDone \/ WaitError

\* What the host does of its own accord, and on the events it waits for.
HostStep == \/ NewState \/ DispatchCreate \/ DispatchArg \/ DispatchExecute
            \/ EndScenario \/ DispatchDestroy \/ EndTest \/ Dispose

Host == HostStep \/ WaitTimeout

Agent == PacketCompletes \/ PacketFails

Terminated == pc = "disposed" /\ UNCHANGED vars

Next == Host \/ Agent \/ QueueError \/ Terminated

Spec == Init /\ [][Next]_vars

(* The host thread is scheduled and its CPU clock advances, so a wait that  *)
(* nothing else ends is ended by the timeout.  Nothing is asked of kernels. *)
HostRuns == WF_vars(Host)

(* Kernels terminate and callbacks are delivered, and the timeout is not    *)
(* what the host relies on.                                                 *)
AgentKeepsUp == WF_vars(HostStep) /\ WF_vars(Agent) /\ WF_vars(QueueError)
-----------------------------------------------------------------------------
(* What the runtime promises to the tests.                                  *)

\* No packet of the current queue was given up on: neither left reserved by
\* a failed DispatchCreate, nor left running by an execution that timed out.
Intact == queue # 0 /\ lost = {}

\* The host holds a reserved packet: DispatchCreate has taken the write index
\* and DispatchExecute has not returned.
Holding == pc \in {"fill", "args", "ready", "wait"}

(* Every variable has its type, indices are ordered, and the objects of a   *)
(* test are complete.                                                       *)
TypeOK ==
    /\ pc \in PCs /\ tests \in 0..MaxTests /\ serial \in Nat
    /\ gen \in Nat \ {0} /\ queue \in {0, gen} /\ queueError \in BOOLEAN
    /\ state \in {"active", "failing", "reported"}
    /\ writeIndex \in Nat /\ readIndex \in Nat /\ readIndex <= writeIndex
    /\ doorbell \in Int /\ doorbell < writeIndex
    /\ ring \in [0..(Size - 1) -> Slot]
    /\ lost \subseteq 0..(writeIndex - 1)
    /\ sigAlloc \subseteq Signals /\ sigVal \in [Signals -> Int]
    /\ argAlloc \subseteq KernArgs /\ argData \in [KernArgs -> Nat]
    /\ live \in Seq(Dispatch)

(* The packet pointer that DispatchCreate stores in the HsailDispatch never *)
(* dangles: whenever DispatchArg or DispatchExecute use it, the queue it    *)
(* points into is still the runtime's queue, and the slot is still the      *)
(* dispatch's own.  This is why QueueError must not restart the queue.      *)
PacketPointerValid ==
    pc \in {"args", "ready", "wait"} =>
        /\ queue # 0 /\ cur.queue = queue
        /\ cur.id = writeIndex - 1
        /\ ring[SlotOf(cur.id)].owner = cur.serial

(* A packet becomes visible to the processor only when it is complete: the  *)
(* header of a packet that is being filled is invalid, although             *)
(* DispatchCreate leaves the header word as it finds it.                    *)
NotLaunchedEarly ==
    Intact /\ pc \in {"fill", "args", "ready"} =>
        ring[SlotOf(writeIndex - 1)].hdr = "invalid"

(* DispatchCreate never compares the write index with the read index.  It   *)
(* need not as long as nothing is given up: of the packets the processor    *)
(* has not finished, all were lost except the one in the host's hands.      *)
BacklogIsLost ==
    queue # 0 /\ state # "reported" =>
        \A id \in readIndex..(writeIndex - 1) :
            id \in lost \/ (Holding /\ id = writeIndex - 1)

(* DispatchExecute succeeds only for a kernel that has completed: a         *)
(* completion signal at 0 means that this very packet was processed.        *)
CompletionIsOwn ==
    Intact /\ pc = "wait" /\ sigVal[cur.sig] = 0 => cur.id < readIndex

(* A queue error seen by DispatchExecute (and so the verdict of a debugtrap *)
(* test, or the failure of any other) is due to the test's own kernel.      *)
ErrorIsOwn ==
    Intact /\ pc = "wait" /\ queueError =>
        cur.id = readIndex /\ state = "reported"

(* An error that was reported is not forgotten before the queue is          *)
(* replaced, in particular not by the next test.                            *)
ReportedIsFlagged ==
    Intact /\ state = "reported" => queueError

(* The error callback uses the context of the last test given to NewState;  *)
(* it comes only while that test waits for the kernel, so the context is    *)
(* still there.                                                             *)
CallbackInTest ==
    Intact /\ state = "failing" => pc = "wait"

(* The arguments a packet refers to are those of its own dispatch from the  *)
(* time it is published until it has completed.                             *)
KernargOfOwner ==
    Intact /\ pc = "wait" /\ cur.id >= readIndex /\ cur.arg # NoArg =>
        cur.arg \in argAlloc /\ argData[cur.arg] = cur.serial

(* The dispatches of a test own what they free: each has its signal and its *)
(* kernarg block to itself, and no signal outlives its dispatch, whatever   *)
(* step of DispatchCreate failed.                                           *)
Ownership ==
    /\ sigAlloc = {live[i].sig : i \in DOMAIN live}
    /\ \A i \in DOMAIN live : live[i].arg # NoArg => live[i].arg \in argAlloc
    /\ \A i, j \in DOMAIN live : i # j =>
          live[i].sig # live[j].sig /\ (live[i].arg = live[j].arg => live[i].arg = NoArg)

(* The doorbell of a SINGLE queue is only moved forward (hsa.h requires it  *)
(* of the application), although packet ids restart with every new queue.   *)
DoorbellMonotonic == [][queue' = queue => doorbell' >= doorbell]_vars

(* Every run comes to its end, whatever kernels and allocations do; and on  *)
(* a queue of which nothing was given up, waiting for a kernel ends without *)
(* the timeout: the kernel completes, or its error is seen.                 *)
RunEnds ==
    /\ HostRuns => <>(pc = "disposed")
    /\ AgentKeepsUp => [](pc = "wait" /\ Intact => <>(pc # "wait"))
-----------------------------------------------------------------------------
(* What a comment of the repository says without the condition Intact.      *)

(* HsailRuntime.cpp: an error that was noted leads to the restart of the    *)
(* queue in DispatchCreate, so it is not forgotten until then.              *)
NotedErrorRestarts ==
    queue # 0 /\ state = "reported" /\ pc # "clear" => queueError
-----------------------------------------------------------------------------
(* The inductive invariant behind the properties of safety: Inv implies     *)
(* each of them (HsailQueue_proofs).                                        *)

Waiting == {"args", "ready", "wait"}      \* the HsailDispatch exists

\* What the host holds, whatever was given up before.
HeldDispatch ==
    /\ pc \in {"reserve"} \cup Waiting \cup {"fill"} => queue # 0
    /\ Holding => writeIndex >= 1 /\ ring[SlotOf(writeIndex - 1)].owner = serial
    /\ pc \in Waiting =>
         /\ live # <<>>
         /\ cur.queue = queue /\ cur.id = writeIndex - 1 /\ cur.serial = serial
         /\ ring[SlotOf(cur.id)].sig = cur.sig
    /\ pc = "args" => cur.arg # NoArg
    /\ pc \in {"ready", "wait"} /\ cur.arg # NoArg => argData[cur.arg] = serial

\* While nothing is given up, the processor and the host are at the same
\* packet, or the processor has caught up.
InStep ==
    Intact =>
        /\ pc \in {"clear", "reserve"} => state = "active"
        /\ pc \in {"fill", "args", "ready"} =>
              state = "active" /\ readIndex = writeIndex - 1
        /\ state # "active" => readIndex = writeIndex - 1
        /\ state = "failing" => pc = "wait"
        /\ state = "reported" => queueError
        /\ pc \in {"reserve"} \cup Waiting \cup {"fill"} =>
              (queueError => state = "reported")

\* While nothing is given up, only the packet the processor is at is valid,
\* and the completion signal of the current dispatch tells its progress.
RingClean ==
    Intact =>
        /\ \A i \in 0..(Size - 1) : ring[i].hdr = "dispatch" =>
              /\ readIndex < writeIndex /\ i = SlotOf(readIndex)
              /\ pc = "wait" \/ state = "reported"
        /\ pc \in Waiting =>
              sigVal[cur.sig] = IF readIndex < writeIndex THEN 1 ELSE 0

Inv == /\ TypeOK /\ HeldDispatch /\ BacklogIsLost /\ InStep /\ RingClean
       /\ Ownership
=============================================================================
