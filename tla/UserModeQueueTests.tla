------------------------- MODULE UserModeQueueTests -------------------------
(***************************************************************************)
(* Tests of the indices of a user mode queue (UserModeQueueTests.cpp) and  *)
(* the queue of a test (EUserModeQueue).  The queue is created before the  *)
(* dispatch and passed to the kernel, whose work-items all use it.  It is  *)
(* an object in memory, hsa_queue_t, whose first eight bytes are `type'    *)
(* and `features'; its indices are kept by the runtime.                    *)
(***************************************************************************)
EXTENDS Integers, Sequences, SequencesExt

\* hsa_queue_create (external), as far as the tests see the queue.
Fields == {"type, features", "base_address", "doorbell_signal", "size, id"}
QueueCreated == [object |-> [f \in Fields |-> 0], read |-> 0, write |-> 0]
-----------------------------------------------------------------------------
(* CoreConfig::QueuesConfig.  The only type of queue is a separate one.     *)
queueSegments == {"global", "flat"}
ldOpcodes == {"ldqueuereadindex", "ldqueuewriteindex"}
addCasOpcodes == {"addqueuewriteindex", "casqueuewriteindex"}
stOpcodes == {"stqueuereadindex", "stqueuewriteindex"}
ldMemoryOrders == {"relaxed", "acquire"}
addCasMemoryOrders == {"relaxed", "acquire", "release", "acquire_release"}
stMemoryOrders == {"relaxed", "release"}
QueueTests ==
    [opcode : ldOpcodes, segment : queueSegments, memoryOrder : ldMemoryOrders]
    \cup [opcode : addCasOpcodes, segment : queueSegments, memoryOrder : addCasMemoryOrders]
    \cup [opcode : stOpcodes, segment : queueSegments, memoryOrder : stMemoryOrders]
-----------------------------------------------------------------------------
(* EUserModeQueue::Emit...: what an operation makes of the queue and of the *)
(* register `reg'.  A queue has one address, in both segments.              *)
Effect(queue, reg) == [queue |-> queue, reg |-> reg]
LdQueueReadIndex(queue) == Effect(queue, queue.read)
LdQueueWriteIndex(queue) == Effect(queue, queue.write)
StQueueReadIndex(queue, src) == Effect([queue EXCEPT !.read = src], src)
StQueueWriteIndex(queue, src) == Effect([queue EXCEPT !.write = src], src)
AddQueueWriteIndex(queue, src) == Effect([queue EXCEPT !.write = @ + src], queue.write)
CasQueueWriteIndex(queue, src0, src1) ==
    Effect([queue EXCEPT !.write = IF @ = src0 THEN src1 ELSE @], queue.write)
StoreToAddress(queue, src) == Effect([queue EXCEPT !.object["type, features"] = src], src)
-----------------------------------------------------------------------------
(* The tests' Result.                                                       *)
ComparedIndices(condition) == IF condition THEN 1 ELSE 0
LdBasicIndex(opcode, queue) ==
    LET e == IF opcode = "ldqueuereadindex" THEN LdQueueReadIndex(queue) ELSE LdQueueWriteIndex(queue)
    IN  Effect(e.queue, ComparedIndices(e.reg = 0))
AddCasBasicIndex(opcode, queue) ==
    LET e == IF opcode = "addqueuewriteindex" THEN AddQueueWriteIndex(queue, 1) ELSE CasQueueWriteIndex(queue, 0, 1)
    IN  Effect(e.queue, ComparedIndices(e.reg >= 0))
\* The index is also stored to where the queue's address points.
StBasicIndex(opcode, queue) ==
    LET e == IF opcode = "stqueuereadindex" THEN StQueueReadIndex(queue, 1) ELSE StQueueWriteIndex(queue, 1)
        e2 == StoreToAddress(e.queue, e.reg)
    IN  Effect(e2.queue, ComparedIndices(e2.reg = 1))
QueueExpected == 1
ResultOfItem(t, queue) ==
    CASE t.opcode \in ldOpcodes -> LdBasicIndex(t.opcode, queue)
      [] t.opcode \in addCasOpcodes -> AddCasBasicIndex(t.opcode, queue)
      [] t.opcode \in stOpcodes -> StBasicIndex(t.opcode, queue)

\* The work-items of a dispatch, one after the other in the order given.
RunItems(t, queue, items) ==
    FoldLeft(LAMBDA e, i : [queue |-> ResultOfItem(t, e.queue).queue,
                            results |-> Append(e.results, ResultOfItem(t, e.queue).reg)],
             [queue |-> queue, results |-> <<>>], [i \in 1..items |-> i])
-----------------------------------------------------------------------------
(* With the queue as it is created every work-item returns what is          *)
(* expected, however many there are; a queue whose indices do not begin     *)
(* with 0 is told by the tests that load them, and by no other; indices     *)
(* advance by what the work-items did; and the object itself is as it was,  *)
(* but after the tests that store, which leave no type and features in it.  *)
QueuePassed(run) == \A i \in 1..Len(run.results) : run.results[i] = QueueExpected
IndicesExpectedOn(t, items) ==
    LET first == RunItems(t, QueueCreated, items)
        late == RunItems(t, [QueueCreated EXCEPT !.read = 1, !.write = 2], items)
    IN  /\ QueuePassed(first)
        /\ QueuePassed(late) <=> t.opcode \notin ldOpcodes
        /\ first.queue.write = CASE t.opcode = "addqueuewriteindex" -> items
                                 [] t.opcode \in {"casqueuewriteindex", "stqueuewriteindex"} -> 1
                                 [] OTHER -> 0
        /\ first.queue.read = (IF t.opcode = "stqueuereadindex" THEN 1 ELSE 0)
        /\ first.queue.object = QueueCreated.object <=> t.opcode \notin stOpcodes
=============================================================================
