-------------------------- MODULE HsailQueue_proofs --------------------------
(* Proofs that Inv is an invariant of HsailQueue, and of what follows.      *)
EXTENDS HsailQueue, TLAPS

(* The slot of a packet id (packetId % queue->size) is in the ring.          *)
LEMMA SlotRange == \A n \in Nat : SlotOf(n) \in 0..(Size - 1)
  BY SizeAssumption DEF SlotOf

(* The newest HsailDispatch of the test is one, while there is any.         *)
LEMMA CurType ==
  ASSUME live \in Seq(Dispatch), live # <<>>
  PROVE  /\ Len(live) \in DOMAIN live /\ cur \in Dispatch
         /\ cur.serial \in Nat /\ cur.queue \in Nat /\ cur.id \in Nat
         /\ cur.sig \in Signals /\ cur.arg \in KernArgs \cup {NoArg}
  <1>1. Len(live) \in DOMAIN live /\ cur \in Dispatch
    BY DEF cur
  <1> QED BY <1>1 DEF Dispatch

(* The ring of a queue just created is a ring.                              *)
LEMMA EmptyRingType ==
  /\ EmptySlot \in Slot /\ EmptyRing \in [0..(Size - 1) -> Slot]
  /\ \A i \in 0..(Size - 1) : EmptyRing[i].hdr = "invalid"
  BY DEF EmptyRing, EmptySlot, Slot

-----------------------------------------------------------------------------
(* After HsailRuntimeContext::Init the invariant holds.                     *)
LEMMA InitInv == Init => Inv
  <1> SUFFICES ASSUME Init PROVE Inv
    OBVIOUS
  <1> USE DEF Init
  <1>1. TypeOK
    <2>1. live \in Seq(Dispatch) /\ lost \subseteq 0..(writeIndex - 1)
      OBVIOUS
    <2>2. sigVal \in [Signals -> Int] /\ argData \in [KernArgs -> Nat]
      OBVIOUS
    <2>3. queueError \in BOOLEAN
      OBVIOUS
    <2>4. pc \in PCs /\ tests \in 0..MaxTests
      BY BoundAssumption DEF PCs
    <2> QED BY <2>1, <2>2, <2>3, <2>4, EmptyRingType DEF TypeOK
  <1>2. HeldDispatch /\ BacklogIsLost
    BY DEF HeldDispatch, BacklogIsLost, Holding, Waiting
  <1>3. InStep /\ RingClean
    BY EmptyRingType DEF InStep, RingClean, Waiting
  <1>4. Ownership
    BY DEF Ownership
  <1> QED BY <1>1, <1>2, <1>3, <1>4 DEF Inv
-----------------------------------------------------------------------------
(* The host moves between tests: nothing but its program counter counts.    *)
LEMMA BetweenSteps ==
  ASSUME Inv, NewState \/ EndScenario \/ EndTest
  PROVE  Inv'
  <1> USE DEF Inv
  <1>0. /\ UNCHANGED <<live, serial, queueVars, queueError, heapVars>>
        /\ pc \in {"idle", "test", "cleanup"} /\ pc' \in {"idle", "test", "cleanup"}
    BY DEF NewState, EndScenario, EndTest
  <1>1. TypeOK'
    <2>1. tests' \in 0..MaxTests
      BY BoundAssumption DEF NewState, EndScenario, EndTest, TypeOK
    <2> QED BY <1>0, <2>1 DEF TypeOK, PCs, queueVars, heapVars
  <1>2. HeldDispatch' /\ BacklogIsLost'
    BY <1>0 DEF HeldDispatch, BacklogIsLost, Holding, Waiting, queueVars
  <1>3. InStep' /\ RingClean'
    BY <1>0 DEF InStep, RingClean, Intact, Waiting, queueVars
  <1>4. Ownership'
    BY <1>0 DEF Ownership, heapVars
  <1> QED BY <1>1, <1>2, <1>3, <1>4

(* Dispose leaves no queue, of which nothing is promised.                   *)
LEMMA DisposeStep ==
  ASSUME Inv, Dispose
  PROVE  Inv'
  <1> USE DEF Inv, Dispose
  <1>1. TypeOK'
    BY DEF TypeOK, PCs, heapVars
  <1>2. HeldDispatch' /\ BacklogIsLost'
    BY DEF HeldDispatch, BacklogIsLost, Holding, Waiting
  <1>3. InStep' /\ RingClean'
    BY DEF InStep, RingClean, Intact
  <1>4. Ownership'
    BY DEF Ownership, heapVars
  <1> QED BY <1>1, <1>2, <1>3, <1>4

(* A new queue is empty and clean; without a queue nothing is promised.     *)
LEMMA QueueNoErrorCheckStep ==
  ASSUME Inv, QueueNoErrorCheck
  PROVE  Inv'
  <1> USE DEF Inv
  <1>0. /\ pc = "test" /\ pc' = "clear"
        /\ UNCHANGED <<tests, live, serial, queueError, heapVars>>
    BY DEF QueueNoErrorCheck
  <1>1. CASE FreshQueue
    <2>1. TypeOK'
      BY <1>0, <1>1, EmptyRingType DEF FreshQueue, TypeOK, PCs, heapVars
    <2>2. HeldDispatch' /\ BacklogIsLost'
      BY <1>0, <1>1 DEF FreshQueue, HeldDispatch, BacklogIsLost, Holding, Waiting
    <2>3. InStep' /\ RingClean'
      BY <1>0, <1>1, EmptyRingType DEF FreshQueue, InStep, RingClean, Waiting
    <2>4. Ownership'
      BY <1>0 DEF Ownership, heapVars
    <2> QED BY <2>1, <2>2, <2>3, <2>4
  <1>2. CASE NoQueue
    <2>1. TypeOK'
      BY <1>0, <1>2 DEF NoQueue, TypeOK, PCs, heapVars
    <2>2. HeldDispatch' /\ BacklogIsLost'
      BY <1>0, <1>2 DEF NoQueue, HeldDispatch, BacklogIsLost, Holding, Waiting
    <2>3. InStep' /\ RingClean'
      BY <1>0, <1>2 DEF NoQueue, InStep, RingClean, Intact
    <2>4. Ownership'
      BY <1>0 DEF Ownership, heapVars
    <2> QED BY <2>1, <2>2, <2>3, <2>4
  <1>3. CASE ~(queueError \/ queue = 0) /\ UNCHANGED queueVars
    <2>0. Intact => state = "active"
      BY <1>0, <1>3 DEF InStep, TypeOK
    <2>1. TypeOK'
      BY <1>0, <1>3 DEF TypeOK, PCs, queueVars, heapVars
    <2>2. HeldDispatch' /\ BacklogIsLost'
      BY <1>0, <1>3 DEF HeldDispatch, BacklogIsLost, Holding, Waiting, queueVars
    <2>3. InStep'
      BY <1>0, <1>3, <2>0 DEF InStep, Intact, Waiting, queueVars
    <2>4. RingClean'
      BY <1>0, <1>3 DEF RingClean, Intact, Waiting, queueVars
    <2>5. Ownership'
      BY <1>0 DEF Ownership, heapVars
    <2> QED BY <2>1, <2>2, <2>3, <2>4, <2>5
  <1> QED BY <1>1, <1>2, <1>3 DEF QueueNoErrorCheck

(* Clearing queueError is harmless when it follows a restart that worked.   *)
LEMMA QueueNoErrorClearStep ==
  ASSUME Inv, QueueNoErrorClear
  PROVE  Inv'
  <1> USE DEF Inv
  <1>0. /\ pc = "clear" /\ queueError' = FALSE
        /\ pc' = IF queue = 0 THEN "cleanup" ELSE "reserve"
        /\ UNCHANGED <<tests, live, serial, queueVars, heapVars>>
    BY DEF QueueNoErrorClear, ClearQueueError
  <1>1. TypeOK'
    <2>1. queueError' \in BOOLEAN
      BY <1>0
    <2> QED BY <1>0, <2>1 DEF TypeOK, PCs, queueVars, heapVars
  <1>2. HeldDispatch' /\ BacklogIsLost'
    BY <1>0 DEF HeldDispatch, BacklogIsLost, Holding, Waiting, queueVars
  <1>3. InStep' /\ RingClean'
    BY <1>0 DEF InStep, RingClean, Intact, Waiting, queueVars
  <1>4. Ownership'
    BY <1>0 DEF Ownership, heapVars
  <1> QED BY <1>1, <1>2, <1>3, <1>4

(* With nothing given up and no packet in hand, the processor has caught up,*)
(* so the slot that is reserved holds no valid header.                      *)
LEMMA CaughtUp ==
  ASSUME Inv, Intact, state = "active", ~Holding
  PROVE  /\ readIndex = writeIndex
         /\ \A i \in 0..(Size - 1) : ring[i].hdr # "dispatch"
  <1>0. readIndex \in Nat /\ writeIndex \in Nat /\ readIndex <= writeIndex
    BY DEF Inv, TypeOK
  <1>1. \A id \in readIndex..(writeIndex - 1) : FALSE
    BY DEF Inv, BacklogIsLost, Intact
  <1>2. readIndex = writeIndex
    BY <1>0, <1>1
  <1>3. \A i \in 0..(Size - 1) : ring[i].hdr = "dispatch" => readIndex < writeIndex
    BY DEF Inv, RingClean
  <1> QED BY <1>0, <1>2, <1>3

(* DispatchCreate takes a packet that the processor cannot see yet.         *)
LEMMA ReservePacketStep ==
  ASSUME Inv, ReservePacket
  PROVE  Inv'
  <1> USE DEF Inv
  <1> DEFINE w == SlotOf(writeIndex)
             new == [hdr |-> ring[w].hdr, owner |-> serial + 1,
                     sig |-> NoSignal, arg |-> NoArg]
  <1>0. /\ pc = "reserve" /\ pc' = "fill" /\ queue # 0
        /\ writeIndex' = writeIndex + 1 /\ serial' = serial + 1
        /\ ring' = [ring EXCEPT ![w] = new]
        /\ UNCHANGED <<tests, live, queue, gen, state, readIndex, doorbell,
                       lost, queueError, heapVars>>
    BY DEF ReservePacket, Reserve, HeldDispatch
  <1>1. w \in 0..(Size - 1) /\ ring[w] \in Slot
    BY SlotRange DEF TypeOK
  <1>2. new \in Slot /\ new.hdr = ring[w].hdr /\ new.owner = serial + 1
    <2>1. ring[w].hdr \in {"invalid", "dispatch"}
      BY <1>1 DEF Slot
    <2>2. serial + 1 \in Nat
      BY DEF TypeOK
    <2> QED BY <2>1, <2>2 DEF Slot
  <1>3. TypeOK'
    <2>1. ring' \in [0..(Size - 1) -> Slot]
      BY <1>0, <1>1, <1>2 DEF TypeOK
    <2>2. /\ pc' \in PCs /\ serial' \in Nat /\ writeIndex' \in Nat
          /\ readIndex' <= writeIndex' /\ doorbell' < writeIndex'
          /\ lost' \subseteq 0..(writeIndex' - 1)
      BY <1>0 DEF PCs, TypeOK
    <2> QED BY <1>0, <2>1, <2>2 DEF TypeOK, heapVars
  <1>4. HeldDispatch'
    <2>1. writeIndex' - 1 = writeIndex /\ ring'[w].owner = serial'
      BY <1>0, <1>1, <1>2 DEF TypeOK
    <2>2. SlotOf(writeIndex' - 1) = w
      BY <2>1
    <2> QED BY <1>0, <2>1, <2>2 DEF HeldDispatch, Holding, Waiting, TypeOK, SlotOf
  <1>5. BacklogIsLost'
    BY <1>0 DEF BacklogIsLost, Holding, TypeOK
  <1>6. InStep' /\ RingClean'
    <2> SUFFICES ASSUME Intact PROVE InStep' /\ RingClean'
      BY <1>0 DEF InStep, RingClean, Intact
    <2>1. state = "active" /\ (queueError => state = "reported")
      BY <1>0 DEF InStep
    <2>2. readIndex = writeIndex /\ \A i \in 0..(Size - 1) : ring[i].hdr # "dispatch"
      BY <1>0, <2>1, CaughtUp DEF Holding
    <2>3. InStep'
      BY <1>0, <2>1, <2>2 DEF InStep, TypeOK
    <2>4. \A i \in 0..(Size - 1) : ring'[i].hdr # "dispatch"
      BY <1>0, <1>1, <1>2, <2>2 DEF TypeOK
    <2> QED BY <1>0, <2>3, <2>4 DEF RingClean, Waiting
  <1>7. Ownership'
    BY <1>0 DEF Ownership, heapVars
  <1> QED BY <1>3, <1>4, <1>5, <1>6, <1>7

(* DispatchCreate completes: the dispatch owns a fresh signal and kernarg.  *)
LEMMA FillPacketStep ==
  ASSUME Inv, FillPacket
  PROVE  Inv'
  <1> USE DEF Inv
  <1> DEFINE w == SlotOf(writeIndex - 1)
  <1>0. PICK s \in Signals \ sigAlloc, a \in (KernArgs \ argAlloc) \cup {NoArg} :
         /\ sigAlloc' = sigAlloc \cup {s}
         /\ sigVal' = [sigVal EXCEPT ![s] = 1]
         /\ argAlloc' = argAlloc \cup ({a} \ {NoArg})
         /\ ring' = [ring EXCEPT ![w].sig = s, ![w].arg = a]
         /\ live' = Append(live, [serial |-> serial, queue |-> queue,
                                  id |-> writeIndex - 1, sig |-> s, arg |-> a])
         /\ pc' = IF a = NoArg THEN "ready" ELSE "args"
    BY DEF FillPacket, Fill
  <1> DEFINE d == [serial |-> serial, queue |-> queue,
                   id |-> writeIndex - 1, sig |-> s, arg |-> a]
  <1>1. /\ pc = "fill" /\ queue # 0 /\ writeIndex >= 1
        /\ UNCHANGED <<tests, serial, queue, gen, state, writeIndex, readIndex,
                       doorbell, lost, queueError, argData>>
    BY DEF FillPacket, Fill, HeldDispatch, Holding
  <1>2. w \in 0..(Size - 1) /\ ring[w] \in Slot /\ ring[w].owner = serial
    <2>1. writeIndex - 1 \in Nat /\ ring \in [0..(Size - 1) -> Slot]
      BY <1>1 DEF TypeOK
    <2>2. w \in 0..(Size - 1)
      BY <2>1, SlotRange
    <2>3. ring[w].owner = serial
      BY <1>1 DEF HeldDispatch, Holding
    <2> QED BY <2>1, <2>2, <2>3
  <1>3. /\ ring' \in [0..(Size - 1) -> Slot]
        /\ \A i \in 0..(Size - 1) : ring'[i].hdr = ring[i].hdr
        /\ ring'[w].owner = serial /\ ring'[w].sig = s
    BY <1>0, <1>2 DEF TypeOK, Slot
  <1>4. d \in Dispatch
    BY <1>1 DEF TypeOK, Dispatch
  <1>5. live' \in Seq(Dispatch) /\ live' # <<>> /\ cur' = d
        /\ Len(live') = Len(live) + 1 /\ live'[Len(live')] = d
        /\ \A i \in DOMAIN live : live'[i] = live[i]
    BY <1>0, <1>4 DEF TypeOK, cur
  <1>6. TypeOK'
    <2>1. sigVal' \in [Signals -> Int] /\ sigAlloc' \subseteq Signals
          /\ argAlloc' \subseteq KernArgs
      BY <1>0 DEF TypeOK
    <2>2. pc' \in PCs
      BY <1>0 DEF PCs
    <2> QED BY <1>1, <1>3, <1>5, <2>1, <2>2 DEF TypeOK
  <1>7. HeldDispatch'
    BY <1>0, <1>1, <1>3, <1>5 DEF HeldDispatch, Holding, Waiting, TypeOK, SlotOf
  <1>8. BacklogIsLost'
    BY <1>0, <1>1 DEF BacklogIsLost, Holding
  <1>9. InStep' /\ RingClean'
    <2> SUFFICES ASSUME Intact PROVE InStep' /\ RingClean'
      BY <1>1 DEF InStep, RingClean, Intact
    <2>1. InStep'
      BY <1>0, <1>1 DEF InStep, Intact, Waiting
    <2>2. \A i \in 0..(Size - 1) : ring'[i].hdr # "dispatch"
      BY <1>1, <1>3 DEF InStep, RingClean, Intact
    <2>3. sigVal'[cur'.sig] = 1 /\ readIndex' < writeIndex'
      BY <1>0, <1>1, <1>5 DEF InStep, TypeOK
    <2> QED BY <2>1, <2>2, <2>3 DEF RingClean
  <1>10. Ownership'
    <2>0. DOMAIN live' = DOMAIN live \cup {Len(live) + 1}
          /\ Len(live) + 1 \notin DOMAIN live
      BY <1>0, <1>4 DEF TypeOK
    <2>1. \A i \in DOMAIN live : live'[i] = live[i] /\ live[i].sig \in sigAlloc
            /\ live[i].sig # s /\ (live[i].arg # NoArg => live[i].arg # a)
      BY <1>5 DEF Ownership
    <2>2. live'[Len(live) + 1].sig = s /\ live'[Len(live) + 1].arg = a
      BY <1>5
    <2>3. sigAlloc' = {live'[i].sig : i \in DOMAIN live'}
      BY <1>0, <2>0, <2>1, <2>2 DEF Ownership
    <2>4. \A i \in DOMAIN live' : live'[i].arg # NoArg => live'[i].arg \in argAlloc'
      BY <1>0, <2>0, <2>1, <2>2 DEF Ownership
    <2>5. \A i, j \in DOMAIN live' : i # j =>
            live'[i].sig # live'[j].sig
              /\ (live'[i].arg = live'[j].arg => live'[i].arg = NoArg)
      BY <2>0, <2>1, <2>2 DEF Ownership
    <2> QED BY <2>3, <2>4, <2>5 DEF Ownership
  <1> QED BY <1>6, <1>7, <1>8, <1>9, <1>10

(* A failed DispatchCreate gives its packet up.                             *)
LEMMA FillPacketFailsStep ==
  ASSUME Inv, FillPacketFails
  PROVE  Inv'
  <1> USE DEF Inv
  <1> DEFINE w == SlotOf(writeIndex - 1)
  <1>0. PICK a \in (KernArgs \ argAlloc) \cup {NoArg} :
          /\ argAlloc' = argAlloc \cup ({a} \ {NoArg})
          /\ ring' = [ring EXCEPT ![w].arg = a]
    BY DEF FillPacketFails
  <1>1. /\ pc = "fill" /\ pc' = "cleanup" /\ writeIndex >= 1
        /\ lost' = lost \cup {writeIndex - 1}
        /\ UNCHANGED <<tests, live, serial, queue, gen, state, writeIndex,
                       readIndex, doorbell, queueError, sigAlloc, sigVal, argData>>
    BY DEF FillPacketFails, HeldDispatch, Holding
  <1>2. w \in 0..(Size - 1) /\ ring[w] \in Slot
    <2>1. writeIndex - 1 \in Nat /\ ring \in [0..(Size - 1) -> Slot]
      BY <1>1 DEF TypeOK
    <2>2. w \in 0..(Size - 1)
      BY <2>1, SlotRange
    <2> QED BY <2>1, <2>2
  <1>3. TypeOK'
    <2>1. ring' \in [0..(Size - 1) -> Slot]
      BY <1>0, <1>2 DEF TypeOK, Slot
    <2>2. lost' \subseteq 0..(writeIndex' - 1) /\ argAlloc' \subseteq KernArgs
      BY <1>0, <1>1 DEF TypeOK
    <2> QED BY <1>1, <2>1, <2>2 DEF TypeOK, PCs
  <1>4. HeldDispatch' /\ BacklogIsLost'
    BY <1>1 DEF HeldDispatch, BacklogIsLost, Holding, Waiting
  <1>5. ~Intact'
    BY <1>1 DEF Intact
  <1>6. Ownership'
    BY <1>0, <1>1 DEF Ownership
  <1> QED BY <1>3, <1>4, <1>5, <1>6 DEF InStep, RingClean

(* DispatchArg writes only to the kernarg block of the current dispatch.    *)
LEMMA DispatchArgStep ==
  ASSUME Inv, DispatchArg
  PROVE  Inv'
  <1> USE DEF Inv
  <1>1. /\ pc = "args" /\ pc' = "ready"
        /\ argData' = [argData EXCEPT ![cur.arg] = cur.serial]
        /\ UNCHANGED <<tests, live, serial, queueVars, queueError, sigAlloc,
                       sigVal, argAlloc>>
        /\ cur' = cur
    BY DEF DispatchArg, WriteArguments, cur
  <1>2. /\ live # <<>> /\ cur.arg \in KernArgs /\ cur.serial = serial
    BY <1>1, CurType DEF HeldDispatch, Waiting, TypeOK
  <1>3. argData' \in [KernArgs -> Nat] /\ argData'[cur.arg] = serial
    BY <1>1, <1>2 DEF TypeOK
  <1>4. TypeOK'
    BY <1>1, <1>3 DEF TypeOK, PCs, queueVars
  <1>5. HeldDispatch' /\ BacklogIsLost'
    BY <1>1, <1>3 DEF HeldDispatch, BacklogIsLost, Holding, Waiting, queueVars
  <1>6. InStep' /\ RingClean'
    BY <1>1 DEF InStep, RingClean, Intact, Waiting, queueVars
  <1>7. Ownership'
    BY <1>1 DEF Ownership
  <1> QED BY <1>4, <1>5, <1>6, <1>7

(* DispatchExecute makes valid the packet the processor waits for.          *)
LEMMA PublishStep ==
  ASSUME Inv, Publish
  PROVE  Inv'
  <1> USE DEF Inv
  <1> DEFINE w == SlotOf(writeIndex - 1)
  <1>1. /\ pc = "ready" /\ pc' = "wait" /\ queue # 0 /\ writeIndex >= 1
        /\ doorbell' = writeIndex - 1
        /\ ring' = [ring EXCEPT ![w].hdr = "dispatch"]
        /\ UNCHANGED <<tests, live, serial, queue, gen, state, writeIndex,
                       readIndex, lost, queueError, heapVars>>
        /\ cur' = cur
    BY DEF Publish, PublishPacket, HeldDispatch, Waiting, Holding, cur
  <1>2. w \in 0..(Size - 1) /\ ring[w] \in Slot
    <2>1. writeIndex - 1 \in Nat /\ ring \in [0..(Size - 1) -> Slot]
      BY <1>1 DEF TypeOK
    <2>2. w \in 0..(Size - 1)
      BY <2>1, SlotRange
    <2> QED BY <2>1, <2>2
  <1>3. /\ ring' \in [0..(Size - 1) -> Slot]
        /\ ring'[w].owner = ring[w].owner /\ ring'[w].sig = ring[w].sig
        /\ \A i \in 0..(Size - 1) : i # w => ring'[i] = ring[i]
    BY <1>1, <1>2 DEF TypeOK, Slot
  <1>4. TypeOK'
    BY <1>1, <1>3 DEF TypeOK, PCs, heapVars
  <1>5. HeldDispatch'
    BY <1>1, <1>3 DEF HeldDispatch, Holding, Waiting, SlotOf, heapVars
  <1>6. BacklogIsLost'
    BY <1>1 DEF BacklogIsLost, Holding
  <1>7. InStep'
    BY <1>1 DEF InStep, Intact, Waiting
  <1>8. RingClean'
    <2> SUFFICES ASSUME Intact PROVE RingClean'
      BY <1>1 DEF RingClean, Intact
    <2>1. state = "active" /\ readIndex = writeIndex - 1 /\ readIndex < writeIndex
      BY <1>1 DEF InStep, TypeOK
    <2>2. \A i \in 0..(Size - 1) : ring'[i].hdr = "dispatch" => i = w
      BY <1>1, <1>3, <2>1 DEF RingClean
    <2>3. sigVal[cur.sig] = 1
      BY <1>1, <2>1 DEF RingClean, Waiting
    <2> QED BY <1>1, <2>1, <2>2, <2>3 DEF RingClean, heapVars, SlotOf
  <1>9. Ownership'
    BY <1>1 DEF Ownership, heapVars
  <1> QED BY <1>4, <1>5, <1>6, <1>7, <1>8, <1>9

(* However the wait ends, the packet is done, or noted as failed, or lost.  *)
LEMMA WaitSteps ==
  ASSUME Inv, WaitDone \/ WaitError \/ WaitTimeout
  PROVE  Inv'
  <1> USE DEF Inv
  <1>0. /\ pc = "wait" /\ pc' \in {"test", "cleanup"}
        /\ UNCHANGED <<tests, live, serial, queue, gen, state, writeIndex,
                       readIndex, doorbell, ring, queueError, heapVars>>
        /\ lost' = IF cur.queue = queue /\ cur.id >= readIndex /\ state # "reported"
                     THEN lost \cup {cur.id} ELSE lost
    BY DEF WaitDone, WaitError, WaitTimeout, StopWaiting
  <1>1. /\ cur.queue = queue /\ cur.id = writeIndex - 1 /\ queue # 0
        /\ writeIndex \in Nat /\ readIndex \in Nat /\ writeIndex >= 1
    BY <1>0 DEF HeldDispatch, Holding, Waiting, TypeOK
  <1>2. TypeOK'
    <2>1. lost' \subseteq 0..(writeIndex - 1)
      BY <1>0, <1>1 DEF TypeOK
    <2> QED BY <1>0, <2>1 DEF TypeOK, PCs, heapVars
  <1>3. HeldDispatch'
    BY <1>0 DEF HeldDispatch, Holding, Waiting
  <1>4. BacklogIsLost'
    BY <1>0, <1>1 DEF BacklogIsLost, Holding
  <1>5. InStep' /\ RingClean'
    <2> SUFFICES ASSUME Intact, Intact' PROVE InStep' /\ RingClean'
      BY <1>0 DEF InStep, RingClean, Intact
    <2>1. writeIndex - 1 < readIndex \/ state = "reported"
      BY <1>0, <1>1 DEF Intact
    <2>2. state \in {"active", "reported"}
      BY <1>1, <2>1 DEF InStep, TypeOK
    <2>3. InStep'
      BY <1>0, <2>2 DEF InStep, Waiting
    <2>4. RingClean'
      BY <1>0, <1>1, <2>1 DEF RingClean, Waiting
    <2> QED BY <2>3, <2>4
  <1>6. Ownership'
    BY <1>0 DEF Ownership, heapVars
  <1> QED BY <1>2, <1>3, <1>4, <1>5, <1>6

(* The destructor of the newest dispatch frees what no other one owns.      *)
LEMMA DispatchDestroyStep ==
  ASSUME Inv, DispatchDestroy
  PROVE  Inv'
  <1> USE DEF Inv
  <1> DEFINE n == Len(live)
  <1>1. /\ pc = "cleanup" /\ pc' = "cleanup" /\ live # <<>>
        /\ argAlloc' = argAlloc \ {cur.arg} /\ sigAlloc' = sigAlloc \ {cur.sig}
        /\ live' = SubSeq(live, 1, n - 1)
        /\ UNCHANGED <<tests, serial, queueVars, queueError, sigVal, argData>>
    BY DEF DispatchDestroy
  <1>2. live' \in Seq(Dispatch)
    BY <1>1 DEF TypeOK
  <1>3. /\ DOMAIN live' = DOMAIN live \ {n} /\ n \in DOMAIN live
        /\ \A i \in DOMAIN live' : live'[i] = live[i]
    BY <1>1 DEF TypeOK
  <1>4. TypeOK'
    BY <1>1, <1>2 DEF TypeOK, PCs, queueVars
  <1>5. HeldDispatch' /\ BacklogIsLost'
    BY <1>1 DEF HeldDispatch, BacklogIsLost, Holding, Waiting, queueVars
  <1>6. InStep' /\ RingClean'
    BY <1>1 DEF InStep, RingClean, Intact, Waiting, queueVars
  <1>7. Ownership'
    <2>1. \A i \in DOMAIN live' :
            live[i].sig # cur.sig /\ (live[i].arg # NoArg => live[i].arg # cur.arg)
      BY <1>3 DEF Ownership, cur
    <2>2. sigAlloc' = {live'[i].sig : i \in DOMAIN live'}
      BY <1>1, <1>3, <2>1 DEF Ownership, cur
    <2>3. \A i \in DOMAIN live' :
            live'[i].arg # NoArg => live'[i].arg \in argAlloc'
      BY <1>1, <1>3, <2>1 DEF Ownership
    <2>4. \A i, j \in DOMAIN live' : i # j =>
            live'[i].sig # live'[j].sig
              /\ (live'[i].arg = live'[j].arg => live'[i].arg = NoArg)
      BY <1>3 DEF Ownership
    <2> QED BY <2>2, <2>3, <2>4 DEF Ownership
  <1> QED BY <1>4, <1>5, <1>6, <1>7

-----------------------------------------------------------------------------
(* The packet processor reaches, while nothing is given up, only the packet *)
(* the host waits for.                                                      *)
LEMMA ProcessesCurrent ==
  ASSUME Inv, CanProcess, Intact
  PROVE  /\ pc = "wait" /\ readIndex = writeIndex - 1
         /\ HeadPacket.sig = cur.sig
  <1> USE DEF Inv
  <1>1. SlotOf(readIndex) \in 0..(Size - 1) /\ state = "active"
    BY SlotRange DEF CanProcess, TypeOK
  <1>2. pc = "wait"
    BY <1>1 DEF CanProcess, RingClean, HeadPacket
  <1>3. readIndex = writeIndex - 1
    <2>1. readIndex \in readIndex..(writeIndex - 1)
      BY DEF CanProcess, TypeOK
    <2> QED BY <1>1, <2>1 DEF BacklogIsLost, Intact
  <1> QED BY <1>2, <1>3 DEF HeldDispatch, Waiting, HeadPacket

(* The packet that completes is that of the current dispatch.               *)
LEMMA PacketCompletesStep ==
  ASSUME Inv, PacketCompletes
  PROVE  Inv'
  <1> USE DEF Inv
  <1> DEFINE w == SlotOf(readIndex)
  <1>1. /\ CanProcess /\ HeadPacket.sig \in Signals /\ state = "active"
        /\ sigVal' = [sigVal EXCEPT ![HeadPacket.sig] = @ - 1]
        /\ ring' = [ring EXCEPT ![w].hdr = "invalid"]
        /\ readIndex' = readIndex + 1 /\ readIndex < writeIndex
        /\ UNCHANGED <<hostVars, queue, gen, state, writeIndex, doorbell, lost,
                       queueError, sigAlloc, argAlloc, argData>>
        /\ cur' = cur
    BY DEF PacketCompletes, CanProcess, cur, hostVars
  <1>2. w \in 0..(Size - 1) /\ ring[w] \in Slot
    <2>1. readIndex \in Nat /\ ring \in [0..(Size - 1) -> Slot]
      BY DEF TypeOK
    <2>2. w \in 0..(Size - 1)
      BY <2>1, SlotRange
    <2> QED BY <2>1, <2>2
  <1>3. /\ ring' \in [0..(Size - 1) -> Slot]
        /\ \A i \in 0..(Size - 1) : ring'[i].owner = ring[i].owner
                                      /\ ring'[i].sig = ring[i].sig
        /\ ring'[w].hdr = "invalid"
        /\ \A i \in 0..(Size - 1) : i # w => ring'[i] = ring[i]
    BY <1>1, <1>2 DEF TypeOK, Slot
  <1>4. TypeOK'
    <2>1. sigVal' \in [Signals -> Int]
      BY <1>1 DEF TypeOK
    <2>2. readIndex' \in Nat /\ readIndex' <= writeIndex
      BY <1>1 DEF TypeOK
    <2> QED BY <1>1, <1>3, <2>1, <2>2 DEF TypeOK, hostVars
  <1>5. HeldDispatch'
    <2>1. \A n \in Nat : ring'[SlotOf(n)].owner = ring[SlotOf(n)].owner
                           /\ ring'[SlotOf(n)].sig = ring[SlotOf(n)].sig
      BY <1>3, SlotRange
    <2>2. writeIndex >= 1 => writeIndex - 1 \in Nat
      BY DEF TypeOK
    <2> QED BY <1>1, <2>1, <2>2 DEF HeldDispatch, Holding, Waiting, hostVars, SlotOf
  <1>6. BacklogIsLost'
    BY <1>1 DEF BacklogIsLost, Holding, hostVars, TypeOK
  <1>7. InStep' /\ RingClean'
    <2> SUFFICES ASSUME Intact PROVE InStep' /\ RingClean'
      BY <1>1 DEF InStep, RingClean, Intact
    <2>1. pc = "wait" /\ readIndex = writeIndex - 1 /\ HeadPacket.sig = cur.sig
      BY <1>1, ProcessesCurrent
    <2>2. InStep'
      BY <1>1, <2>1 DEF InStep, Waiting, hostVars
    <2>3. \A i \in 0..(Size - 1) : ring'[i].hdr # "dispatch"
      BY <1>1, <1>3 DEF RingClean
    <2>4. sigVal'[cur.sig] = 0
      BY <1>1, <2>1 DEF RingClean, Waiting, TypeOK
    <2>5. ~(readIndex' < writeIndex')
      BY <1>1, <2>1 DEF TypeOK
    <2> QED BY <1>1, <2>2, <2>3, <2>4, <2>5 DEF RingClean
  <1>8. Ownership'
    BY <1>1 DEF Ownership, hostVars
  <1> QED BY <1>4, <1>5, <1>6, <1>7, <1>8

(* The queue leaves the active state, and its error is noted.               *)
LEMMA ErrorSteps ==
  ASSUME Inv, PacketFails \/ QueueError
  PROVE  Inv'
  <1> USE DEF Inv
  <1>1. /\ UNCHANGED <<hostVars, queue, gen, writeIndex, readIndex, doorbell,
                       ring, lost, heapVars>>
        /\ cur' = cur
    BY DEF PacketFails, QueueError, cur, hostVars
  <1>2. \/ CanProcess /\ state' = "failing" /\ queueError' = queueError
           /\ state = "active"
        \/ state = "failing" /\ state' = "reported" /\ queueError' = TRUE
    BY DEF PacketFails, QueueError, CanProcess
  <1>3. TypeOK'
    <2>1. queueError' \in BOOLEAN
      BY <1>2 DEF TypeOK
    <2>2. state' \in {"active", "failing", "reported"}
      BY <1>2
    <2> QED BY <1>1, <2>1, <2>2 DEF TypeOK, hostVars, heapVars
  <1>4. HeldDispatch' /\ BacklogIsLost'
    BY <1>1, <1>2 DEF HeldDispatch, BacklogIsLost, Holding, Waiting, hostVars,
                      heapVars
  <1>5. InStep' /\ RingClean'
    <2> SUFFICES ASSUME Intact PROVE InStep' /\ RingClean'
      BY <1>1 DEF InStep, RingClean, Intact
    <2>1. pc = "wait" /\ readIndex = writeIndex - 1
      BY <1>2, ProcessesCurrent DEF InStep
    <2>2. queueError => state = "reported"
      BY <2>1 DEF InStep, Waiting
    <2>3. InStep'
      BY <1>1, <1>2, <2>1, <2>2 DEF InStep, Waiting, hostVars
    <2>4. RingClean'
      BY <1>1, <2>1 DEF RingClean, Waiting, hostVars, heapVars
    <2> QED BY <2>3, <2>4
  <1>6. Ownership'
    BY <1>1 DEF Ownership, hostVars, heapVars
  <1> QED BY <1>3, <1>4, <1>5, <1>6
-----------------------------------------------------------------------------
(* The invariant speaks of the variables only.                              *)
LEMMA StutterStep ==
  ASSUME Inv, UNCHANGED vars
  PROVE  Inv'
  BY DEF Inv, TypeOK, HeldDispatch, BacklogIsLost, InStep, RingClean, Ownership,
         Intact, Holding, Waiting, cur, vars, hostVars, queueVars, heapVars, SlotOf

(* Inv is inductive: it holds initially and every step preserves it.        *)
THEOREM Invariance == Spec => []Inv
  <1>1. Inv /\ [Next]_vars => Inv'
    <2> SUFFICES ASSUME Inv, [Next]_vars PROVE Inv'
      OBVIOUS
    <2>1. CASE Host
      BY <2>1, BetweenSteps, DisposeStep, QueueNoErrorCheckStep,
         QueueNoErrorClearStep, ReservePacketStep, FillPacketStep,
         FillPacketFailsStep, DispatchArgStep, PublishStep, WaitSteps,
         DispatchDestroyStep
      DEF Host, HostStep, DispatchCreate, DispatchExecute
    <2>2. CASE Agent \/ QueueError
      BY <2>2, PacketCompletesStep, ErrorSteps DEF Agent
    <2>3. CASE Terminated \/ UNCHANGED vars
      BY <2>3, StutterStep DEF Terminated
    <2> QED BY <2>1, <2>2, <2>3 DEF Next
  <1> QED BY <1>1, InitInv, PTL DEF Spec

-----------------------------------------------------------------------------
(* What Inv gives: the properties checked by TLC, for every queue size,     *)
(* every number of tests and dispatches and every set of handles.           *)

(* Types, order of the indices, completeness of the objects of a test.      *)
THEOREM TypeCorrect == Spec => []TypeOK
  <1>1. Inv => TypeOK
    BY DEF Inv
  <1> QED BY <1>1, Invariance, PTL

(* The packet pointer of a HsailDispatch never dangles (DispatchCreate,     *)
(* QueueError, QueueNoError).                                               *)
THEOREM PacketPointers == Spec => []PacketPointerValid
  <1>1. Inv => PacketPointerValid
    <2> SUFFICES ASSUME Inv, pc \in Waiting PROVE PacketPointerValid
      BY DEF PacketPointerValid, Waiting
    <2> QED BY DEF Inv, HeldDispatch, PacketPointerValid, Waiting, Holding
  <1> QED BY <1>1, Invariance, PTL

(* Packets the processor has not finished are lost ones, or the one in hand.*)
THEOREM Backlog == Spec => []BacklogIsLost
  <1>1. Inv => BacklogIsLost
    BY DEF Inv
  <1> QED BY <1>1, Invariance, PTL

(* A packet is never visible to the processor before it is complete.        *)
THEOREM LaunchedInTime == Spec => []NotLaunchedEarly
  <1>1. Inv => NotLaunchedEarly
    <2> SUFFICES ASSUME Inv, Intact, pc \in {"fill", "args", "ready"}
                 PROVE  ring[SlotOf(writeIndex - 1)].hdr = "invalid"
      BY DEF NotLaunchedEarly
    <2>1. state = "active" /\ writeIndex - 1 \in Nat
      BY DEF Inv, TypeOK, InStep, HeldDispatch, Holding
    <2>2. SlotOf(writeIndex - 1) \in 0..(Size - 1)
      BY <2>1, SlotRange
    <2>3. ring[SlotOf(writeIndex - 1)].hdr \in {"invalid", "dispatch"}
      BY <2>2 DEF Inv, TypeOK, Slot
    <2> QED BY <2>1, <2>2, <2>3 DEF Inv, RingClean
  <1> QED BY <1>1, Invariance, PTL

(* DispatchExecute returns true only for a kernel that has completed.       *)
THEOREM Completion == Spec => []CompletionIsOwn
  <1>1. Inv => CompletionIsOwn
    <2> SUFFICES ASSUME Inv, Intact, pc = "wait", sigVal[cur.sig] = 0
                 PROVE  cur.id < readIndex
      BY DEF CompletionIsOwn
    <2>1. ~(readIndex < writeIndex)
      BY DEF Inv, RingClean, Waiting
    <2> QED BY <2>1 DEF Inv, TypeOK, HeldDispatch, Waiting
  <1> QED BY <1>1, Invariance, PTL

(* An execution is failed only by an error of its own kernel, an error that *)
(* was noted is remembered, and the callback finds its test waiting.        *)
THEOREM Errors == Spec => [](ErrorIsOwn /\ ReportedIsFlagged /\ CallbackInTest)
  <1>1. Inv => ErrorIsOwn /\ ReportedIsFlagged /\ CallbackInTest
    <2> SUFFICES ASSUME Inv, Intact
                 PROVE  ErrorIsOwn /\ ReportedIsFlagged /\ CallbackInTest
      BY DEF ErrorIsOwn, ReportedIsFlagged, CallbackInTest
    <2>1. ErrorIsOwn
      BY DEF Inv, InStep, HeldDispatch, Waiting, ErrorIsOwn
    <2>2. ReportedIsFlagged /\ CallbackInTest
      BY DEF Inv, InStep, ReportedIsFlagged, CallbackInTest
    <2> QED BY <2>1, <2>2
  <1> QED BY <1>1, Invariance, PTL

(* The arguments of a packet stay those of its dispatch until it completes. *)
THEOREM Arguments == Spec => []KernargOfOwner
  <1>1. Inv => KernargOfOwner
    <2> SUFFICES ASSUME Inv, pc = "wait", cur.arg # NoArg
                 PROVE  cur.arg \in argAlloc /\ argData[cur.arg] = cur.serial
      BY DEF KernargOfOwner
    <2>1. live # <<>> /\ argData[cur.arg] = cur.serial
      BY DEF Inv, HeldDispatch, Waiting
    <2>2. Len(live) \in DOMAIN live
      BY <2>1, CurType DEF Inv, TypeOK
    <2> QED BY <2>1, <2>2 DEF Inv, Ownership, cur
  <1> QED BY <1>1, Invariance, PTL

(* Dispatches of a test free only what is theirs, and no signal leaks.      *)
THEOREM OwnershipHolds == Spec => []Ownership
  <1>1. Inv => Ownership
    BY DEF Inv
  <1> QED BY <1>1, Invariance, PTL

(* The doorbell of a queue only moves forward.                              *)
THEOREM DoorbellMoves == Spec => DoorbellMonotonic
  <1>1. Inv /\ [Next]_vars => [queue' = queue => doorbell' >= doorbell]_vars
    <2> SUFFICES ASSUME Inv, Next, queue' = queue
                 PROVE  doorbell' >= doorbell
      BY DEF vars
    <2>0. doorbell \in Int /\ doorbell < writeIndex /\ writeIndex \in Nat
      BY DEF Inv, TypeOK
    <2>1. CASE Publish
      BY <2>0, <2>1 DEF Publish, PublishPacket, Inv, HeldDispatch, Waiting
    <2>2. CASE QueueNoErrorCheck
      BY <2>0, <2>2 DEF QueueNoErrorCheck, FreshQueue, NoQueue, queueVars,
                        Inv, TypeOK
    <2>3. CASE Next /\ ~Publish /\ ~QueueNoErrorCheck
      <3>1. doorbell' = doorbell
        BY <2>3 DEF Next, Host, HostStep, DispatchCreate, DispatchExecute, Agent,
           NewState, EndScenario, EndTest, Dispose, QueueNoErrorClear, ClearQueueError,
           ReservePacket, Reserve, FillPacket, Fill, FillPacketFails, DispatchArg, WriteArguments, WaitDone,
           WaitError, WaitTimeout, StopWaiting, DispatchDestroy, PacketCompletes,
           PacketFails, QueueError, Terminated, vars, queueVars
      <3> QED BY <2>0, <3>1
    <2> QED BY <2>1, <2>2, <2>3
  <1> QED BY <1>1, Invariance, PTL DEF Spec, DoorbellMonotonic
=============================================================================
