------------------------ MODULE ScenarioThreads_proofs ------------------------
(* Proofs that the verdict of ScenarioThreads is the one TestVerdict asks   *)
(* for, whatever the scenario, and that no thread outlives its test.        *)
EXTENDS ScenarioThreads, TLAPS

(* What ScriptAssumption says of the scenario of a test.                    *)
LEMMA ScriptFacts ==
    ASSUME script \in Scripts
    PROVE  /\ script \in [Threads -> Seq(Command)]
           /\ \A t \in Threads : script[t] \in Seq(Command) /\ Len(script[t]) \in Nat
           /\ \A t \in Threads : DOMAIN script[t] = 1..Len(script[t])
           /\ Starts(script, 1) = {}
           /\ \A i, j \in Starts(script, 0) : i = j
           /\ script[1] # <<>> => Starts(script, 0) # {}
           /\ \A t \in Threads : Starts(script, t) \subseteq 1..Len(script[t])
  <1>1. script \in [Threads -> Seq(Command)] BY ScriptAssumption
  <1>2. \A t \in Threads : script[t] \in Seq(Command)
    BY <1>1
  <1>3. \A t \in Threads : Len(script[t]) \in Nat /\ DOMAIN script[t] = 1..Len(script[t])
    BY <1>2
  <1>4. Starts(script, 1) = {} /\ (\A i, j \in Starts(script, 0) : i = j)
          /\ (script[1] # <<>> => Starts(script, 0) # {})
    BY ScriptAssumption
  <1>5. \A t \in Threads : Starts(script, t) \subseteq 1..Len(script[t])
    BY <1>3 DEF Starts
  <1> QED BY <1>1, <1>2, <1>3, <1>4, <1>5

(* Before a test runs no thread has started.                                *)
LEMMA InitInv == Init => Inv
  <1> SUFFICES ASSUME Init PROVE Inv OBVIOUS
  <1>1. script \in Scripts BY DEF Init
  <1>2. \A t \in Threads : Len(script[t]) \in Nat /\ at[t] = "off" /\ ip[t] = 1
    BY <1>1, ScriptFacts DEF Init
  <1>3. TypeOK
    <2>1. /\ at \in [Threads -> {"off", "ready", "insert", "kernel", "wait", "ended"}]
          /\ ip \in [Threads -> Nat]
      BY DEF Init
    <2>2. \A t \in Threads : ip[t] \in 1..(Len(script[t]) + 1)
      BY <1>2
    <2> QED BY <1>1, <2>1, <2>2 DEF Init, TypeOK
  <1>4. \A i \in Starts(script, 0) : i >= 1
    BY <1>1, ScriptFacts DEF Threads
  <1>5. InStep
    BY <1>2, <1>4 DEF Init, InStep, Threads
  <1>6. Told /\ Collected
    BY <1>2 DEF Init, Told, Collected, Threads
  <1> QED BY <1>3, <1>5, <1>6 DEF Inv

(* A thread that is neither off nor ended is one that the main thread still *)
(* has to join.                                                             *)
LEMMA Unjoined ==
    ASSUME Inv, NEW t \in Threads, at[t] \notin {"off", "ended"}
    PROVE  /\ phase \in {"join", "finish"}
           /\ t = 0 => phase = "join"
  <1> USE DEF Threads
  <1>1. t = 0 => phase = "join"
    BY DEF Inv, TypeOK, InStep, Collected
  <1>2. ASSUME t = 1 PROVE phase \in {"join", "finish"}
    <2>1. \E i \in Starts(script, 0) : i < ip[0]
      BY <1>2 DEF Inv, InStep
    <2>2. Starts(script, 0) \subseteq 1..Len(script[0])
      BY ScriptFacts DEF Inv, TypeOK
    <2>3. phase # "run"
      BY <2>1, <2>2 DEF Inv, InStep
    <2> QED BY <1>2, <2>3 DEF Inv, TypeOK, Collected, Joined
  <1> QED BY <1>1, <1>2

(* A command that succeeds brings its thread to the next command.           *)
LEMMA AdvanceStep ==
    ASSUME Inv, NEW t \in Threads, at[t] \notin {"off", "ended"},
           ip[t] <= Len(script[t]), script[t][ip[t]] # "start",
           Advance(t), UNCHANGED <<script, conforms, status, mainVars>>,
           kernel' \in {"none", "running", "ended"}, raised' \in BOOLEAN,
           object' \in {"none", "created", "destroyed"}, crashed' \in BOOLEAN
    PROVE  Inv'
  <1> USE DEF Threads
  <1>1. /\ script' = script /\ conforms' = conforms /\ status' = status /\ phase' = phase
        /\ hostResult' = hostResult /\ cmdResult' = cmdResult
        /\ result' = result /\ verdict' = verdict
        /\ at' = [at EXCEPT ![t] = "ready"]
        /\ ip' = [ip EXCEPT ![t] = @ + 1]
    BY DEF mainVars, Advance
  <1>2. TypeOK BY DEF Inv
  <1>3. /\ at' \in [Threads -> {"off", "ready", "insert", "kernel", "wait", "ended"}]
        /\ ip' \in [Threads -> Nat]
        /\ at'[t] = "ready" /\ ip'[t] = ip[t] + 1
        /\ \A u \in Threads \ {t} : at'[u] = at[u] /\ ip'[u] = ip[u]
    <2>1. at \in [Threads -> {"off", "ready", "insert", "kernel", "wait", "ended"}]
            /\ ip \in [Threads -> Nat] /\ ip[t] + 1 \in Nat
      BY <1>2 DEF TypeOK
    <2> QED BY <1>1, <2>1
  <1>4. \A u \in Threads : Len(script[u]) \in Nat
    BY <1>2, ScriptFacts DEF TypeOK
  <1>5. TypeOK'
    BY <1>1, <1>2, <1>3, <1>4 DEF TypeOK
  <1>6. Starts(script', 0) = Starts(script, 0) /\ Starts(script, 0) \subseteq Nat
    BY <1>1, <1>2, ScriptFacts DEF TypeOK
  <1>7. t = 0 => ip[0] \notin Starts(script, 0)
    BY DEF Starts
  <1>8. InStep'
    BY <1>1, <1>2, <1>3, <1>6, <1>7 DEF Inv, InStep, TypeOK
  <1>9. Told'
    BY <1>1, <1>3 DEF Inv, Told
  <1>10. Collected'
    <2>1. phase \in {"join", "finish"} /\ (t = 0 => phase = "join")
      BY Unjoined
    <2> QED BY <2>1, <1>1, <1>3 DEF Inv, Collected
  <1> QED BY <1>5, <1>8, <1>9, <1>10 DEF Inv

(* A thread that starts a command that takes time stays at the command.     *)
LEMMA MoveStep ==
    ASSUME Inv, NEW t \in Threads, at[t] \notin {"off", "ended"},
           NEW w \in {"insert", "kernel", "wait"},
           ip[t] <= Len(script[t]), script[t][ip[t]] \in CommandsAt(w),
           Move(t, w), UNCHANGED <<script, conforms, status, mainVars>>,
           kernel' \in {"none", "running", "ended"}, raised' \in BOOLEAN,
           object' \in {"none", "created", "destroyed"}, crashed' \in BOOLEAN
    PROVE  Inv'
  <1> USE DEF Threads
  <1>1. /\ script' = script /\ conforms' = conforms /\ status' = status /\ phase' = phase
        /\ hostResult' = hostResult /\ cmdResult' = cmdResult
        /\ result' = result /\ verdict' = verdict
        /\ at' = [at EXCEPT ![t] = w] /\ ip' = ip
    BY DEF mainVars, Move
  <1>2. TypeOK BY DEF Inv
  <1>3. /\ at' \in [Threads -> {"off", "ready", "insert", "kernel", "wait", "ended"}]
        /\ at'[t] = w
        /\ \A u \in Threads \ {t} : at'[u] = at[u]
    BY <1>1, <1>2 DEF TypeOK
  <1>4. TypeOK'
    BY <1>1, <1>2, <1>3 DEF TypeOK
  <1>5. Starts(script', 0) = Starts(script, 0)
    BY <1>1
  <1>6. InStep'
    BY <1>1, <1>2, <1>3, <1>5 DEF Inv, InStep, TypeOK
  <1>7. Told'
    BY <1>1, <1>3 DEF Inv, Told
  <1>8. Collected'
    <2>1. phase \in {"join", "finish"} /\ (t = 0 => phase = "join")
      BY Unjoined
    <2> QED BY <2>1, <1>1, <1>3 DEF Inv, Collected
  <1> QED BY <1>4, <1>6, <1>7, <1>8 DEF Inv

(* A thread that ends tells whether it is past its last command.            *)
LEMMA ReturnStep ==
    ASSUME Inv, NEW t \in Threads, at[t] \notin {"off", "ended"},
           NEW r \in BOOLEAN, r <=> ip[t] > Len(script[t]),
           Return(t, r), UNCHANGED <<script, conforms, kernel, raised, object, crashed>>,
           status' = status \/ (status' = "NA" /\ ~r)
    PROVE  Inv'
  <1> USE DEF Threads
  <1>1. /\ script' = script /\ conforms' = conforms /\ phase' = phase /\ kernel' = kernel /\ raised' = raised
        /\ object' = object /\ crashed' = crashed
        /\ result' = result /\ verdict' = verdict
        /\ at' = [at EXCEPT ![t] = "ended"] /\ ip' = ip
        /\ hostResult' = IF t = 0 THEN r ELSE hostResult
        /\ cmdResult' = IF t = 0 THEN cmdResult ELSE r
    BY DEF Return, Store, Move
  <1>2. TypeOK BY DEF Inv
  <1>3. /\ at' \in [Threads -> {"off", "ready", "insert", "kernel", "wait", "ended"}]
        /\ at'[t] = "ended"
        /\ \A u \in Threads \ {t} : at'[u] = at[u]
    BY <1>1, <1>2 DEF TypeOK
  <1>4. TypeOK'
    BY <1>1, <1>2, <1>3 DEF TypeOK
  <1>5. Starts(script', 0) = Starts(script, 0)
    BY <1>1
  <1>6. InStep'
    BY <1>1, <1>2, <1>3, <1>5 DEF Inv, InStep, TypeOK
  <1>7. Told'
    <2>1. ip[t] \in Nat /\ Len(script[t]) \in Nat
      BY <1>2, ScriptFacts DEF TypeOK
    <2>2. ~r => ip[t] <= Len(script[t])
      BY <2>1
    <2>3. at'[0] = "ended" => (hostResult' <=> ip[0] > Len(script[0]))
      BY <1>1, <1>3 DEF Inv, Told
    <2>4. at'[1] = "ended" => (cmdResult' <=> ip[1] > Len(script[1]))
      BY <1>1, <1>3 DEF Inv, Told
    <2>5. status' # "none" => \E u \in Threads : at'[u] = "ended" /\ ip[u] <= Len(script[u])
      <3>1. CASE status' = status
        BY <3>1, <1>3 DEF Inv, Told
      <3>2. CASE status' = "NA" /\ ~r
        BY <3>2, <1>3, <2>2
      <3> QED BY <3>1, <3>2
    <2> QED BY <1>1, <2>3, <2>4, <2>5 DEF Told
  <1>8. Collected'
    <2>1. phase \in {"join", "finish"} /\ (t = 0 => phase = "join")
      BY Unjoined
    <2> QED BY <2>1, <1>1, <1>3 DEF Inv, Collected
  <1> QED BY <1>4, <1>6, <1>7, <1>8 DEF Inv

(* The command that starts thread 1: it is the only one, so the thread is   *)
(* still off.                                                               *)
LEMMA StartThreadStep ==
    ASSUME Inv, NEW t \in Threads, StartThread(t)
    PROVE  Inv'
  <1> USE DEF Threads
  <1>1. /\ script' = script /\ conforms' = conforms /\ phase' = phase /\ kernel' = kernel /\ raised' = raised
        /\ object' = object /\ crashed' = crashed /\ status' = status
        /\ result' = result /\ verdict' = verdict
        /\ hostResult' = hostResult /\ cmdResult' = cmdResult
        /\ at' = [at EXCEPT ![1] = "ready"]
        /\ ip' = [ip EXCEPT ![t] = @ + 1]
    BY DEF StartThread, threadOnly, mainVars
  <1>2. TypeOK /\ ip[t] \in Nat /\ Len(script[t]) \in Nat BY ScriptFacts DEF Inv, TypeOK
  <1>3. at[t] = "ready" /\ ip[t] <= Len(script[t]) /\ ip[t] \in Starts(script, t)
    BY <1>2, ScriptFacts DEF StartThread, At, Starts, TypeOK
  <1>4. t = 0
    BY <1>2, <1>3, ScriptFacts DEF TypeOK
  <1>5. phase = "join"
    BY <1>3, <1>4, Unjoined
  <1>6. at[1] = "off" /\ ip[1] = 1
    BY <1>2, <1>3, <1>4, ScriptFacts DEF Inv, InStep, TypeOK
  <1>7. /\ at' \in [Threads -> {"off", "ready", "insert", "kernel", "wait", "ended"}]
        /\ ip' \in [Threads -> Nat]
        /\ at'[1] = "ready" /\ at'[0] = "ready" /\ ip'[0] = ip[0] + 1 /\ ip'[1] = 1
    BY <1>1, <1>2, <1>3, <1>4, <1>6 DEF TypeOK
  <1>8. TypeOK'
    BY <1>1, <1>2, <1>3, <1>4, <1>7, ScriptFacts DEF TypeOK
  <1>9. Starts(script', 0) = Starts(script, 0) /\ ip[0] \in Starts(script, 0)
    BY <1>1, <1>3, <1>4
  <1>10. InStep'
    BY <1>1, <1>2, <1>4, <1>5, <1>7, <1>9 DEF InStep
  <1>11. Told'
    <2>1. status = "none"
      BY <1>3, <1>4, <1>6 DEF Inv, Told
    <2> QED BY <2>1, <1>1, <1>7 DEF Told
  <1>12. Collected'
    BY <1>1, <1>5, <1>7 DEF Inv, Collected
  <1> QED BY <1>8, <1>10, <1>11, <1>12 DEF Inv

(* Steps that leave the threads and their results alone.                    *)
LEMMA QuietStep ==
    ASSUME Inv, UNCHANGED <<script, conforms, at, ip, status, mainVars>>,
           kernel' \in {"none", "running", "ended"}, raised' \in BOOLEAN,
           object' \in {"none", "created", "destroyed"}, crashed' \in BOOLEAN
    PROVE  Inv'
  BY DEF Inv, TypeOK, InStep, Told, Collected, Joined, HasStart, mainVars
-----------------------------------------------------------------------------
(* The steps of one host thread.                                            *)
LEMMA ThreadInv ==
    ASSUME Inv, NEW t \in Threads, Thread(t)
    PROVE  Inv'
  <1>1. TypeOK BY DEF Inv
  <1>2. Len(script[t]) \in Nat /\ ip[t] \in Nat
    BY <1>1, ScriptFacts DEF TypeOK
  <1>3. \A c : At(t, c) => /\ at[t] = "ready" /\ at[t] \notin {"off", "ended"}
                           /\ ip[t] <= Len(script[t]) /\ script[t][ip[t]] = c
                           /\ ~(ip[t] > Len(script[t]))
    BY <1>2 DEF At
  <1>4. at[t] \in {"insert", "kernel", "wait"} =>
           /\ at[t] \notin {"off", "ended"}
           /\ ip[t] <= Len(script[t]) /\ script[t][ip[t]] # "start"
           /\ ~(ip[t] > Len(script[t]))
    BY <1>2 DEF Inv, InStep, CommandsAt
  <1>5. CASE Fails(t)
    <2>1. at[t] \notin {"off", "ended"} /\ ~(ip[t] > Len(script[t]))
      BY <1>3, <1>4, <1>5 DEF Fails, FailsIf, CallFails, KernelFails, TimesOut
    <2>2. Return(t, FALSE) /\ UNCHANGED threadOnly
      BY <1>5 DEF Fails, FailsIf
    <2> QED BY <2>1, <2>2, ReturnStep DEF threadOnly
  <1>6. CASE Succeeds(t)
    BY <1>1, <1>3, <1>6, AdvanceStep DEF Succeeds, threadOnly, TypeOK
  <1>7. CASE NotSupported(t)
    <2>1. at[t] \notin {"off", "ended"} /\ ~(ip[t] > Len(script[t]))
      BY <1>3, <1>7 DEF NotSupported, PutsNA
    <2> QED BY <1>7, <2>1, ReturnStep DEF NotSupported, PutsNA
  <1>8. CASE InsertBegins(t)
    <2>1. /\ at[t] \notin {"off", "ended"} /\ ip[t] <= Len(script[t])
          /\ script[t][ip[t]] \in CommandsAt("insert")
      BY <1>3, <1>8 DEF InsertBegins, CommandsAt
    <2> QED BY <1>1, <1>8, <2>1, MoveStep DEF InsertBegins, threadOnly, TypeOK
  <1>9. CASE InsertEnds(t)
    <2>1. object' \in {"none", "created", "destroyed"}
      BY <1>1, <1>9 DEF InsertEnds, TypeOK
    <2> QED BY <1>1, <1>4, <1>9, <2>1, AdvanceStep DEF InsertEnds, TypeOK
  <1>10. CASE StartThread(t)
    BY <1>10, StartThreadStep
  <1>11. CASE Lookup(t)
    <2>1. at[t] \notin {"off", "ended"} /\ ip[t] <= Len(script[t]) /\ script[t][ip[t]] # "start"
      BY <1>3, <1>11 DEF Lookup, LookupThen
    <2>2. UNCHANGED <<script, conforms, kernel, object, status, crashed, mainVars>>
          /\ raised' \in BOOLEAN
      BY <1>1, <1>11 DEF Lookup, LookupThen, TypeOK
    <2>3. Advance(t) \/ (Move(t, "wait") /\ script[t][ip[t]] \in CommandsAt("wait"))
      BY <1>3, <1>11 DEF Lookup, LookupThen, CommandsAt
    <2> QED BY <1>1, <2>1, <2>2, <2>3, AdvanceStep, MoveStep DEF TypeOK
  <1>12. CASE LookupMisses(t)
    BY <1>1, <1>12, QuietStep DEF LookupMisses, TypeOK
  <1>13. CASE WaitSucceeds(t)
    BY <1>1, <1>4, <1>13, AdvanceStep DEF WaitSucceeds, threadOnly, TypeOK
  <1>14. CASE Launch(t)
    BY <1>1, <1>3, <1>14, MoveStep DEF Launch, CommandsAt, TypeOK
  <1>15. CASE Completed(t)
    BY <1>1, <1>4, <1>15, AdvanceStep DEF Completed, threadOnly, TypeOK
  <1>16. CASE Returns(t)
    BY <1>16, ReturnStep DEF Returns, threadOnly
  <1> QED BY <1>5, <1>6, <1>7, <1>8, <1>9, <1>10, <1>11, <1>12, <1>13, <1>14, <1>15, <1>16
          DEF Thread

(* The steps of the main thread: it goes on when the threads it waits for   *)
(* have ended.                                                              *)
LEMMA MainInv ==
    ASSUME Inv, Main
    PROVE  Inv'
  <1> USE DEF Threads, mainOnly
  <1>1. TypeOK BY DEF Inv
  <1>2. CASE Execute
    <2>1. at[0] = "off" /\ ip[0] = 1
      BY <1>2 DEF Execute, Inv, InStep
    <2>2. at[1] = "off" /\ \A i \in Starts(script, 0) : i >= ip[0]
      BY <1>1, <2>1, ScriptFacts DEF Inv, InStep, TypeOK
    <2>3. /\ at' \in [Threads -> {"off", "ready", "insert", "kernel", "wait", "ended"}]
          /\ at'[0] = "ready" /\ at'[1] = at[1] /\ ip' = ip /\ script' = script
          /\ phase' = "join" /\ status' = status /\ verdict' = verdict
      BY <1>1, <1>2 DEF Execute, TypeOK
    <2>4. TypeOK'
      BY <1>1, <1>2, <2>3 DEF Execute, TypeOK
    <2>5. Starts(script', 0) = Starts(script, 0)
      BY <2>3
    <2>6. InStep'
      BY <2>2, <2>3, <2>5 DEF Inv, InStep
    <2>7. Told'
      BY <1>2, <2>1, <2>2, <2>3 DEF Execute, Inv, Told
    <2>8. Collected'
      BY <1>2, <2>3 DEF Execute, Inv, Collected
    <2> QED BY <2>4, <2>6, <2>7, <2>8 DEF Inv
  <1>3. CASE WaitThreads
    BY <1>1, <1>3 DEF WaitThreads, Inv, TypeOK, InStep, Told, Collected
  <1>4. CASE Finish
    BY <1>1, <1>4 DEF Finish, FinishWith, Inv, TypeOK, InStep, Told, Collected, Joined, HasStart
  <1>5. CASE SetStatus
    BY <1>1, <1>5 DEF SetStatus, Inv, TypeOK, InStep, Told, Collected, Joined, HasStart
  <1>6. CASE DestroyState
    BY <1>1, <1>6 DEF DestroyState, Inv, TypeOK, InStep, Told, Collected, Joined, HasStart
  <1> QED BY <1>2, <1>3, <1>4, <1>5, <1>6 DEF Main

(* Every step preserves the invariant.                                      *)
LEMMA NextInv == Inv /\ [Next]_vars => Inv'
  <1> SUFFICES ASSUME Inv, [Next]_vars PROVE Inv' OBVIOUS
  <1>1. ASSUME NEW t \in Threads, Thread(t) PROVE Inv'
    BY <1>1, ThreadInv
  <1>2. CASE Main BY <1>2, MainInv
  <1>3. CASE KernelRaises
    BY <1>3, QuietStep DEF KernelRaises, Inv, TypeOK
  <1>4. CASE KernelEnds
    BY <1>4, QuietStep DEF KernelEnds, Inv, TypeOK
  <1>5. CASE UNCHANGED vars
    BY <1>5, QuietStep DEF vars, Inv, TypeOK
  <1> QED BY <1>1, <1>2, <1>3, <1>4, <1>5 DEF Next, Ended

(* A test tells its result by what its threads executed (Inv).              *)
THEOREM Invariance == Spec => []Inv
  <1> QED BY InitInv, NextInv, PTL DEF Spec

(* Scenario::Execute leaves no thread behind (JoinedWhenJudged).            *)
THEOREM NoThreadLeft == Spec => []JoinedWhenJudged
  <1>1. Inv => JoinedWhenJudged
    BY DEF Inv, Collected, Joined, JoinedWhenJudged, Threads
  <1> QED BY <1>1, Invariance, PTL
-----------------------------------------------------------------------------
(* What Done counts: a command of a thread is done once the thread is past  *)
(* it.                                                                      *)
LEMMA DoneFacts ==
    ASSUME TypeOK
    PROVE  /\ Done = Steps <=> \A t \in Threads : ip[t] > Len(script[t])
           /\ \A t \in Threads : ip[t] <= Len(script[t]) => <<t, ip[t]>> \in Steps \ Done
  <1>1. \A t \in Threads : Len(script[t]) \in Nat /\ ip[t] \in 1..(Len(script[t]) + 1)
    BY ScriptFacts DEF TypeOK
  <1>2. \A t \in Threads : \A i : <<t, i>> \in Steps <=> i \in 1..Len(script[t])
    BY DEF Steps
  <1>3. \A t \in Threads : \A i : <<t, i>> \in Done <=> i \in 1..(ip[t] - 1)
    BY DEF Done
  <1>4. \A t \in Threads : ip[t] <= Len(script[t]) => <<t, ip[t]>> \in Steps \ Done
    BY <1>1, <1>2, <1>3
  <1>5. ASSUME \A t \in Threads : ip[t] > Len(script[t]) PROVE Done = Steps
    <2>1. \A t \in Threads : 1..(ip[t] - 1) = 1..Len(script[t])
      BY <1>1, <1>5
    <2> QED BY <2>1 DEF Done, Steps
  <1>6. ASSUME Done = Steps, NEW t \in Threads PROVE ip[t] > Len(script[t])
    <2>1. <<t, ip[t]>> \notin Steps \ Done
      BY <1>6
    <2>2. ~(ip[t] <= Len(script[t]))
      BY <1>4, <1>6, <2>1
    <2> QED BY <1>1, <1>6, <2>2
  <1> QED BY <1>4, <1>5, <1>6

(* A thread that advances has one more command done; the test has no        *)
(* verdict yet.                                                             *)
LEMMA AdvanceMaps ==
    ASSUME Inv, NEW t \in Threads, at[t] \notin {"off", "ended"},
           ip[t] <= Len(script[t]),
           ip' = [ip EXCEPT ![t] = @ + 1], script' = script, verdict' = verdict
    PROVE  Verdict!Next
  <1>1. TypeOK BY DEF Inv
  <1>2. <<t, ip[t]>> \in Steps \ Done
    BY <1>1, DoneFacts
  <1>3. Steps' = Steps
    BY DEF Steps
  <1>4. Done' = Done \cup {<<t, ip[t]>>}
    <2>1. \A u \in Threads : ip[u] \in Nat /\ ip[u] >= 1
      BY <1>1 DEF TypeOK
    <2>2. ip'[t] = ip[t] + 1 /\ \A u \in Threads \ {t} : ip'[u] = ip[u]
      BY <1>1 DEF TypeOK
    <2>3. \A u \in Threads :
             {u} \X (1..(ip'[u] - 1)) =
                ({u} \X (1..(ip[u] - 1))) \cup (IF u = t THEN {<<t, ip[t]>>} ELSE {})
      <3>1. 1..(ip'[t] - 1) = (1..(ip[t] - 1)) \cup {ip[t]}
        BY <2>1, <2>2
      <3> QED BY <3>1, <2>2
    <2> QED BY <2>3 DEF Done
  <1>5. verdict = "none"
    BY Unjoined DEF Inv, Collected
  <1> QED BY <1>2, <1>3, <1>4, <1>5 DEF Verdict!Next, Verdict!Succeed

(* Steps that execute no command and give no verdict.                       *)
LEMMA StutterMaps ==
    ASSUME UNCHANGED <<ip, script, verdict>>
    PROVE  UNCHANGED Verdict!vars
  <1>1. Steps' = Steps /\ Done' = Done
    BY DEF Steps, Done
  <1> QED BY <1>1 DEF Verdict!vars

(* The verdict: nothing is left to succeed when it is PASSED, and something *)
(* is when it is not.                                                       *)
LEMMA SetStatusMaps ==
    ASSUME Inv, SetStatus
    PROVE  Verdict!Decide
  <1> USE DEF Threads
  <1>1. TypeOK BY DEF Inv
  <1>2. \A t \in Threads : Len(script[t]) \in Nat /\ ip[t] \in Nat /\ ip[t] >= 1
    BY <1>1, ScriptFacts DEF TypeOK
  <1>3. /\ phase = "finished" /\ verdict = "none" /\ at[0] = "ended" /\ Joined
        /\ result = (hostResult /\ (HasStart => cmdResult))
    BY DEF SetStatus, Inv, Collected
  <1>4. hostResult <=> ip[0] > Len(script[0])
    BY <1>3 DEF Inv, Told
  <1>5. CASE status # "none"
    <2>1. Done # Steps
      BY <1>1, <1>2, <1>5, DoneFacts DEF Inv, Told
    <2>2. verdict' = "NA"
      BY <1>1, <1>5 DEF SetStatus, TypeOK
    <2> QED BY <1>3, <2>1, <2>2 DEF SetStatus, mainOnly, Verdict!Decide, Steps, Done
  <1>6. CASE status = "none" /\ result
    <2>1. ip[0] > Len(script[0])
      BY <1>3, <1>4, <1>6
    <2>2. ip[1] > Len(script[1])
      <3>1. CASE HasStart
        <4>1. \A i \in Starts(script, 0) : i < ip[0]
          BY <1>1, <1>2, <2>1, ScriptFacts DEF TypeOK
        <4>2. at[1] = "ended"
          BY <1>1, <1>2, <1>3, <3>1, <4>1, ScriptFacts DEF HasStart, Joined, Inv, InStep, TypeOK
        <4> QED BY <1>3, <1>6, <3>1, <4>2 DEF Inv, Told
      <3>2. CASE ~HasStart
        <4>1. script[1] = <<>>
          BY <1>1, <3>2, ScriptFacts DEF HasStart, TypeOK
        <4> QED BY <1>2, <4>1
      <3> QED BY <3>1, <3>2
    <2>3. Done = Steps
      BY <1>1, <2>1, <2>2, DoneFacts
    <2>4. verdict' = "PASSED"
      BY <1>6 DEF SetStatus
    <2> QED BY <1>3, <2>3, <2>4 DEF SetStatus, mainOnly, Verdict!Decide, Steps, Done
  <1>7. CASE status = "none" /\ ~result
    <2>1. Done # Steps
      <3>1. CASE ~hostResult
        BY <1>1, <1>2, <1>4, <3>1, DoneFacts
      <3>2. CASE HasStart /\ ~cmdResult
        <4>1. CASE at[1] = "ended"
          BY <1>1, <3>2, <4>1, DoneFacts DEF Inv, Told
        <4>2. CASE at[1] = "off"
          <5>1. PICK i \in Starts(script, 0) : i >= ip[0]
            BY <3>2, <4>2 DEF HasStart, Inv, InStep
          <5>2. i \in 1..Len(script[0])
            BY <1>1, <5>1, ScriptFacts DEF TypeOK
          <5>3. ~(ip[0] > Len(script[0]))
            BY <1>2, <5>1, <5>2
          <5> QED BY <1>1, <5>3, DoneFacts
        <4> QED BY <1>3, <4>1, <4>2 DEF Joined
      <3> QED BY <1>3, <1>7, <3>1, <3>2
    <2>2. verdict' = "FAILED"
      BY <1>7 DEF SetStatus
    <2> QED BY <1>3, <2>1, <2>2 DEF SetStatus, mainOnly, Verdict!Decide, Steps, Done
  <1> QED BY <1>5, <1>6, <1>7

(* Before a test runs nothing is done.                                      *)
LEMMA InitMaps == Init => Verdict!Init
  <1> SUFFICES ASSUME Init PROVE Verdict!Init OBVIOUS
  <1>1. \A t \in Threads : 1..(ip[t] - 1) = {}
    BY DEF Init
  <1>2. Done = {}
    BY <1>1 DEF Done
  <1> QED BY <1>2 DEF Init, Verdict!Init

(* A step of a host thread executes at most one command.                    *)
LEMMA ThreadMaps ==
    ASSUME Inv, NEW t \in Threads, Thread(t)
    PROVE  [Verdict!Next]_(Verdict!vars)
  <1>1. Len(script[t]) \in Nat /\ ip[t] \in Nat
    BY ScriptFacts DEF Inv, TypeOK
  <1>2. \A c : At(t, c) => at[t] \notin {"off", "ended"} /\ ip[t] <= Len(script[t])
    BY DEF At
  <1>3. at[t] \in {"insert", "kernel", "wait"} =>
           at[t] \notin {"off", "ended"} /\ ip[t] <= Len(script[t])
    BY DEF Inv, InStep
  <1>4. CASE UNCHANGED <<ip, script, verdict>>
    BY <1>4, StutterMaps
  <1>5. CASE /\ at[t] \notin {"off", "ended"} /\ ip[t] <= Len(script[t])
             /\ ip' = [ip EXCEPT ![t] = @ + 1] /\ script' = script /\ verdict' = verdict
    BY <1>5, AdvanceMaps
  <1>6. CASE Fails(t) \/ NotSupported(t) \/ InsertBegins(t) \/ Launch(t) \/ Returns(t)
             \/ LookupMisses(t)
    BY <1>4, <1>6 DEF Fails, FailsIf, NotSupported, PutsNA, InsertBegins, Launch, Returns,
                      LookupMisses, Return, Move, threadOnly, mainVars
  <1>7. CASE Succeeds(t)
    BY <1>2, <1>5, <1>7 DEF Succeeds, Advance, threadOnly, mainVars
  <1>8. CASE InsertEnds(t)
    BY <1>3, <1>5, <1>8 DEF InsertEnds, Advance, mainVars
  <1>9. CASE StartThread(t)
    BY <1>2, <1>5, <1>9 DEF StartThread, threadOnly, mainVars
  <1>10. CASE Lookup(t)
    <2>1. at[t] \notin {"off", "ended"} /\ ip[t] <= Len(script[t])
      BY <1>2, <1>10 DEF Lookup, LookupThen
    <2>2. script' = script /\ verdict' = verdict
      BY <1>10 DEF Lookup, LookupThen, mainVars
    <2>3. ip' = [ip EXCEPT ![t] = @ + 1] \/ ip' = ip
      BY <1>10 DEF Lookup, LookupThen, Advance, Move
    <2> QED BY <1>4, <1>5, <2>1, <2>2, <2>3
  <1>11. CASE WaitSucceeds(t) \/ Completed(t)
    BY <1>3, <1>5, <1>11 DEF WaitSucceeds, Completed, Advance, threadOnly, mainVars
  <1> QED BY <1>6, <1>7, <1>8, <1>9, <1>10, <1>11 DEF Thread

(* Every step is a step of TestVerdict or is not seen there.                *)
LEMMA NextMaps == Inv /\ [Next]_vars => [Verdict!Next]_(Verdict!vars)
  <1> SUFFICES ASSUME Inv, [Next]_vars PROVE [Verdict!Next]_(Verdict!vars) OBVIOUS
  <1>1. ASSUME NEW t \in Threads, Thread(t) PROVE [Verdict!Next]_(Verdict!vars)
    BY <1>1, ThreadMaps
  <1>2. CASE SetStatus
    BY <1>2, SetStatusMaps DEF Verdict!Next
  <1>3. CASE Execute \/ WaitThreads \/ Finish \/ DestroyState \/ KernelRaises \/ KernelEnds
             \/ UNCHANGED vars
    BY <1>3, StutterMaps DEF Execute, WaitThreads, Finish, FinishWith, DestroyState,
                             KernelRaises, KernelEnds, mainOnly, mainVars, vars
  <1> QED BY <1>1, <1>2, <1>3 DEF Next, Main, Ended

(* Whatever the scenario and its interleaving, the verdict is the one the   *)
(* manual promises (VerdictIsEarned): PASSED exactly when every command of  *)
(* every thread was executed and succeeded, and given once.                 *)
THEOREM Refinement == Spec => VerdictIsEarned
  <1> QED BY InitMaps, NextMaps, Invariance, PTL DEF Spec, VerdictIsEarned, Verdict!Spec
-----------------------------------------------------------------------------
(* In the scenarios of the tests the signal is created before thread 1 is   *)
(* started.                                                                 *)
SignalFirst ==
    \A s \in Scripts : \A i \in Starts(s, 0) :
        \E j \in 1..(i - 1) : s[0][j] = "signal"

\* The signal object lives from its command to the destruction of the state.
Created ==
    /\ phase # "done" /\ (\E j \in 1..(ip[0] - 1) : script[0][j] = "signal") =>
          object = "created"
    /\ object = "destroyed" => phase = "done"

(* Only DestroyState ends the life of the signal.                           *)
LEMMA NextCreated == Inv /\ Created /\ [Next]_vars => Created'
  <1> SUFFICES ASSUME Inv, Created, [Next]_vars PROVE Created' OBVIOUS
  <1>1. TypeOK BY DEF Inv
  <1>2. CASE UNCHANGED <<script, conforms, ip, object, phase>>
    BY <1>2 DEF Created
  <1>3. ASSUME NEW t \in Threads, ip' = [ip EXCEPT ![t] = @ + 1], ip[t] \in Nat,
               t = 0 => script[0][ip[0]] # "signal",
               UNCHANGED <<script, conforms, object, phase>>
        PROVE  Created'
    <2>1. \A j \in 1..(ip'[0] - 1) : script[0][j] = "signal" => j \in 1..(ip[0] - 1)
      BY <1>1, <1>3 DEF TypeOK, Threads
    <2> QED BY <1>3, <2>1 DEF Created
  <1>4. ASSUME NEW t \in Threads, Thread(t) PROVE Created'
    <2>1. \A c : At(t, c) => script[t][ip[t]] = c
      BY DEF At
    <2>2. ip[t] \in Nat
      BY <1>1 DEF TypeOK
    <2>3. CASE Fails(t) \/ NotSupported(t) \/ InsertBegins(t) \/ Launch(t) \/ Returns(t)
               \/ LookupMisses(t)
      BY <1>2, <2>3 DEF Fails, FailsIf, NotSupported, PutsNA, InsertBegins, Launch, Returns,
                        LookupMisses, Return, Move, threadOnly, mainVars
    <2>4. CASE Succeeds(t)
      BY <1>3, <2>1, <2>2, <2>4 DEF Succeeds, Advance, threadOnly, mainVars
    <2>5. CASE StartThread(t)
      BY <1>3, <2>1, <2>2, <2>5 DEF StartThread, threadOnly, mainVars
    <2>6. CASE Lookup(t)
      BY <1>2, <1>3, <2>1, <2>2, <2>6
         DEF Lookup, LookupThen, Advance, Move, mainVars
    <2>7. CASE InsertEnds(t)
      <3>1. phase # "done"
        BY <2>7, Unjoined DEF InsertEnds
      <3>2. CASE script[t][ip[t]] = "signal"
        BY <2>7, <3>1, <3>2 DEF InsertEnds, Created, mainVars
      <3>3. CASE script[t][ip[t]] # "signal"
        BY <1>3, <2>2, <2>7, <3>3 DEF InsertEnds, Advance, mainVars
      <3> QED BY <3>2, <3>3
    <2>8. CASE WaitSucceeds(t) \/ Completed(t)
      <3>1. script[t][ip[t]] # "signal"
        BY <2>8 DEF WaitSucceeds, Completed, Inv, InStep, CommandsAt
      <3> QED BY <1>3, <2>2, <2>8, <3>1
             DEF WaitSucceeds, Completed, Advance, threadOnly, mainVars
    <2> QED BY <1>4, <2>3, <2>4, <2>5, <2>6, <2>7, <2>8 DEF Thread
  <1>5. CASE Main
    BY <1>1, <1>5 DEF Main, Execute, WaitThreads, Finish, FinishWith, SetStatus, DestroyState,
                      mainOnly, Created, TypeOK
  <1>6. CASE KernelRaises \/ KernelEnds \/ UNCHANGED vars
    BY <1>2, <1>6 DEF KernelRaises, KernelEnds, mainVars, vars
  <1> QED BY <1>4, <1>5, <1>6 DEF Next, Ended

(* When the scenarios create the signal before they start thread 1, which   *)
(* the tests' do, the signal outlives its users (SignalOutlivesUsers),      *)
(* however early thread 0 fails.                                            *)
THEOREM SignalLives ==
    ASSUME SignalFirst
    PROVE  Spec => []SignalOutlivesUsers
  <1>1. Init => Created
    <2> SUFFICES ASSUME Init PROVE Created OBVIOUS
    <2>1. 1..(ip[0] - 1) = {}
      BY DEF Init, Threads
    <2> QED BY <2>1 DEF Init, Created
  <1>2. Inv /\ Created => SignalOutlivesUsers
    <2> SUFFICES ASSUME Inv, Created, at[1] \in {"ready", "wait"}
                 PROVE  object = "created"
      BY DEF SignalOutlivesUsers
    <2>1. phase # "done"
      BY Unjoined DEF Threads
    <2>2. PICK i \in Starts(script, 0) : i < ip[0]
      BY DEF Inv, InStep
    <2>3. i \in Nat /\ ip[0] \in Nat
      BY ScriptFacts DEF Inv, TypeOK, Threads
    <2>4. PICK j \in 1..(i - 1) : script[0][j] = "signal"
      BY SignalFirst DEF SignalFirst, Inv, TypeOK
    <2>5. j \in 1..(ip[0] - 1)
      BY <2>2, <2>3, <2>4
    <2> QED BY <2>1, <2>4, <2>5 DEF Created
  <1>3. Spec => []Created
    BY <1>1, NextCreated, Invariance, PTL DEF Spec
  <1> QED BY <1>2, <1>3, Invariance, PTL
=============================================================================
