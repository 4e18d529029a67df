--------------------------- MODULE ScenarioThreads ---------------------------
(***************************************************************************)
(* The execution of one test: ScenarioTest::Run executes the scenario      *)
(* (hexl_base/Scenario.cpp) on host threads.  Thread 0 is started by       *)
(* Scenario::Execute and kept in HostThreads; thread 1 is started by a     *)
(* StartThreadCommand of thread 0, which owns it and joins it in Finish.   *)
(* Both threads look objects up in the context of the test, and thread 0   *)
(* puts new ones in, without a lock; a kernel and thread 1 meet at a       *)
(* signal.  The results of the threads make the verdict.                   *)
(***************************************************************************)
EXTENDS Integers, Sequences

CONSTANTS
    Scripts      \* the scenarios considered: [Threads -> Seq(Command)]

Threads == {0, 1}

(* Commands by what they do to the state of this module: put an object in   *)
(* the context, only look objects up, create the signal, ask for a feature  *)
(* whose absence makes the test NA, create an image (both), ...             *)
Command == {"put", "look", "signal", "guard", "image", "start", "dispatch",
            "send", "wait"}

Starts(s, t) == {i \in DOMAIN s[t] : s[t][i] = "start"}

\* Thread 1 has commands if and only if thread 0 starts it, once.
ASSUME ScriptAssumption ==
    /\ Scripts \subseteq [Threads -> Seq(Command)]
    /\ \A s \in Scripts :
          /\ Starts(s, 1) = {}
          /\ \A i, j \in Starts(s, 0) : i = j
          /\ s[1] # <<>> => Starts(s, 0) # {}

VARIABLES
    script,      \* the scenario of this test
    conforms,    \* no call fails, no kernel misbehaves, no wait times out, no lookup misses
    phase,       \* of the main thread
    at,          \* where each host thread is
    ip,          \* each thread: number of the command it is at
    kernel,      \* the dispatched kernel: none, running, ended
    raised,      \* the signal has the value that is waited for
    object,      \* the signal object: none, created, destroyed
    hostResult,  \* HostThreads::results[0]
    cmdResult,   \* StartThreadCommand::result, not initialised
    result,      \* Scenario::Execute: result
    status,      \* TEST_STATUS_KEY of the context, "none" if absent
    verdict,     \* the TestResult, "none" before the test has one
    crashed      \* the process died of a failed lookup

mainVars == <<phase, hostResult, cmdResult, result, verdict>>
vars == <<script, conforms, at, ip, kernel, raised, object, status, crashed, mainVars>>
-----------------------------------------------------------------------------
(* The scenarios of the tests: EmittedTest::Scenario, and what SignalTests, *)
(* ExceptionsTests and the image tests add to it.                           *)

Program == <<"put", "look", "put", "put", "look", "look">>
Dispatches == <<"put", "look", "dispatch">>
Validation == <<"look">>
EmittedScript(first, then) ==
    first \o <<"put">> \o then \o Program \o Dispatches \o Validation

BasicScript == [t \in Threads |-> IF t = 0 THEN EmittedScript(<<"put">>, <<>>) ELSE <<>>]
DetectScript == [BasicScript EXCEPT ![0] = EmittedScript(<<"guard", "put">>, <<>>)]
ImageScript == [BasicScript EXCEPT ![0] = EmittedScript(<<"put", "image", "look">>, <<>>)]

\* Thread 1 is started when its signal exists; a variation starts it before.
StartAfterSignal(first, id, c) ==
    [t \in Threads |-> IF t = 0 THEN EmittedScript(first, id) ELSE <<c>>]
StartsTooEarly(c) == StartAfterSignal(<<"put", "start", "signal">>, <<>>, c)
SignalScript(c) == StartAfterSignal(<<"put", "signal">>, <<"start">>, c)

TestScripts == {BasicScript, DetectScript, ImageScript,
                SignalScript("wait"), SignalScript("send")}

\* SignalBaseTest: the kernel sends and thread 1 waits; SignalWaitTest: the
\* kernel waits and thread 1 sends.
KernelSends == \E i \in DOMAIN script[1] : script[1][i] = "wait"
KernelWaits == \E i \in DOMAIN script[1] : script[1][i] = "send"
-----------------------------------------------------------------------------
(* The signal may have the expected value from the start: several tests     *)
(* create it with that value.                                               *)
Init ==
    /\ script \in Scripts /\ conforms \in BOOLEAN
    /\ phase = "run" /\ at = [t \in Threads |-> "off"] /\ ip = [t \in Threads |-> 1]
    /\ kernel = "none" /\ raised \in BOOLEAN /\ object = "none"
    /\ hostResult = FALSE /\ cmdResult \in BOOLEAN /\ result = TRUE
    /\ status = "none" /\ verdict = "none" /\ crashed = FALSE

At(t, c) == at[t] = "ready" /\ ip[t] <= Len(script[t]) /\ script[t][ip[t]] = c

\* A std::map that another thread is inserting into is read without a lock.
Racing(t) == \E u \in Threads \ {t} : at[u] = "insert"

Advance(t) == at' = [at EXCEPT ![t] = "ready"] /\ ip' = [ip EXCEPT ![t] = @ + 1]
Move(t, where) == at' = [at EXCEPT ![t] = where] /\ ip' = ip
threadOnly == <<script, conforms, kernel, raised, object, status, crashed>>

(* The thread function stores the result of CommandSequence::Execute.       *)
Store(t, r) ==
    IF t = 0 THEN hostResult' = r /\ UNCHANGED cmdResult
             ELSE cmdResult' = r /\ UNCHANGED hostResult
Return(t, r) ==
    /\ Move(t, "ended") /\ Store(t, r)
    /\ UNCHANGED <<phase, result, verdict>>

(* A command returns false: the sequence ends there.                        *)
FailsIf(t, cond) ==
    /\ ~conforms /\ cond
    /\ Return(t, FALSE)
    /\ UNCHANGED threadOnly

CallFails(t) == \E c \in {"put", "look", "signal", "image"} : At(t, c)
KernelFails(t) == at[t] = "kernel"              \* it timed out, or its queue failed
TimesOut(t) == at[t] = "wait" /\ ~raised
FailsButNeverTimesOut(t) == FailsIf(t, CallFails(t) \/ KernelFails(t))    \* a variation
Fails(t) == FailsIf(t, CallFails(t) \/ KernelFails(t) \/ TimesOut(t))

Succeeds(t) ==
    /\ At(t, "look") \/ At(t, "guard")
    /\ Advance(t)
    /\ UNCHANGED <<threadOnly, mainVars>>

(* A feature or an image format is not supported: the status is put in the  *)
(* context, and the sequence ends.                                          *)
PutsNA(t) ==
    /\ ~conforms
    /\ At(t, "guard") \/ At(t, "image")
    /\ status' = "NA"
    /\ UNCHANGED <<script, conforms, kernel, raised, object, crashed>>

NotSupported(t) == PutsNA(t) /\ Return(t, FALSE)

(* An object is put in the context: the map is being changed in between.    *)
InsertBegins(t) ==
    /\ \E c \in {"put", "signal", "image"} : At(t, c)
    /\ Move(t, "insert")
    /\ UNCHANGED <<threadOnly, mainVars>>

InsertEnds(t) ==
    /\ at[t] = "insert"
    /\ object' = IF script[t][ip[t]] = "signal" THEN "created" ELSE object
    /\ Advance(t)
    /\ UNCHANGED <<script, conforms, kernel, raised, status, crashed, mainVars>>

(* StartThreadCommand::Execute.                                             *)
StartThread(t) ==
    /\ At(t, "start")
    /\ at' = [at EXCEPT ![1] = "ready"]
    /\ ip' = [ip EXCEPT ![t] = @ + 1]
    /\ UNCHANGED <<threadOnly, mainVars>>

(* SignalSend and SignalWait look the signal up.                            *)
LookupThen(t, seen) ==
    /\ At(t, "send") \/ At(t, "wait")
    /\ object = "created"
    /\ IF At(t, "send") THEN Advance(t) /\ raised' = TRUE
                        ELSE Move(t, "wait") /\ raised' = seen
    /\ UNCHANGED <<script, conforms, kernel, object, status, crashed, mainVars>>

LookupWaitsForChange(t) == LookupThen(t, FALSE)    \* a variation
Lookup(t) == LookupThen(t, raised)

(* "Value not found": there is no such object, or the lookup has raced.     *)
LookupMisses(t) ==
    /\ At(t, "send") \/ At(t, "wait")
    /\ object # "created" \/ (~conforms /\ Racing(t))
    /\ crashed' = TRUE
    /\ UNCHANGED <<script, conforms, at, ip, kernel, raised, object, status, mainVars>>

WaitSucceeds(t) ==
    /\ at[t] = "wait" /\ raised
    /\ Advance(t)
    /\ UNCHANGED <<threadOnly, mainVars>>

(* DispatchExecute (HsailQueue has it in detail).                           *)
Launch(t) ==
    /\ At(t, "dispatch")
    /\ kernel' = "running"
    /\ Move(t, "kernel")
    /\ UNCHANGED <<script, conforms, raised, object, status, crashed, mainVars>>

Completed(t) ==
    /\ at[t] = "kernel" /\ kernel = "ended"
    /\ Advance(t)
    /\ UNCHANGED <<threadOnly, mainVars>>

Returns(t) ==
    /\ at[t] = "ready" /\ ip[t] > Len(script[t])
    /\ Return(t, TRUE)
    /\ UNCHANGED threadOnly

Thread(t) ==
    \/ Fails(t) \/ Succeeds(t) \/ NotSupported(t) \/ InsertBegins(t) \/ InsertEnds(t)
    \/ StartThread(t) \/ Lookup(t) \/ LookupMisses(t) \/ WaitSucceeds(t)
    \/ Launch(t) \/ Completed(t) \/ Returns(t)
-----------------------------------------------------------------------------
(* The agent.  A kernel that does not conform may end without its signal.   *)
KernelRaises ==
    /\ kernel = "running" /\ KernelSends /\ ~raised
    /\ raised' = TRUE
    /\ UNCHANGED <<script, conforms, at, ip, kernel, object, status, crashed, mainVars>>

KernelEnds ==
    /\ kernel = "running"
    /\ raised \/ ~conforms \/ ~(KernelSends \/ KernelWaits)
    /\ kernel' = "ended"
    /\ UNCHANGED <<script, conforms, at, ip, raised, object, status, crashed, mainVars>>
-----------------------------------------------------------------------------
(* The main thread: Scenario::Execute, ScenarioTest::Run.                   *)
mainOnly == <<script, conforms, ip, kernel, raised, status, crashed>>

Execute ==
    /\ phase = "run"
    /\ at' = [at EXCEPT ![0] = "ready"]
    /\ phase' = "join"
    /\ UNCHANGED <<mainOnly, object, hostResult, cmdResult, result, verdict>>

WaitThreads ==
    /\ phase = "join" /\ at[0] = "ended"
    /\ result' = hostResult
    /\ phase' = "finish"
    /\ UNCHANGED <<mainOnly, at, object, hostResult, cmdResult, verdict>>


(* CommandSequence::Finish: a StartThreadCommand joins its thread if it was *)
(* started, and its result counts, started or not.                          *)
HasStart == Starts(script, 0) # {}
Joined == at[1] \in {"off", "ended"}

FinishWith(ready, r) ==
    /\ phase = "finish"
    /\ HasStart => ready
    /\ result' = r
    /\ phase' = "finished"
    /\ UNCHANGED <<mainOnly, at, object, hostResult, cmdResult, verdict>>

FinishNoJoin == FinishWith(TRUE, result /\ (HasStart => cmdResult))           \* a variation
FinishOverwrites == FinishWith(Joined, IF HasStart THEN cmdResult ELSE result) \* a variation
Finish == FinishWith(Joined, result /\ (HasStart => cmdResult))

(* A status in the context overrides the result.                            *)
SetStatus ==
    /\ phase = "finished"
    /\ verdict' = IF status # "none" THEN status
                  ELSE IF result THEN "PASSED" ELSE "FAILED"
    /\ phase' = "judged"
    /\ UNCHANGED <<mainOnly, at, object, hostResult, cmdResult, result>>

(* ~HsailRuntimeContextState deletes the objects of the test.               *)
DestroyState ==
    /\ phase = "judged"
    /\ object' = IF object = "created" THEN "destroyed" ELSE object
    /\ phase' = "done"
    /\ UNCHANGED <<mainOnly, at, hostResult, cmdResult, result, verdict>>

Main == Execute \/ WaitThreads \/ Finish \/ SetStatus \/ DestroyState

Ended == (phase = "done" \/ crashed) /\ UNCHANGED vars

Next ==
    \/ ~crashed /\ (Main \/ KernelRaises \/ KernelEnds \/ \E t \in Threads : Thread(t))
    \/ Ended

Spec == Init /\ [][Next]_vars

(* Host threads are scheduled, and their waits time out; nothing is asked   *)
(* of the kernel.                                                           *)
FairSpec ==
    Spec /\ WF_vars(~crashed /\ Main) /\ \A t \in Threads : WF_vars(~crashed /\ Thread(t))

(* The kernels of a conforming agent send and end.                          *)
KernelsRun == WF_vars(~crashed /\ KernelRaises) /\ WF_vars(~crashed /\ KernelEnds)
-----------------------------------------------------------------------------
TypeOK ==
    /\ script \in Scripts /\ conforms \in BOOLEAN
    /\ phase \in {"run", "join", "finish", "finished", "judged", "done"}
    /\ at \in [Threads -> {"off", "ready", "insert", "kernel", "wait", "ended"}]
    /\ ip \in [Threads -> Nat]
    /\ \A t \in Threads : ip[t] \in 1..(Len(script[t]) + 1)
    /\ kernel \in {"none", "running", "ended"} /\ raised \in BOOLEAN
    /\ object \in {"none", "created", "destroyed"}
    /\ hostResult \in BOOLEAN /\ cmdResult \in BOOLEAN /\ result \in BOOLEAN
    /\ status \in {"none", "NA"} /\ verdict \in {"none", "PASSED", "FAILED", "NA"}
    /\ crashed \in BOOLEAN

(* No command of either thread is skipped or fails in a test that passes,   *)
(* and no test fails of which every command succeeded.                      *)
Steps == UNION {{t} \X (1..Len(script[t])) : t \in Threads}
Done == UNION {{t} \X (1..(ip[t] - 1)) : t \in Threads}
Verdict == INSTANCE TestVerdict WITH steps <- Steps, done <- Done
VerdictIsEarned == Verdict!Spec

(* The signal that thread 1 sends or waits for exists as long as the thread *)
(* uses it: it is created before the thread is started, and destroyed after *)
(* the thread was joined, even when thread 0 fails early.                   *)
SignalOutlivesUsers ==
    at[1] \in {"ready", "wait"} /\ ip[1] <= Len(script[1]) => object = "created"

(* Every host thread has ended when the test is judged: the destructor of a *)
(* joinable std::thread would end the process.                              *)
JoinedWhenJudged ==
    phase \in {"finished", "judged", "done"} => \A t \in Threads : at[t] \in {"off", "ended"}

(* Every test ends, whatever its kernel and its threads do: waits time out  *)
(* (and a lookup that races ends the process).                              *)
TestEnds == ~conforms => <>(phase = "done" \/ crashed)

(* A test passes on an agent that conforms, whatever the order in which the *)
(* threads and the kernel get to the signal.                                *)
ConformingPasses == KernelsRun => (conforms => <>(verdict = "PASSED"))
-----------------------------------------------------------------------------
(* The inductive invariant behind the verdict (ScenarioThreads_proofs).     *)

\* Where the threads are: inside a command, or past the one that starts them.
CommandsAt(where) ==
    CASE where = "insert" -> {"put", "signal", "image"}
      [] where = "kernel" -> {"dispatch"}
      [] where = "wait"   -> {"wait"}
InStep ==
    /\ \A t \in Threads : at[t] \in {"insert", "kernel", "wait"} =>
          ip[t] <= Len(script[t]) /\ script[t][ip[t]] \in CommandsAt(at[t])
    /\ at[0] = "off" <=> phase = "run"
    /\ at[0] = "off" => ip[0] = 1
    /\ at[1] = "off" => ip[1] = 1 /\ \A i \in Starts(script, 0) : i >= ip[0]
    /\ at[1] # "off" => \E i \in Starts(script, 0) : i < ip[0]

\* A thread that has ended tells whether it executed all of its commands.
Told ==
    /\ at[0] = "ended" => (hostResult <=> ip[0] > Len(script[0]))
    /\ at[1] = "ended" => (cmdResult <=> ip[1] > Len(script[1]))
    /\ status # "none" => \E t \in Threads : at[t] = "ended" /\ ip[t] <= Len(script[t])

Collected ==
    /\ phase \notin {"run", "join"} => at[0] = "ended"
    /\ phase = "finish" => result = hostResult
    /\ phase \in {"finished", "judged", "done"} =>
          Joined /\ result = (hostResult /\ (HasStart => cmdResult))
    /\ verdict # "none" <=> phase \in {"judged", "done"}

Inv == TypeOK /\ InStep /\ Told /\ Collected
=============================================================================
