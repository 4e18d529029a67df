-------------------------- MODULE KernelExecution --------------------------
(***************************************************************************)
(* The agent as the kernels of the barrier, fbarrier, atomicity, fence,    *)
(* execution model and identity tests see it: work-items run in any        *)
(* interleaving, a barrier is one step of its work-group, an operation on  *)
(* an fbarrier one step of a wavefront.                                    *)
(* The agent is external; the programs are those of the modules of kernels.*)
(*                                                                         *)
(* Memory is sequentially consistent here: what orders and scopes leave to *)
(* the memory is the subject of MModelKernel.                               *)
(***************************************************************************)
EXTENDS BarrierKernels, AtomicKernels, WaitingKernels, FiniteSetsExt

CONSTANT Cases       \* the tests considered, with their geometry

ASSUME CasesAssumption ==
    \A c \in Cases :
        /\ c.groups \in Nat \ {0} /\ c.size \in Nat \ {0} /\ c.wave \in Nat \ {0}
        /\ c.last \in 1..c.size

VARIABLES
    case,            \* the test that runs
    pc, regs,        \* of each work-item
    mem,             \* variables and buffers
    fbar,            \* fbarriers: of each group and name
    undef            \* an operation had no defined behaviour

vars == <<case, pc, regs, mem, fbar, undef>>
-----------------------------------------------------------------------------
(* Programs.                                                                *)
Program(c, wi) ==
    CASE c.test = "barrier"        -> BarrierTest(c, wi)
      [] c.test = "basic"          -> FBarrierBasic(c, wi)
      [] c.test = "example1"       -> FBarrierFirstExample(c, wi)
      [] c.test = "example2"       -> FBarrierSecondExample(c, wi)
      [] c.test = "example3"       -> FBarrierThirdExample(c, wi)
      [] c.test = "ldf"            -> Ldf(c, wi)
      [] c.test = "pair"           -> FBarrierPair(c, wi)
      [] c.test = "wait_race"      -> FBarrierWaitRace(c, wi)
      [] c.test = "join_leave"     -> FBarrierJoinLeave(c, wi)
      [] c.test = "join_leave_join" -> FBarrierJoinLeaveJoin(c, wi)
      [] c.test = "atomic"         -> AtomicTest(c, wi)
      [] c.test = "fence"          -> MemoryFence(c, wi)
      [] c.test = "fence_compound" -> MemoryFenceCompound(c, wi)
      [] c.test = "fence_array"    -> MemoryFenceArray(c, wi)
      [] c.test = "execmodel"      -> ExecModel(c, wi)
      [] c.test = "identity"       -> BufferIdentity(c, wi)

Instructions(c) == UNION {Range(Program(c, wi)) : wi \in WorkItems(c)}
Addresses(c) ==
    {i.addr : i \in {j \in Instructions(c) : "addr" \in DOMAIN j /\ j.addr[1] # "flag"}}
Fbarriers(c) == {i.fb : i \in {j \in Instructions(c) : "fb" \in DOMAIN j}}

Programs == [c \in Cases |-> [wi \in WorkItems(c) |-> Program(c, wi)]]
Code(wi) == Programs[case][wi]

Groups(c) == 0..(c.groups - 1)

Undef == -1          \* what was never stored
InitialMemory(c, a) ==
    CASE a[1] = "global_var" -> InitialValue(c)
      [] a[1] = "atomic_var" -> IF c.segment = "group" THEN Undef ELSE Encode(c, InitialVar(c))
      [] a[1] = "group_complete" -> IF a[2] = 0 THEN c.size ELSE 0
      [] a[1] = "global_flag" -> c.flag
      [] a[1] = "flags" -> 0
      [] a[1] = "fence_var" -> IF c.segment = "group" \/ c.test = "fence_array" THEN Undef ELSE 0
      [] a[1] = "fence_var_2" -> IF c.segment2 = "group" THEN Undef ELSE 0
      [] OTHER -> Undef

\* What the host expects in the output, element by element.
Expected(c) ==
    [a \in {b \in DOMAIN mem : b[1] = "output"} |->
        CASE c.test = "barrier" -> BarrierExpected(c)
          [] c.test = "basic" -> VALUE2
          [] c.test \in {"example1", "example2"} -> ExampleValue(c, a[2])
          [] c.test = "example3" -> a[2] \div GridSize(c)
          [] c.test \in {"pair", "join_leave"} -> VALUE1
          [] c.test = "atomic" -> AtomicExpected(c)
          [] c.test \in {"fence", "fence_compound", "fence_array"} -> FenceExpected(c, a[2])
          [] OTHER -> 1]
-----------------------------------------------------------------------------
(* Instructions.                                                            *)
\* A word as the set of its bits.
BitsOf(n) == {b \in 0..15 : (n \div 2^b) % 2 = 1}
WordOf(bits) == MapThenSumSet(LAMBDA b : 2^b, bits)

Modified(f, old, x, y) ==
    CASE f = "add" -> old + x
      [] f = "sub" -> old - x
      [] f = "and" -> WordOf(BitsOf(old) \cap BitsOf(x))
      [] f = "or" -> WordOf(BitsOf(old) \cup BitsOf(x))
      [] f = "xor" -> WordOf((BitsOf(old) \cup BitsOf(x)) \ (BitsOf(old) \cap BitsOf(x)))
      [] f = "max" -> IF old < x THEN x ELSE old
      [] f = "min" -> IF old > x THEN x ELSE old
      [] f = "wrapinc" -> IF old >= x THEN 0 ELSE old + 1
      [] f = "wrapdec" -> IF old = 0 \/ old > x THEN x ELSE old - 1
      [] f = "cas" -> IF old = x THEN y ELSE old

Atomically(f, old, x, y) ==
    CASE f = "ld" -> old
      [] f \in {"st", "exch"} -> x
      [] OTHER -> IF old = Undef THEN Undef ELSE Modified(f, old, x, y)

Compare(cmp, x, y) ==
    CASE cmp = "eq" -> x = y [] cmp = "ne" -> x # y
      [] cmp = "lt" -> x < y [] cmp = "ge" -> x >= y

\* Operands and addresses; those of a flag are computed by the test.
Value(wi, x) ==
    CASE x[1] = "reg" -> regs[wi][x[2]]
      [] x[1] = "sum" -> regs[wi][x[2]] + regs[wi][x[3]]
      [] x[1] = "equal" -> IF regs[wi][x[2]] = x[3] THEN 1 ELSE 0
      [] x[1] = "flag" -> FlagValue(case, wi, x[2], regs[wi])
      [] OTHER -> x[2]
Address(wi, a) ==
    IF a[1] = "flag" THEN Global("output", FlagIndex(case, wi, a[2], regs[wi])) ELSE a

At(wi) == Code(wi)[pc[wi]]
Ended(wi) == pc[wi] > Len(Code(wi))
AllWaves(c) == {WaveOf(c, wi) : wi \in WorkItems(c)}
ItemsOfWave(c, w) == {wi \in WorkItems(c) : WaveOf(c, wi) = w}
ItemsOfGroup(c, g) == {wi \in WorkItems(c) : GroupOf(c, wi) = g}

Blocked(wi) ==
    \E gf \in DOMAIN fbar : WaveOf(case, wi) \in fbar[gf].waiting
CanRun(wi) == ~undef /\ ~Ended(wi) /\ ~Blocked(wi)
IsAt(wi, op) == CanRun(wi) /\ At(wi).op = op
-----------------------------------------------------------------------------
NoFbarrier == [init |-> FALSE, members |-> {}, arrived |-> {}, waiting |-> {}]

Init ==
    /\ case \in Cases
    /\ pc = [wi \in WorkItems(case) |-> 1]
    /\ regs = [wi \in WorkItems(case) |-> [r \in 1..2 |-> Undef]]
    /\ mem = [a \in Addresses(case) |-> InitialMemory(case, a)]
    /\ fbar = [gf \in Groups(case) \X Fbarriers(case) |-> NoFbarrier]
    /\ undef = FALSE

\* The work-items of W go on to their next instructions.
GoOn(W) == pc' = [wi \in DOMAIN pc |-> IF wi \in W THEN pc[wi] + 1 ELSE pc[wi]]

\* ld and st.
Load(wi) ==
    /\ IsAt(wi, "ld")
    /\ regs' = [regs EXCEPT ![wi][At(wi).dst] = mem[At(wi).addr]]
    /\ GoOn({wi})
    /\ UNCHANGED <<case, mem, fbar, undef>>

Store(wi) ==
    /\ IsAt(wi, "st")
    /\ mem' = [mem EXCEPT ![At(wi).addr] = Value(wi, At(wi).x)]
    /\ GoOn({wi})
    /\ UNCHANGED <<case, regs, fbar, undef>>

\* An atomic operation.
DoAtomic(wi) ==
    /\ IsAt(wi, "atomic")
    /\ LET i == At(wi)
           a == Address(wi, i.addr)
       IN  /\ regs' = IF i.dst = NoReg THEN regs ELSE [regs EXCEPT ![wi][i.dst] = mem[a]]
           /\ mem' = [mem EXCEPT ![a] =
                        Atomically(i.fun, mem[a], Value(wi, i.x), Value(wi, i.y))]
    /\ GoOn({wi})
    /\ UNCHANGED <<case, fbar, undef>>

\* A loop ends: it is fair that its load sees what was stored.
LeaveLoop(wi) ==
    /\ IsAt(wi, "until")
    /\ Compare(At(wi).cmp, mem[At(wi).addr], Value(wi, At(wi).x))
    /\ GoOn({wi})
    /\ UNCHANGED <<case, regs, mem, fbar, undef>>

\* barrier and wavebarrier: all work-items of the group or wavefront.
DoBarrier(g) ==
    /\ \A wi \in ItemsOfGroup(case, g) : IsAt(wi, "barrier")
    /\ GoOn(ItemsOfGroup(case, g))
    /\ UNCHANGED <<case, regs, mem, fbar, undef>>

DoWaveBarrier(w) ==
    /\ \A wi \in ItemsOfWave(case, w) : IsAt(wi, "wavebarrier")
    /\ GoOn(ItemsOfWave(case, w))
    /\ UNCHANGED <<case, regs, mem, fbar, undef>>

\* initfbar and releasefbar.
InitFbarrier(wi) ==
    /\ IsAt(wi, "initfbar")
    /\ LET gf == <<GroupOf(case, wi), At(wi).fb>>
       IN  /\ undef' = fbar[gf].init
           /\ fbar' = [fbar EXCEPT ![gf].init = TRUE]
    /\ GoOn({wi})
    /\ UNCHANGED <<case, regs, mem>>

ReleaseFbarrier(wi) ==
    /\ IsAt(wi, "releasefbar")
    /\ LET gf == <<GroupOf(case, wi), At(wi).fb>>
       IN  /\ undef' = (~fbar[gf].init \/ fbar[gf].members # {})
           /\ fbar' = [fbar EXCEPT ![gf].init = FALSE]
    /\ GoOn({wi})
    /\ UNCHANGED <<case, regs, mem>>

\* joinfbar, leavefbar, arrivefbar and waitfbar of a wavefront.  An fbarrier is
\* satisfied when all its members have arrived; then those that wait go on.
Fbarrier(b, kind, w) ==
    LET members == CASE kind = "join" -> b.members \cup {w}
                     [] kind = "leave" -> b.members \ {w}
                     [] OTHER -> b.members
        arrived == CASE kind \in {"wait", "arrive"} -> b.arrived \cup {w}
                     [] kind = "leave" -> b.arrived \ {w}
                     [] OTHER -> b.arrived
        satisfied == kind # "join" /\ members \subseteq arrived
    IN  [init |-> b.init, members |-> members,
         arrived |-> IF satisfied THEN {} ELSE arrived,
         waiting |-> IF satisfied THEN {}
                     ELSE IF kind = "wait" THEN b.waiting \cup {w} ELSE b.waiting]

FbarrierDefined(b, kind, w) ==
    /\ b.init
    /\ w \in b.members <=> kind # "join"
    /\ w \notin b.arrived

DoFbarrier(w) ==
    LET items == ItemsOfWave(case, w)
        i == At(CHOOSE wi \in items : TRUE)
        gf == <<w[1], i.fb>>
    IN  /\ \A wi \in items : IsAt(wi, "fbar") /\ At(wi) = i
        /\ undef' = ~FbarrierDefined(fbar[gf], i.kind, w)
        /\ fbar' = [fbar EXCEPT ![gf] = Fbarrier(@, i.kind, w)]
        /\ GoOn(items)
        /\ UNCHANGED <<case, regs, mem>>

AllEnded == \A wi \in WorkItems(case) : Ended(wi)

Next ==
    \/ \E wi \in WorkItems(case) :
          \/ Load(wi) \/ Store(wi) \/ DoAtomic(wi) \/ LeaveLoop(wi)
          \/ InitFbarrier(wi) \/ ReleaseFbarrier(wi)
    \/ \E g \in Groups(case) : DoBarrier(g)
    \/ \E w \in AllWaves(case) : DoWaveBarrier(w) \/ DoFbarrier(w)

\* The agent makes progress with every work-item that can go on: the tests are
\* finite, so that it is enough that something runs.
Spec == Init /\ [][Next]_vars /\ WF_vars(Next)
-----------------------------------------------------------------------------
TypeOK ==
    /\ case \in Cases
    /\ \A wi \in WorkItems(case) : pc[wi] \in 1..(Len(Code(wi)) + 1)
    /\ \A a \in DOMAIN mem : mem[a] \in Int
    /\ \A gf \in DOMAIN fbar :
          /\ fbar[gf].waiting \subseteq fbar[gf].arrived
          /\ fbar[gf].arrived \subseteq AllWaves(case)
    /\ undef \in BOOLEAN

(* A conforming agent passes: when the work-items have ended, every element *)
(* of the output is what the host expects, whatever the interleaving.       *)
ResultsExpected ==
    AllEnded => \A a \in DOMAIN Expected(case) : mem[a] = Expected(case)[a]

(* No two work-items can at the same time access a location, one of them   *)
(* changing it and one of them not with an atomic operation: the tests may  *)
(* only rely on what the memory model defines.  The work-items of the last  *)
(* wavefront of a fence test all store the same value: a store of what the  *)
(* memory holds counts here as no change.                                   *)
Accesses(wi, ops) == CanRun(wi) /\ At(wi).op \in ops
Location(wi) == Address(wi, At(wi).addr)
Changes(wi) ==
    \/ At(wi).op = "st" /\ Value(wi, At(wi).x) # mem[At(wi).addr]
    \/ At(wi).op = "atomic" /\ At(wi).fun # "ld"
SameStore(v, w) ==
    At(v).op = "st" /\ At(w).op = "st" /\ Value(v, At(v).x) = Value(w, At(w).x)
NoRace ==
    \A v, w \in WorkItems(case) :
        (/\ v # w
         /\ Accesses(v, {"ld", "st"}) /\ Accesses(w, {"ld", "st", "atomic", "until"})
         /\ Location(v) = Location(w))
        => (Changes(v) \/ Changes(w) => SameStore(v, w))

(* The tests use fbarriers as the language allows: an fbarrier is           *)
(* initialised once and released without members, a wavefront joins once,   *)
(* waits and arrives as a member, and does not arrive again before the      *)
(* fbarrier is satisfied.                                                   *)
FbarriersDefined == ~undef

(* Every work-item of every test reaches its end.                           *)
Ends == <>AllEnded
=============================================================================
