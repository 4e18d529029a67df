----------------------- MODULE KernelExecution_proofs -----------------------
(***************************************************************************)
(* What the run `kernels' checks on few work-items, for every geometry in  *)
(* which the tests are made: the tests of memory fences, those of barriers *)
(* with the operations that count or choose, and the tests of fbarriers in *)
(* which every wavefront takes the same part.                              *)
(*                                                                         *)
(* Of each test: its program as a list of instructions (...Program), what  *)
(* a work-item does at each of them (...Steps), an inductive invariant     *)
(* (...Inv, ...Dispatched, ...Kept), and what follows from it (...Results, *)
(* ...Races).                                                              *)
(***************************************************************************)
EXTENDS KernelExecution, NaturalNumbers, SequenceTheorems, FiniteSetTheorems, TLAPS

(* Sequences: what a concatenation consists of, one fact at a time.         *)
LEMMA ConcatLen ==
  ASSUME NEW S, NEW s \in Seq(S), NEW t \in Seq(S)
  PROVE  Len(s \o t) = Len(s) + Len(t)
OBVIOUS
LEMMA ConcatLeft ==
  ASSUME NEW S, NEW s \in Seq(S), NEW t \in Seq(S)
  PROVE  \A i \in 1..Len(s) : (s \o t)[i] = s[i]
OBVIOUS
LEMMA ConcatRight ==
  ASSUME NEW S, NEW s \in Seq(S), NEW t \in Seq(S)
  PROVE  \A i \in 1..Len(t) : (s \o t)[i + Len(s)] = t[i]
OBVIOUS

(* Instruction after instruction, a program is the list of them.           *)
Then(p, e) == p \o <<e>>
Begins(S, u, k, p) == p \in Seq(S) /\ Len(p) = k /\ \A i \in 1..k : p[i] = u[i]

LEMMA Appended ==
  ASSUME NEW S, NEW u \in Seq(S)
  PROVE  \A k \in Nat : \A p, e : k + 1 <= Len(u) /\ Begins(S, u, k, p) /\ u[k + 1] = e
                               => Begins(S, u, k + 1, Then(p, e))
<1> SUFFICES ASSUME NEW k \in Nat, NEW p, NEW e,
                    k + 1 <= Len(u), Begins(S, u, k, p), u[k + 1] = e
             PROVE  Begins(S, u, k + 1, Then(p, e))
  OBVIOUS
<1> DEFINE t == <<e>>  q == p \o t
<1>0. p \in Seq(S) /\ Len(p) = k /\ (\A i \in 1..k : p[i] = u[i]) /\ e \in S
  <2>1. k + 1 \in 1..Len(u)
    BY LenProperties
  <2> QED
    BY <2>1, ElementOfSeq DEF Begins
<1>1. t \in Seq(S) /\ Len(t) = 1 /\ t[1] = e
  BY <1>0
<1> HIDE DEF t
<1>2. q \in Seq(S)
  BY <1>0, <1>1, ConcatProperties
<1>3. Len(q) = Len(p) + Len(t)
  BY <1>0, <1>1, ConcatLen
<1>4. \A i \in 1..Len(t) : q[i + Len(p)] = t[i]
  <2>1. p \in Seq(S) /\ t \in Seq(S)
    BY <1>0, <1>1
  <2> QED
    BY <2>1, ConcatRight
<1>5. \A i \in 1..Len(p) : q[i] = p[i]
  BY <1>0, <1>1, ConcatLeft
<1> HIDE DEF q
<1>6. q[1 + k] = e
  BY <1>0, <1>1, <1>4
<1>7. \A i \in 1..(k + 1) : q[i] = u[i]
  BY <1>0, <1>5, <1>6
<1> QED
  BY <1>0, <1>1, <1>2, <1>3, <1>7 DEF Begins, Then, q, t

LEMMA Code3 ==
  \A a1, a2, a3 :
      <<a1>> \o <<a2>> \o <<a3>>
      = <<a1, a2, a3>>
<1> TAKE a1, a2, a3
<1> DEFINE S == {a1, a2, a3}  u == <<a1, a2, a3>>  p1 == <<a1>>
           p2 == Then(p1, a2)
           p3 == Then(p2, a3)
<1>0. u \in Seq(S) /\ Len(u) = 3 /\ u[1] = a1 /\ u[2] = a2 /\ u[3] = a3
  OBVIOUS
<1>1. Begins(S, u, 1, p1)
  BY DEF Begins
<1> HIDE DEF S, u, p1
<1>n. \A k \in 1..2 : \A p, e : Begins(S, u, k, p) /\ u[k + 1] = e => Begins(S, u, k + 1, Then(p, e))
  <2>1. \A k \in 1..2 : k \in Nat /\ k + 1 <= Len(u)
    BY <1>0
  <2> QED
    BY <1>0, <2>1, Appended, Zenon
<1>2. Begins(S, u, 2, p2)
  BY <1>0, <1>1, <1>n
<1> HIDE DEF p2
<1>3. Begins(S, u, 3, p3)
  BY <1>0, <1>2, <1>n
<1> HIDE DEF p3
<1> QED
  BY <1>0, <1>3, SeqEqual DEF Begins, Then, u, p1, p2, p3

LEMMA Code4 ==
  \A a1, a2, a3, a4 :
      <<a1>> \o <<a2>> \o <<a3>> \o <<a4>>
      = <<a1, a2, a3, a4>>
<1> TAKE a1, a2, a3, a4
<1> DEFINE S == {a1, a2, a3, a4}  u == <<a1, a2, a3, a4>>  p1 == <<a1>>
           p2 == Then(p1, a2)
           p3 == Then(p2, a3)
           p4 == Then(p3, a4)
<1>0. u \in Seq(S) /\ Len(u) = 4 /\ u[1] = a1 /\ u[2] = a2 /\ u[3] = a3 /\ u[4] = a4
  OBVIOUS
<1>1. Begins(S, u, 1, p1)
  BY DEF Begins
<1> HIDE DEF S, u, p1
<1>n. \A k \in 1..3 : \A p, e : Begins(S, u, k, p) /\ u[k + 1] = e => Begins(S, u, k + 1, Then(p, e))
  <2>1. \A k \in 1..3 : k \in Nat /\ k + 1 <= Len(u)
    BY <1>0
  <2> QED
    BY <1>0, <2>1, Appended, Zenon
<1>2. Begins(S, u, 2, p2)
  BY <1>0, <1>1, <1>n
<1> HIDE DEF p2
<1>3. Begins(S, u, 3, p3)
  BY <1>0, <1>2, <1>n
<1> HIDE DEF p3
<1>4. Begins(S, u, 4, p4)
  BY <1>0, <1>3, <1>n
<1> HIDE DEF p4
<1> QED
  BY <1>0, <1>4, SeqEqual DEF Begins, Then, u, p1, p2, p3, p4

LEMMA Code5 ==
  \A a1, a2, a3, a4, a5 :
      <<a1>> \o <<a2>> \o <<a3>> \o <<a4>> \o <<a5>>
      = <<a1, a2, a3, a4, a5>>
<1> TAKE a1, a2, a3, a4, a5
<1> DEFINE S == {a1, a2, a3, a4, a5}  u == <<a1, a2, a3, a4, a5>>  p1 == <<a1>>
           p2 == Then(p1, a2)
           p3 == Then(p2, a3)
           p4 == Then(p3, a4)
           p5 == Then(p4, a5)
<1>0. u \in Seq(S) /\ Len(u) = 5 /\ u[1] = a1 /\ u[2] = a2 /\ u[3] = a3 /\ u[4] = a4 /\ u[5] = a5
  OBVIOUS
<1>1. Begins(S, u, 1, p1)
  BY DEF Begins
<1> HIDE DEF S, u, p1
<1>n. \A k \in 1..4 : \A p, e : Begins(S, u, k, p) /\ u[k + 1] = e => Begins(S, u, k + 1, Then(p, e))
  <2>1. \A k \in 1..4 : k \in Nat /\ k + 1 <= Len(u)
    BY <1>0
  <2> QED
    BY <1>0, <2>1, Appended, Zenon
<1>2. Begins(S, u, 2, p2)
  BY <1>0, <1>1, <1>n
<1> HIDE DEF p2
<1>3. Begins(S, u, 3, p3)
  BY <1>0, <1>2, <1>n
<1> HIDE DEF p3
<1>4. Begins(S, u, 4, p4)
  BY <1>0, <1>3, <1>n
<1> HIDE DEF p4
<1>5. Begins(S, u, 5, p5)
  BY <1>0, <1>4, <1>n
<1> HIDE DEF p5
<1> QED
  BY <1>0, <1>5, SeqEqual DEF Begins, Then, u, p1, p2, p3, p4, p5

LEMMA Code6 ==
  \A a1, a2, a3, a4, a5, a6 :
      <<a1>> \o <<a2>> \o <<a3>> \o <<a4>> \o <<a5>> \o <<a6>>
      = <<a1, a2, a3, a4, a5, a6>>
<1> TAKE a1, a2, a3, a4, a5, a6
<1> DEFINE S == {a1, a2, a3, a4, a5, a6}  u == <<a1, a2, a3, a4, a5, a6>>  p1 == <<a1>>
           p2 == Then(p1, a2)
           p3 == Then(p2, a3)
           p4 == Then(p3, a4)
           p5 == Then(p4, a5)
           p6 == Then(p5, a6)
<1>0. u \in Seq(S) /\ Len(u) = 6 /\ u[1] = a1 /\ u[2] = a2 /\ u[3] = a3 /\ u[4] = a4 /\ u[5] = a5 /\ u[6] = a6
  OBVIOUS
<1>1. Begins(S, u, 1, p1)
  BY DEF Begins
<1> HIDE DEF S, u, p1
<1>n. \A k \in 1..5 : \A p, e : Begins(S, u, k, p) /\ u[k + 1] = e => Begins(S, u, k + 1, Then(p, e))
  <2>1. \A k \in 1..5 : k \in Nat /\ k + 1 <= Len(u)
    BY <1>0
  <2> QED
    BY <1>0, <2>1, Appended, Zenon
<1>2. Begins(S, u, 2, p2)
  BY <1>0, <1>1, <1>n
<1> HIDE DEF p2
<1>3. Begins(S, u, 3, p3)
  BY <1>0, <1>2, <1>n
<1> HIDE DEF p3
<1>4. Begins(S, u, 4, p4)
  BY <1>0, <1>3, <1>n
<1> HIDE DEF p4
<1>5. Begins(S, u, 5, p5)
  BY <1>0, <1>4, <1>n
<1> HIDE DEF p5
<1>6. Begins(S, u, 6, p6)
  BY <1>0, <1>5, <1>n
<1> HIDE DEF p6
<1> QED
  BY <1>0, <1>6, SeqEqual DEF Begins, Then, u, p1, p2, p3, p4, p5, p6

\* The same, with names for the two sides.
Joined6(a1, a2, a3, a4, a5, a6) ==
    <<a1>> \o <<a2>> \o <<a3>> \o <<a4>> \o <<a5>> \o <<a6>>
Listed6(a1, a2, a3, a4, a5, a6) ==
    <<a1, a2, a3, a4, a5, a6>>
LEMMA Program6 == \A a1, a2, a3, a4, a5, a6 : Joined6(a1, a2, a3, a4, a5, a6) = Listed6(a1, a2, a3, a4, a5, a6)
BY Code6, Zenon DEF Joined6, Listed6
-----------------------------------------------------------------------------
Basic ==
    /\ case \in Cases
    /\ pc \in [WorkItems(case) -> Nat]
    /\ regs = [wi \in WorkItems(case) |-> regs[wi]]
    /\ \A wi \in WorkItems(case) : regs[wi] = [r \in 1..2 |-> regs[wi][r]]
    /\ mem = [a \in Addresses(case) |-> mem[a]]
    /\ fbar = [gf \in Groups(case) \X Fbarriers(case) |-> fbar[gf]]

LEMMA GeometryTypes ==
  ASSUME NEW c \in Cases
  PROVE  /\ GridSize(c) \in Nat \ {0}
         /\ WorkItems(c) \subseteq Nat
         /\ \A wi \in WorkItems(c) :
               /\ wi \in Int /\ 0 <= wi /\ wi < GridSize(c)
               /\ GroupOf(c, wi) \in Groups(c)
               /\ FlatId(c, wi) \in 0..(c.size - 1)
               /\ wi = GroupOf(c, wi) * c.size + FlatId(c, wi)
<1>1. /\ c.groups \in Nat \ {0} /\ c.size \in Nat \ {0} /\ c.wave \in Nat \ {0}
      /\ c.last \in 1..c.size
  BY CasesAssumption
<1> DEFINE g == c.groups  s == c.size  l == c.last
<1>2. g \in Nat /\ g >= 1 /\ s \in Nat /\ s >= 1 /\ l \in Nat /\ l >= 1 /\ l <= s
  BY <1>1
<1> HIDE DEF g, s, l
<1>3. (g - 1) * s \in Nat /\ (g - 1) * s + l <= g * s
  BY <1>2
<1>4. GridSize(c) = (g - 1) * s + l
  BY DEF GridSize, g, s, l
<1>5. GridSize(c) \in Nat \ {0} /\ GridSize(c) <= g * s
  BY <1>2, <1>3, <1>4
<1>6. ASSUME NEW wi \in WorkItems(c)
      PROVE  /\ wi \in Int /\ 0 <= wi /\ wi < GridSize(c)
             /\ GroupOf(c, wi) \in Groups(c)
             /\ FlatId(c, wi) \in 0..(c.size - 1)
             /\ wi = GroupOf(c, wi) * c.size + FlatId(c, wi)
  <2>1. wi \in Nat /\ wi < GridSize(c)
    BY <1>5, <1>6 DEF WorkItems
  <2>2. wi < g * s
    BY <2>1, <1>5, <1>2
  <2> DEFINE q == wi \div s  r == wi % s
  <2>3. q \in Int /\ r \in 0..(s - 1) /\ wi = q * s + r
    BY <2>1, <1>2, DivMod
  <2>4. 0 <= q /\ q < g
    <3> HIDE DEF q, r
    <3>1. CASE q < 0
      <4>1. q * s <= (-1) * s BY <3>1, <2>3, <1>2
      <4> QED BY <4>1, <2>1, <2>3, <1>2
    <3>2. CASE q >= g
      <4>1. q * s >= g * s BY <3>2, <2>3, <1>2
      <4> QED BY <4>1, <2>2, <2>3, <1>2, <2>1
    <3> QED BY <3>1, <3>2, <2>3, <1>2
  <2>5. GroupOf(c, wi) = q /\ FlatId(c, wi) = r
    BY DEF GroupOf, FlatId, s
  <2> HIDE DEF q, r
  <2>6. q \in 0..(g - 1)
    BY <2>3, <2>4, <1>2
  <2> QED BY <2>1, <2>3, <2>5, <2>6 DEF Groups, g, s
<1> QED
  BY <1>5, <1>6 DEF WorkItems

LEMMA Moves ==
  ASSUME Basic, NEW W, GoOn(W)
  PROVE  /\ pc' \in [WorkItems(case) -> Nat]
         /\ \A wi \in WorkItems(case) : pc'[wi] = IF wi \in W THEN pc[wi] + 1 ELSE pc[wi]
BY DEF Basic, GoOn

LEMMA Dispatched == Init => Basic
<1> SUFFICES ASSUME Init PROVE Basic
  OBVIOUS
<1>1. case \in Cases /\ pc \in [WorkItems(case) -> Nat]
  BY DEF Init
<1>2. /\ regs = [wi \in WorkItems(case) |-> regs[wi]]
      /\ \A wi \in WorkItems(case) : regs[wi] = [r \in 1..2 |-> regs[wi][r]]
  BY DEF Init
<1>3. mem = [a \in Addresses(case) |-> mem[a]]
  BY DEF Init
<1>4. fbar = [gf \in Groups(case) \X Fbarriers(case) |-> fbar[gf]]
  BY DEF Init
<1> QED
  BY <1>1, <1>2, <1>3, <1>4 DEF Basic

LEMMA BasicKept == Basic /\ [Next]_vars => Basic' /\ case' = case
<1> SUFFICES ASSUME Basic, [Next]_vars PROVE Basic' /\ case' = case
  OBVIOUS
<1> DEFINE I == WorkItems(case)
<1>1. ASSUME NEW wi \in I, Load(wi) PROVE Basic' /\ case' = case
  <2>1. pc' \in [I -> Nat] BY <1>1, Moves DEF Load
  <2> QED BY <1>1, <2>1 DEF Load, Basic
<1>2. ASSUME NEW wi \in I, Store(wi) PROVE Basic' /\ case' = case
  <2>1. pc' \in [I -> Nat] BY <1>2, Moves DEF Store
  <2> QED BY <1>2, <2>1 DEF Store, Basic
<1>3. ASSUME NEW wi \in I, DoAtomic(wi) PROVE Basic' /\ case' = case
  <2>1. pc' \in [I -> Nat] BY <1>3, Moves DEF DoAtomic
  <2> DEFINE i == At(wi)  a == Address(wi, i.addr)
  <2>2. /\ regs' = IF i.dst = NoReg THEN regs ELSE [regs EXCEPT ![wi][i.dst] = mem[a]]
        /\ mem' = [mem EXCEPT ![a] =
                        Atomically(i.fun, mem[a], Value(wi, i.x), Value(wi, i.y))]
        /\ UNCHANGED <<case, fbar, undef>>
    BY <1>3 DEF DoAtomic
  <2> HIDE DEF i, a
  <2> QED BY <2>1, <2>2 DEF Basic
<1>4. ASSUME NEW wi \in I, LeaveLoop(wi) PROVE Basic' /\ case' = case
  <2>1. pc' \in [I -> Nat] BY <1>4, Moves DEF LeaveLoop
  <2> QED BY <1>4, <2>1 DEF LeaveLoop, Basic
<1>5. ASSUME NEW wi \in I, InitFbarrier(wi) PROVE Basic' /\ case' = case
  <2>1. pc' \in [I -> Nat] BY <1>5, Moves DEF InitFbarrier
  <2>2. fbar' = [gf \in Groups(case) \X Fbarriers(case) |-> fbar'[gf]] /\ UNCHANGED <<case, regs, mem>>
    BY <1>5 DEF InitFbarrier, Basic
  <2> QED BY <2>1, <2>2 DEF Basic
<1>6. ASSUME NEW wi \in I, ReleaseFbarrier(wi) PROVE Basic' /\ case' = case
  <2>1. pc' \in [I -> Nat] BY <1>6, Moves DEF ReleaseFbarrier
  <2>2. fbar' = [gf \in Groups(case) \X Fbarriers(case) |-> fbar'[gf]] /\ UNCHANGED <<case, regs, mem>>
    BY <1>6 DEF ReleaseFbarrier, Basic
  <2> QED BY <2>1, <2>2 DEF Basic
<1>7. ASSUME NEW g \in Groups(case), DoBarrier(g) PROVE Basic' /\ case' = case
  <2>1. pc' \in [I -> Nat] BY <1>7, Moves DEF DoBarrier
  <2> QED BY <1>7, <2>1 DEF DoBarrier, Basic
<1>8. ASSUME NEW w \in AllWaves(case), DoWaveBarrier(w) PROVE Basic' /\ case' = case
  <2>1. pc' \in [I -> Nat] BY <1>8, Moves DEF DoWaveBarrier
  <2> QED BY <1>8, <2>1 DEF DoWaveBarrier, Basic
<1>9. ASSUME NEW w \in AllWaves(case), DoFbarrier(w) PROVE Basic' /\ case' = case
  <2>1. pc' \in [I -> Nat] BY <1>9, Moves DEF DoFbarrier
  <2> DEFINE f == <<w[1], At(CHOOSE wi \in ItemsOfWave(case, w) : TRUE).fb>>
             b == Fbarrier(fbar[f], At(CHOOSE wi \in ItemsOfWave(case, w) : TRUE).kind, w)
  <2>3. fbar' = [fbar EXCEPT ![f] = b] /\ UNCHANGED <<case, regs, mem>>
    BY <1>9 DEF DoFbarrier
  <2> HIDE DEF f, b
  <2>2. fbar' = [gf \in Groups(case) \X Fbarriers(case) |-> fbar'[gf]] /\ UNCHANGED <<case, regs, mem>>
    BY <2>3 DEF Basic
  <2> QED BY <2>1, <2>2 DEF Basic
<1>10. CASE UNCHANGED vars
  BY <1>10 DEF vars, Basic
<1> QED
  BY <1>1, <1>2, <1>3, <1>4, <1>5, <1>6, <1>7, <1>8, <1>9, <1>10 DEF Next
-----------------------------------------------------------------------------
LEMMA CodeIs ==
  ASSUME Basic, NEW wi \in WorkItems(case)
  PROVE  Code(wi) = Program(case, wi)
BY DEF Basic, Code, Programs

\* What a program accesses is in memory.
LEMMA InMemory ==
  ASSUME NEW c, NEW wi \in WorkItems(c), NEW n \in DOMAIN Program(c, wi),
         "addr" \in DOMAIN Program(c, wi)[n], Program(c, wi)[n].addr[1] # "flag"
  PROVE  Program(c, wi)[n].addr \in Addresses(c)
<1> DEFINE i == Program(c, wi)[n]
<1>1. i \in Instructions(c)
  BY DEF Instructions, Range
<1> QED
  BY <1>1 DEF Addresses

\* A work-item goes on alone.
LEMMA GoesOn ==
  ASSUME Basic, NEW wi \in WorkItems(case), GoOn({wi})
  PROVE  pc' = [pc EXCEPT ![wi] = pc[wi] + 1]
BY DEF Basic, GoOn

\* The steps of one work-item.
Runs(wi) ==
    \/ Load(wi) \/ Store(wi) \/ DoAtomic(wi) \/ LeaveLoop(wi)
    \/ InitFbarrier(wi) \/ ReleaseFbarrier(wi)

LEMMA RunsOn ==
  ASSUME Basic, NEW wi \in WorkItems(case), Runs(wi)
  PROVE  /\ pc' = [pc EXCEPT ![wi] = pc[wi] + 1]
         /\ ~Ended(wi) /\ ~undef
         /\ At(wi).op \in {"ld", "st", "atomic", "until", "initfbar", "releasefbar"}
<1>1. GoOn({wi})
  BY DEF Runs, Load, Store, DoAtomic, LeaveLoop, InitFbarrier, ReleaseFbarrier
<1>2. /\ CanRun(wi)
      /\ At(wi).op \in {"ld", "st", "atomic", "until", "initfbar", "releasefbar"}
  BY DEF Runs, Load, Store, DoAtomic, LeaveLoop, InitFbarrier, ReleaseFbarrier, IsAt
<1> QED
  BY <1>1, <1>2, GoesOn DEF CanRun

LEMMA Loads ==
  ASSUME NEW wi, Runs(wi), NEW r, NEW a, At(wi) = [op |-> "ld", dst |-> r, addr |-> a]
  PROVE  /\ regs' = [regs EXCEPT ![wi][r] = mem[a]]
         /\ UNCHANGED <<case, mem, fbar, undef>>
BY DEF Runs, Load, Store, DoAtomic, LeaveLoop, InitFbarrier, ReleaseFbarrier, IsAt

LEMMA Stores ==
  ASSUME NEW wi, Runs(wi), NEW a, NEW x, At(wi) = [op |-> "st", addr |-> a, x |-> x]
  PROVE  /\ mem' = [mem EXCEPT ![a] = Value(wi, x)]
         /\ UNCHANGED <<case, regs, fbar, undef>>
BY DEF Runs, Load, Store, DoAtomic, LeaveLoop, InitFbarrier, ReleaseFbarrier, IsAt

LEMMA LeavesLoop ==
  ASSUME NEW wi, Runs(wi), NEW a, NEW cmp, NEW x,
         At(wi) = [op |-> "until", addr |-> a, cmp |-> cmp, x |-> x]
  PROVE  /\ Compare(cmp, mem[a], Value(wi, x))
         /\ UNCHANGED <<case, regs, mem, fbar, undef>>
BY DEF Runs, Load, Store, DoAtomic, LeaveLoop, InitFbarrier, ReleaseFbarrier, IsAt

LEMMA LeavesLoopEqual ==
  ASSUME NEW wi, Runs(wi), NEW a, NEW n,
         At(wi) = [op |-> "until", addr |-> a, cmp |-> "eq", x |-> <<"imm", n>>]
  PROVE  mem[a] = n /\ UNCHANGED <<case, regs, mem, fbar, undef>>
<1>1. Value(wi, <<"imm", n>>) = n
  BY DEF Value
<1>2. Compare("eq", mem[a], n)
  BY <1>1, LeavesLoop
<1>3. mem[a] = n
  BY <1>2 DEF Compare
<1> QED
  BY <1>3, LeavesLoop

LEMMA Fetches ==
  ASSUME NEW wi, Runs(wi), NEW f, NEW r, NEW a, NEW x, NEW y,
         At(wi) = [op |-> "atomic", fun |-> f, dst |-> r, addr |-> a, x |-> x, y |-> y],
         a[1] # "flag"
  PROVE  /\ mem' = [mem EXCEPT ![a] = Atomically(f, mem[a], Value(wi, x), Value(wi, y))]
         /\ regs' = IF r = NoReg THEN regs ELSE [regs EXCEPT ![wi][r] = mem[a]]
         /\ UNCHANGED <<case, fbar, undef>>
<1>1. DoAtomic(wi)
  BY DEF Runs, Load, Store, DoAtomic, LeaveLoop, InitFbarrier, ReleaseFbarrier, IsAt
<1>2. Address(wi, a) = a
  BY DEF Address
<1> QED
  BY <1>1, <1>2 DEF DoAtomic

\* An atomic store of a constant, and an atomic load.
LEMMA AtomicStores ==
  ASSUME NEW wi, Runs(wi), NEW a, NEW n,
         At(wi) = [op |-> "atomic", fun |-> "st", dst |-> 0, addr |-> a,
                   x |-> <<"imm", n>>, y |-> <<"imm", 0>>],
         a[1] # "flag"
  PROVE  mem' = [mem EXCEPT ![a] = n] /\ UNCHANGED <<case, regs, fbar, undef>>
<1>1. Value(wi, <<"imm", n>>) = n
  BY DEF Value
<1>2. Atomically("st", mem[a], n, Value(wi, <<"imm", 0>>)) = n
  BY DEF Atomically
<1> QED
  BY <1>1, <1>2, Fetches DEF NoReg

LEMMA AtomicLoads ==
  ASSUME Basic, NEW wi, Runs(wi), NEW a, NEW r,
         At(wi) = [op |-> "atomic", fun |-> "ld", dst |-> r, addr |-> a,
                   x |-> <<"imm", 0>>, y |-> <<"imm", 0>>],
         a[1] # "flag", r # 0
  PROVE  mem' = mem /\ regs' = [regs EXCEPT ![wi][r] = mem[a]] /\ UNCHANGED <<case, fbar, undef>>
<1>1. Atomically("ld", mem[a], Value(wi, <<"imm", 0>>), Value(wi, <<"imm", 0>>)) = mem[a]
  BY DEF Atomically
<1>2. [mem EXCEPT ![a] = mem[a]] = mem
  BY DEF Basic
<1> QED
  BY <1>1, <1>2, Fetches DEF NoReg

\* Where a work-item stands, the program tells which step it may take.
LEMMA Alone ==
  ASSUME [Next]_vars
  PROVE  \/ UNCHANGED vars
         \/ \E wi \in WorkItems(case) : Runs(wi)
         \/ \E g \in Groups(case) : DoBarrier(g)
         \/ \E w \in AllWaves(case) : DoWaveBarrier(w) \/ DoFbarrier(w)
BY DEF Next, Runs
-----------------------------------------------------------------------------
\* Without barriers and fbarriers, a step is one of a work-item.
LEMMA RunsAlone ==
  ASSUME Basic, [Next]_vars,
         \A wi \in WorkItems(case) :
            ~Ended(wi) => At(wi).op \in {"ld", "st", "atomic", "until"}
  PROVE  UNCHANGED vars \/ \E wi \in WorkItems(case) : Runs(wi)
<1>1. ASSUME NEW W, W \subseteq WorkItems(case), NEW op,
             op \notin {"ld", "st", "atomic", "until"},
             \A wi \in W : IsAt(wi, op)
      PROVE  W = {}
  BY <1>1 DEF IsAt, CanRun
<1>2. ASSUME NEW g \in Groups(case), DoBarrier(g) PROVE UNCHANGED vars
  <2>1. ItemsOfGroup(case, g) = {}
    <3>1. ItemsOfGroup(case, g) \subseteq WorkItems(case)
      BY DEF ItemsOfGroup
    <3>2. \A wi \in ItemsOfGroup(case, g) : IsAt(wi, "barrier")
      BY <1>2 DEF DoBarrier
    <3> QED
      BY <1>1, <3>1, <3>2
  <2>2. GoOn({}) /\ UNCHANGED <<case, regs, mem, fbar, undef>>
    BY <1>2, <2>1 DEF DoBarrier
  <2> QED
    BY <2>2 DEF GoOn, Basic, vars
<1>3. ASSUME NEW w \in AllWaves(case), DoWaveBarrier(w) PROVE UNCHANGED vars
  <2>1. ItemsOfWave(case, w) = {}
    <3>1. ItemsOfWave(case, w) \subseteq WorkItems(case)
      BY DEF ItemsOfWave
    <3>2. \A wi \in ItemsOfWave(case, w) : IsAt(wi, "wavebarrier")
      BY <1>3 DEF DoWaveBarrier
    <3> QED
      BY <1>1, <3>1, <3>2
  <2>2. GoOn({}) /\ UNCHANGED <<case, regs, mem, fbar, undef>>
    BY <1>3, <2>1 DEF DoWaveBarrier
  <2> QED
    BY <2>2 DEF GoOn, Basic, vars
<1>4. ASSUME NEW w \in AllWaves(case), DoFbarrier(w) PROVE FALSE
  <2>1. PICK wi \in WorkItems(case) : WaveOf(case, wi) = w
    BY DEF AllWaves
  <2>2. wi \in ItemsOfWave(case, w)
    BY <2>1 DEF ItemsOfWave
  <2>3. IsAt(wi, "fbar")
    BY <1>4, <2>2 DEF DoFbarrier
  <2> QED
    BY <2>3 DEF IsAt, CanRun
<1> QED
  BY <1>2, <1>3, <1>4, Alone
-----------------------------------------------------------------------------
ArrayCode(c, wi) ==
    << [op |-> "st", addr |-> <<"fence_var", wi>>, x |-> <<"imm", wi>>],
       [op |-> "atomic", fun |-> "st", dst |-> 0, addr |-> <<"global_flag", wi>>,
        x |-> <<"imm", wi>>, y |-> <<"imm", 0>>],
       [op |-> "until", addr |-> <<"global_flag", Opposite(c, wi)>>, cmp |-> "eq",
        x |-> <<"imm", Opposite(c, wi)>>],
       [op |-> "ld", dst |-> 1, addr |-> <<"fence_var", Opposite(c, wi)>>],
       [op |-> "st", addr |-> <<"output", wi>>, x |-> <<"reg", 1>>] >>

LEMMA ArrayProgram ==
  ASSUME NEW c, c.test = "fence_array", NEW wi
  PROVE  Program(c, wi) = ArrayCode(c, wi)
<1>1. Program(c, wi) = MemoryFenceArray(c, wi)
  BY DEF Program
<1>2. MemoryFenceArray(c, wi) = ArrayCode(c, wi)
  <2> DEFINE i1 == [op |-> "st", addr |-> <<"fence_var", wi>>, x |-> <<"imm", wi>>]
             i2 == [op |-> "atomic", fun |-> "st", dst |-> 0, addr |-> <<"global_flag", wi>>,
                    x |-> <<"imm", wi>>, y |-> <<"imm", 0>>]
             i3 == [op |-> "until", addr |-> <<"global_flag", Opposite(c, wi)>>, cmp |-> "eq",
                    x |-> <<"imm", Opposite(c, wi)>>]
             i4 == [op |-> "ld", dst |-> 1, addr |-> <<"fence_var", Opposite(c, wi)>>]
             i5 == [op |-> "st", addr |-> <<"output", wi>>, x |-> <<"reg", 1>>]
  <2>1. MemoryFenceArray(c, wi) = <<i1>> \o <<i2>> \o <<i3>> \o <<i4>> \o <<i5>>
    BY DEF MemoryFenceArray, St, AtomicSt, Atomic, LoopUntil, Ld, StoreData,
           Global, Imm, Reg, FenceFlag, NoReg
  <2>2. ArrayCode(c, wi) = <<i1, i2, i3, i4, i5>>
    BY DEF ArrayCode
  <2> HIDE DEF i1, i2, i3, i4, i5
  <2>3. <<i1>> \o <<i2>> \o <<i3>> \o <<i4>> \o <<i5>> = <<i1, i2, i3, i4, i5>>
    BY Code5, Zenon
  <2> QED
    BY <2>1, <2>2, <2>3
<1> QED
  BY <1>1, <1>2

LEMMA ArrayInstructions ==
  ASSUME Basic, case.test = "fence_array", NEW wi \in WorkItems(case)
  PROVE  /\ Ended(wi) <=> pc[wi] > 5
         /\ pc[wi] = 1 => At(wi) = ArrayCode(case, wi)[1]
         /\ pc[wi] = 2 => At(wi) = ArrayCode(case, wi)[2]
         /\ pc[wi] = 3 => At(wi) = ArrayCode(case, wi)[3]
         /\ pc[wi] = 4 => At(wi) = ArrayCode(case, wi)[4]
         /\ pc[wi] = 5 => At(wi) = ArrayCode(case, wi)[5]
<1>1. Code(wi) = ArrayCode(case, wi)
  BY CodeIs, ArrayProgram
<1>2. Len(ArrayCode(case, wi)) = 5
  BY DEF ArrayCode
<1> QED
  BY <1>1, <1>2 DEF Ended, At

ArrayInv ==
    \A wi \in WorkItems(case) :
        /\ pc[wi] \in 1..6
        /\ pc[wi] > 1 => mem[<<"fence_var", wi>>] = wi
        /\ pc[wi] <= 2 => mem[<<"global_flag", wi>>] = case.flag
        /\ pc[wi] > 3 => pc[Opposite(case, wi)] > 2
        /\ pc[wi] = 5 => regs[wi][1] = Opposite(case, wi)
        /\ pc[wi] = 6 => mem[<<"output", wi>>] = Opposite(case, wi)

\* The kernel as an algorithm of five steps.
ArrayStep(wi) ==
    /\ pc' = [pc EXCEPT ![wi] = pc[wi] + 1]
    /\ \/ pc[wi] = 1 /\ mem' = [mem EXCEPT ![<<"fence_var", wi>>] = wi] /\ regs' = regs
       \/ pc[wi] = 2 /\ mem' = [mem EXCEPT ![<<"global_flag", wi>>] = wi] /\ regs' = regs
       \/ pc[wi] = 3 /\ mem[<<"global_flag", Opposite(case, wi)>>] = Opposite(case, wi)
          /\ mem' = mem /\ regs' = regs
       \/ pc[wi] = 4 /\ regs' = [regs EXCEPT ![wi][1] = mem[<<"fence_var", Opposite(case, wi)>>]] /\ mem' = mem
       \/ pc[wi] = 5 /\ mem' = [mem EXCEPT ![<<"output", wi>>] = regs[wi][1]] /\ regs' = regs

LEMMA ArraySteps ==
  ASSUME Basic, case.test = "fence_array", ArrayInv, NEW wi \in WorkItems(case), Runs(wi)
  PROVE  ArrayStep(wi) /\ undef' = undef
<1>1. pc[wi] \in 1..5
  <2>1. pc[wi] \in 1..6
    BY DEF ArrayInv
  <2>2. ~Ended(wi)
    BY RunsOn
  <2> QED
    BY <2>1, <2>2, ArrayInstructions
<1>2. pc' = [pc EXCEPT ![wi] = pc[wi] + 1]
  BY RunsOn
<1>3. CASE pc[wi] = 1
  <2>1. At(wi) = [op |-> "st", addr |-> <<"fence_var", wi>>, x |-> <<"imm", wi>>]
    BY <1>3, ArrayInstructions DEF ArrayCode
  <2> QED BY <2>1, <1>2, <1>3, Stores DEF ArrayStep, Value
<1>4. CASE pc[wi] = 2
  <2>1. At(wi) = [op |-> "atomic", fun |-> "st", dst |-> 0, addr |-> <<"global_flag", wi>>,
        x |-> <<"imm", wi>>, y |-> <<"imm", 0>>]
    BY <1>4, ArrayInstructions DEF ArrayCode
  <2> QED BY <2>1, <1>2, <1>4, AtomicStores DEF ArrayStep
<1>5. CASE pc[wi] = 3
  <2>1. At(wi) = [op |-> "until", addr |-> <<"global_flag", Opposite(case, wi)>>, cmp |-> "eq",
        x |-> <<"imm", Opposite(case, wi)>>]
    BY <1>5, ArrayInstructions DEF ArrayCode
  <2> QED BY <2>1, <1>2, <1>5, LeavesLoopEqual DEF ArrayStep
<1>6. CASE pc[wi] = 4
  <2>1. At(wi) = [op |-> "ld", dst |-> 1, addr |-> <<"fence_var", Opposite(case, wi)>>]
    BY <1>6, ArrayInstructions DEF ArrayCode
  <2> QED BY <2>1, <1>2, <1>6, Loads DEF ArrayStep
<1>7. CASE pc[wi] = 5
  <2>1. At(wi) = [op |-> "st", addr |-> <<"output", wi>>, x |-> <<"reg", 1>>]
    BY <1>7, ArrayInstructions DEF ArrayCode
  <2> QED BY <2>1, <1>2, <1>7, Stores DEF ArrayStep, Value
<1> QED
  BY <1>1, <1>3, <1>4, <1>5, <1>6, <1>7

LEMMA ArrayMemory ==
  ASSUME NEW c, c.test = "fence_array", NEW wi \in WorkItems(c)
  PROVE  /\ <<"fence_var", wi>> \in Addresses(c)
         /\ <<"global_flag", wi>> \in Addresses(c)
         /\ <<"output", wi>> \in Addresses(c)
<1>1. Program(c, wi) = ArrayCode(c, wi)
  BY ArrayProgram
<1>2. /\ DOMAIN ArrayCode(c, wi) = 1..5
      /\ ArrayCode(c, wi)[1].addr = <<"fence_var", wi>> /\ "addr" \in DOMAIN ArrayCode(c, wi)[1]
      /\ ArrayCode(c, wi)[2].addr = <<"global_flag", wi>> /\ "addr" \in DOMAIN ArrayCode(c, wi)[2]
      /\ ArrayCode(c, wi)[5].addr = <<"output", wi>> /\ "addr" \in DOMAIN ArrayCode(c, wi)[5]
  BY DEF ArrayCode
<1> HIDE DEF ArrayCode
<1> QED
  BY <1>1, <1>2, InMemory

LEMMA OppositeIsWorkItem ==
  ASSUME NEW c \in Cases, NEW wi \in WorkItems(c)
  PROVE  Opposite(c, wi) \in WorkItems(c) /\ Opposite(c, Opposite(c, wi)) = wi
<1>1. GridSize(c) \in Nat \ {0} /\ wi \in Int /\ 0 <= wi /\ wi < GridSize(c)
  BY GeometryTypes
<1> QED
  BY <1>1 DEF Opposite, WorkItems

LEMMA ArrayDispatched ==
  ASSUME Init, case.test = "fence_array"
  PROVE  ArrayInv
<1>1. Basic
  BY Dispatched
<1>2. ASSUME NEW wi \in WorkItems(case)
      PROVE  pc[wi] = 1 /\ mem[<<"global_flag", wi>>] = case.flag
  <2>1. <<"global_flag", wi>> \in Addresses(case)
    BY ArrayMemory
  <2>2. InitialMemory(case, <<"global_flag", wi>>) = case.flag
    BY DEF InitialMemory
  <2> QED
    BY <2>1, <2>2 DEF Init
<1>3. \A wi \in WorkItems(case) :
         pc[wi] = 1 /\ mem[<<"global_flag", wi>>] = case.flag
  BY <1>2
<1> SUFFICES ASSUME NEW wi \in WorkItems(case)
             PROVE  /\ pc[wi] \in 1..6
                    /\ pc[wi] > 1 => mem[<<"fence_var", wi>>] = wi
                    /\ pc[wi] <= 2 => mem[<<"global_flag", wi>>] = case.flag
                    /\ pc[wi] > 3 => pc[Opposite(case, wi)] > 2
                    /\ pc[wi] = 5 => regs[wi][1] = Opposite(case, wi)
                    /\ pc[wi] = 6 => mem[<<"output", wi>>] = Opposite(case, wi)
  BY DEF ArrayInv
<1> QED
  BY <1>3

LEMMA ArrayKept ==
  ASSUME Basic, case.test = "fence_array", case.flag \notin WorkItems(case),
         ArrayInv, [Next]_vars
  PROVE  ArrayInv'
<1>0. case' = case
  BY BasicKept
<1>1. UNCHANGED vars \/ \E wi \in WorkItems(case) : Runs(wi)
  <2>1. ASSUME NEW wi \in WorkItems(case), ~Ended(wi)
        PROVE  At(wi).op \in {"ld", "st", "atomic", "until"}
    <3>0. pc[wi] \in 1..6
      BY DEF ArrayInv
    <3>1. pc[wi] \in 1..5
      BY <2>1, <3>0, ArrayInstructions
    <3> QED
      BY <3>1, ArrayInstructions DEF ArrayCode
  <2> QED
    BY <2>1, RunsAlone
<1>2. CASE UNCHANGED vars
  BY <1>2 DEF vars, ArrayInv
<1>3. ASSUME NEW wi \in WorkItems(case), Runs(wi) PROVE ArrayInv'
  <2> DEFINE o == Opposite(case, wi)
  <2>0. wi \in WorkItems(case) /\ o \in WorkItems(case) /\ Opposite(case, o) = wi
    BY OppositeIsWorkItem DEF Basic
  <2>1. ArrayStep(wi)
    BY <1>3, ArraySteps
  <2>2. SUFFICES ASSUME NEW v \in WorkItems(case)
        PROVE  /\ pc'[v] \in 1..6
               /\ pc'[v] > 1 => mem'[<<"fence_var", v>>] = v
               /\ pc'[v] <= 2 => mem'[<<"global_flag", v>>] = case.flag
               /\ pc'[v] > 3 => pc'[Opposite(case, v)] > 2
               /\ pc'[v] = 5 => regs'[v][1] = Opposite(case, v)
               /\ pc'[v] = 6 => mem'[<<"output", v>>] = Opposite(case, v)
    BY <1>0 DEF ArrayInv
  <2>3. /\ <<"fence_var", v>> \in Addresses(case) /\ <<"global_flag", v>> \in Addresses(case)
        /\ <<"output", v>> \in Addresses(case)
    BY ArrayMemory
  <2>4. /\ Opposite(case, v) \in WorkItems(case) /\ Opposite(case, Opposite(case, v)) = v
        /\ Opposite(case, v) # case.flag
    BY OppositeIsWorkItem DEF Basic
  <2>5. /\ pc[v] \in 1..6
        /\ pc[v] > 1 => mem[<<"fence_var", v>>] = v
        /\ pc[v] <= 2 => mem[<<"global_flag", v>>] = case.flag
        /\ pc[v] > 3 => pc[Opposite(case, v)] > 2
        /\ pc[v] = 5 => regs[v][1] = Opposite(case, v)
        /\ pc[v] = 6 => mem[<<"output", v>>] = Opposite(case, v)
    BY DEF ArrayInv
  <2>6. /\ pc[Opposite(case, v)] \in 1..6
        /\ pc[Opposite(case, v)] > 1 => mem[<<"fence_var", Opposite(case, v)>>] = Opposite(case, v)
        /\ pc[Opposite(case, v)] <= 2 => mem[<<"global_flag", Opposite(case, v)>>] = case.flag
    BY <2>4 DEF ArrayInv
  <2>7. /\ \A u \in WorkItems(case) : pc'[u] = IF u = wi THEN pc[u] + 1 ELSE pc[u]
        /\ pc[wi] \in 1..5
    BY <2>1, <2>0 DEF ArrayStep, Basic
  <2>8. /\ DOMAIN regs[v] = 1..2 /\ DOMAIN regs = WorkItems(case) /\ DOMAIN mem = Addresses(case)
    BY DEF Basic
  <2>9. CASE v = wi
    BY <2>1, <2>3, <2>4, <2>5, <2>6, <2>7, <2>8, <2>9 DEF ArrayStep
  <2>10. CASE v # wi
    BY <2>1, <2>3, <2>4, <2>5, <2>6, <2>7, <2>8, <2>10 DEF ArrayStep
  <2> QED
    BY <2>9, <2>10
<1> QED
  BY <1>1, <1>2, <1>3

LEMMA ArrayResults ==
  ASSUME Basic, case.test = "fence_array", ArrayInv
  PROVE  ResultsExpected
<1> SUFFICES ASSUME AllEnded, NEW a \in DOMAIN Expected(case)
             PROVE  mem[a] = Expected(case)[a]
  BY DEF ResultsExpected
<1>1. a \in Addresses(case) /\ a[1] = "output"
  BY DEF Expected, Basic
<1>2. PICK v \in WorkItems(case) : \E n \in DOMAIN Program(case, v) :
         a = Program(case, v)[n].addr
  BY <1>1 DEF Addresses, Instructions, Range
<1>3. PICK n \in 1..5 : a = ArrayCode(case, v)[n].addr
  <2>1. Program(case, v) = ArrayCode(case, v) /\ DOMAIN ArrayCode(case, v) = 1..5
    BY ArrayProgram DEF ArrayCode
  <2> QED
    BY <1>2, <2>1
<1>4. a = <<"output", v>>
  BY <1>1, <1>3 DEF ArrayCode
<1>5. Expected(case)[a] = FenceExpected(case, v)
  BY <1>1, <1>4 DEF Expected
<1>6. FenceExpected(case, v) = Opposite(case, v)
  BY DEF FenceExpected
<1>7. Ended(v) /\ pc[v] \in 1..6
  BY DEF AllEnded, ArrayInv
<1>8. pc[v] = 6
  BY <1>7, ArrayInstructions
<1> QED
  BY <1>4, <1>5, <1>6, <1>8 DEF ArrayInv

LEMMA ArrayRaces ==
  ASSUME Basic, case.test = "fence_array", ArrayInv
  PROVE  NoRace
<1> SUFFICES ASSUME NEW v \in WorkItems(case), NEW w \in WorkItems(case), v # w,
                    Accesses(v, {"ld", "st"}), Accesses(w, {"ld", "st", "atomic", "until"}),
                    Location(v) = Location(w), Changes(v) \/ Changes(w)
             PROVE  FALSE
  BY DEF NoRace
<1>1. pc[v] \in 1..6 /\ pc[w] \in 1..6 /\ ~Ended(v) /\ ~Ended(w)
  BY DEF ArrayInv, Accesses, CanRun
<1>2. pc[v] \in 1..5 /\ pc[w] \in 1..5
  BY <1>1, ArrayInstructions
<1>3. /\ At(v) = ArrayCode(case, v)[pc[v]] /\ At(w) = ArrayCode(case, w)[pc[w]]
  BY <1>2, ArrayInstructions
<1>4. pc[v] \in {1, 4, 5}
  BY <1>2, <1>3 DEF Accesses, ArrayCode
<1>5. ASSUME NEW u \in WorkItems(case), ~Ended(u), pc[u] \in 1..5
      PROVE  /\ pc[u] = 1 => Location(u) = <<"fence_var", u>>
             /\ pc[u] = 2 => Location(u) = <<"global_flag", u>>
             /\ pc[u] = 3 => Location(u) = <<"global_flag", Opposite(case, u)>>
             /\ pc[u] = 4 => Location(u) = <<"fence_var", Opposite(case, u)>>
             /\ pc[u] = 5 => Location(u) = <<"output", u>>
  BY <1>5, ArrayInstructions DEF Location, Address, ArrayCode
<1>6. \A u \in WorkItems(case) : pc[u] > 3 => pc[Opposite(case, u)] > 2
  BY DEF ArrayInv
<1>7. /\ pc[v] = 4 => pc[Opposite(case, v)] > 2
      /\ pc[w] = 4 => pc[Opposite(case, w)] > 2
  BY <1>6
<1>8. ~(pc[v] = 4 /\ pc[w] = 4)
  BY <1>3 DEF Changes, ArrayCode
<1>9. CASE pc[v] = 1
  BY <1>1, <1>2, <1>5, <1>7, <1>9
<1>10. CASE pc[v] = 4
  BY <1>1, <1>2, <1>5, <1>7, <1>8, <1>10
<1>11. CASE pc[v] = 5
  BY <1>1, <1>2, <1>5, <1>11
<1> QED
  BY <1>4, <1>9, <1>10, <1>11


\* Code that is left out.
LEMMA EmptyRight ==
  ASSUME NEW S, NEW s \in Seq(S)
  PROVE  s \o <<>> = s
OBVIOUS
LEMMA EmptyLeft ==
  ASSUME NEW S, NEW s \in Seq(S)
  PROVE  <<>> \o s = s
OBVIOUS

LEMMA Nothing1 == \A a1 : <<a1>> \o <<>> = <<a1>> /\ <<>> \o <<a1>> = <<a1>>
<1> TAKE a1
<1>1. <<a1>> \in Seq({a1})
  OBVIOUS
<1> QED
  BY <1>1, EmptyLeft, EmptyRight
LEMMA Nothing2 == \A a1, a2 : <<a1>> \o <<a2>> \o <<>> = <<a1>> \o <<a2>>
<1> TAKE a1, a2
<1>1. <<a1>> \in Seq({a1, a2}) /\ <<a2>> \in Seq({a1, a2})
  OBVIOUS
<1>2. <<a1>> \o <<a2>> \in Seq({a1, a2})
  BY <1>1, ConcatProperties
<1> QED
  BY <1>2, EmptyRight
LEMMA Nothing3 == \A a1, a2, a3 : <<a1>> \o <<a2>> \o <<a3>> \o <<>> = <<a1>> \o <<a2>> \o <<a3>>
<1> TAKE a1, a2, a3
<1>1. <<a1>> \in Seq({a1, a2, a3}) /\ <<a2>> \in Seq({a1, a2, a3}) /\ <<a3>> \in Seq({a1, a2, a3})
  OBVIOUS
<1>2. <<a1>> \o <<a2>> \in Seq({a1, a2, a3})
  BY <1>1, ConcatProperties
<1>3. <<a1>> \o <<a2>> \o <<a3>> \in Seq({a1, a2, a3})
  BY <1>1, <1>2, ConcatProperties
<1> QED
  BY <1>3, EmptyRight
(* MemoryFenceTest.                                                          *)
FenceAt(c) == IF c.segment = "group" THEN <<"fence_var", 0, 0>> ELSE <<"fence_var", 0>>

StoringCode(c, wi) ==
    << [op |-> "st", addr |-> FenceAt(c), x |-> <<"imm", 7>>],
       [op |-> "atomic", fun |-> "st", dst |-> 0, addr |-> <<"global_flag", 0>>,
        x |-> <<"imm", 1>>, y |-> <<"imm", 0>>],
       [op |-> "ld", dst |-> 1, addr |-> FenceAt(c)],
       [op |-> "st", addr |-> <<"output", wi>>, x |-> <<"reg", 1>>] >>
WaitingCode(c, wi) ==
    << [op |-> "until", addr |-> <<"global_flag", 0>>, cmp |-> "eq", x |-> <<"imm", 1>>],
       [op |-> "ld", dst |-> 1, addr |-> FenceAt(c)],
       [op |-> "st", addr |-> <<"output", wi>>, x |-> <<"reg", 1>>] >>

\* The variable of a group is that of the only group.
LEMMA FenceVarIs ==
  ASSUME NEW c \in Cases, NEW wi \in WorkItems(c), NEW segment, NEW name,
         segment = "group" => c.groups = 1
  PROVE  FenceVar(c, wi, segment, name)
            = IF segment = "group" THEN <<name, 0, 0>> ELSE <<name, 0>>
<1>1. CASE segment = "group"
  <2>1. GroupOf(c, wi) \in 0..(1 - 1)
    BY <1>1, GeometryTypes DEF Groups
  <2>2. GroupOf(c, wi) = 0
    BY <2>1
  <2> QED
    BY <2>2, <1>1 DEF FenceVar, GroupVar
<1>2. CASE segment # "group"
  BY <1>2 DEF FenceVar, Global
<1> QED
  BY <1>1, <1>2

LEMMA FenceProgram ==
  ASSUME NEW c \in Cases, c.test = "fence", FenceIsValid(c), NEW wi \in WorkItems(c)
  PROVE  Program(c, wi) = IF StoresFirst(c, wi) THEN StoringCode(c, wi) ELSE WaitingCode(c, wi)
<1>1. Program(c, wi) = MemoryFence(c, wi)
  BY DEF Program
<1>2. FenceVar(c, wi, c.segment, "fence_var") = FenceAt(c)
  BY FenceVarIs DEF FenceIsValid, FenceAt
<1> DEFINE i1 == [op |-> "st", addr |-> FenceAt(c), x |-> <<"imm", 7>>]
           i2 == [op |-> "atomic", fun |-> "st", dst |-> 0, addr |-> <<"global_flag", 0>>,
                  x |-> <<"imm", 1>>, y |-> <<"imm", 0>>]
           i3 == [op |-> "ld", dst |-> 1, addr |-> FenceAt(c)]
           i4 == [op |-> "st", addr |-> <<"output", wi>>, x |-> <<"reg", 1>>]
           j1 == [op |-> "until", addr |-> <<"global_flag", 0>>, cmp |-> "eq", x |-> <<"imm", 1>>]
<1>3. MemoryFence(c, wi) =
        Only(StoresFirst(c, wi), <<i1>> \o <<i2>>) \o Only(~StoresFirst(c, wi), <<j1>>)
        \o <<i3>> \o <<i4>>
  BY <1>2 DEF MemoryFence, FenceExchange, St, AtomicSt, Atomic, LoopUntil, Ld, StoreData,
              Global, Imm, Reg, FenceFlag, NoReg, InputValue
<1>4. StoringCode(c, wi) = <<i1, i2, i3, i4>>
  BY DEF StoringCode
<1>5. WaitingCode(c, wi) = <<j1, i3, i4>>
  BY DEF WaitingCode
<1> HIDE DEF i1, i2, i3, i4, j1
<1>6. CASE StoresFirst(c, wi)
  <2>1. MemoryFence(c, wi) = <<i1>> \o <<i2>> \o <<>> \o <<i3>> \o <<i4>>
    BY <1>3, <1>6 DEF Only
  <2>2. <<i1>> \o <<i2>> \o <<>> = <<i1>> \o <<i2>>
    BY Nothing2, Zenon
  <2>3. <<i1>> \o <<i2>> \o <<i3>> \o <<i4>> = <<i1, i2, i3, i4>>
    BY Code4, Zenon
  <2>4. MemoryFence(c, wi) = <<i1, i2, i3, i4>>
    BY <2>1, <2>2, <2>3, Zenon
  <2> QED
    BY <2>4, <1>1, <1>4, <1>6, Zenon
<1>7. CASE ~StoresFirst(c, wi)
  <2>1. MemoryFence(c, wi) = <<>> \o <<j1>> \o <<i3>> \o <<i4>>
    BY <1>3, <1>7 DEF Only
  <2>2. <<>> \o <<j1>> = <<j1>>
    BY Nothing1, Zenon
  <2>3. <<j1>> \o <<i3>> \o <<i4>> = <<j1, i3, i4>>
    BY Code3, Zenon
  <2>4. MemoryFence(c, wi) = <<j1, i3, i4>>
    BY <2>1, <2>2, <2>3, Zenon
  <2> QED
    BY <2>4, <1>1, <1>5, <1>7, Zenon
<1> QED
  BY <1>6, <1>7

LEMMA FenceInstructions ==
  ASSUME Basic, case.test = "fence", FenceIsValid(case), NEW wi \in WorkItems(case)
  PROVE  /\ StoresFirst(case, wi) =>
               /\ Ended(wi) <=> pc[wi] > 4
               /\ pc[wi] = 1 => At(wi) = StoringCode(case, wi)[1]
               /\ pc[wi] = 2 => At(wi) = StoringCode(case, wi)[2]
               /\ pc[wi] = 3 => At(wi) = StoringCode(case, wi)[3]
               /\ pc[wi] = 4 => At(wi) = StoringCode(case, wi)[4]
         /\ ~StoresFirst(case, wi) =>
               /\ Ended(wi) <=> pc[wi] > 3
               /\ pc[wi] = 1 => At(wi) = WaitingCode(case, wi)[1]
               /\ pc[wi] = 2 => At(wi) = WaitingCode(case, wi)[2]
               /\ pc[wi] = 3 => At(wi) = WaitingCode(case, wi)[3]
<1>0. case \in Cases
  BY DEF Basic
<1>1. Code(wi) = IF StoresFirst(case, wi) THEN StoringCode(case, wi) ELSE WaitingCode(case, wi)
  BY <1>0, CodeIs, FenceProgram
<1>2. Len(StoringCode(case, wi)) = 4 /\ Len(WaitingCode(case, wi)) = 3
  BY DEF StoringCode, WaitingCode
<1> QED
  BY <1>1, <1>2 DEF Ended, At

LEMMA FenceMemory ==
  ASSUME NEW c \in Cases, c.test = "fence", FenceIsValid(c), NEW wi \in WorkItems(c)
  PROVE  /\ FenceAt(c) \in Addresses(c)
         /\ <<"global_flag", 0>> \in Addresses(c)
         /\ <<"output", wi>> \in Addresses(c)
<1>1. CASE StoresFirst(c, wi)
  <2>1. Program(c, wi) = StoringCode(c, wi)
    BY <1>1, FenceProgram
  <2>2. /\ DOMAIN StoringCode(c, wi) = 1..4
        /\ StoringCode(c, wi)[1].addr = FenceAt(c) /\ "addr" \in DOMAIN StoringCode(c, wi)[1]
        /\ StoringCode(c, wi)[2].addr = <<"global_flag", 0>> /\ "addr" \in DOMAIN StoringCode(c, wi)[2]
        /\ StoringCode(c, wi)[4].addr = <<"output", wi>> /\ "addr" \in DOMAIN StoringCode(c, wi)[4]
    BY DEF StoringCode
  <2>3. FenceAt(c)[1] # "flag"
    BY DEF FenceAt
  <2> HIDE DEF StoringCode
  <2> QED
    BY <2>1, <2>2, <2>3, InMemory
<1>2. CASE ~StoresFirst(c, wi)
  <2>1. Program(c, wi) = WaitingCode(c, wi)
    BY <1>2, FenceProgram
  <2>2. /\ DOMAIN WaitingCode(c, wi) = 1..3
        /\ WaitingCode(c, wi)[1].addr = <<"global_flag", 0>> /\ "addr" \in DOMAIN WaitingCode(c, wi)[1]
        /\ WaitingCode(c, wi)[2].addr = FenceAt(c) /\ "addr" \in DOMAIN WaitingCode(c, wi)[2]
        /\ WaitingCode(c, wi)[3].addr = <<"output", wi>> /\ "addr" \in DOMAIN WaitingCode(c, wi)[3]
    BY DEF WaitingCode
  <2>3. FenceAt(c)[1] # "flag"
    BY DEF FenceAt
  <2> HIDE DEF WaitingCode
  <2> QED
    BY <2>1, <2>2, <2>3, InMemory
<1> QED
  BY <1>1, <1>2

\* Where a work-item is past its store, or past its loop, the value is stored.
FenceOf(wi) ==
    /\ pc[wi] \in 1..(IF StoresFirst(case, wi) THEN 5 ELSE 4)
    /\ pc[wi] > 1 => mem[FenceAt(case)] = 7
    /\ pc[wi] = (IF StoresFirst(case, wi) THEN 4 ELSE 3) => regs[wi][1] = 7
    /\ pc[wi] = (IF StoresFirst(case, wi) THEN 5 ELSE 4) => mem[<<"output", wi>>] = 7

FenceInv ==
    /\ mem[<<"global_flag", 0>>] = 1 => mem[FenceAt(case)] = 7
    /\ \A wi \in WorkItems(case) : FenceOf(wi)

\* The kernel as an algorithm.
StoreFence == mem' = [mem EXCEPT ![FenceAt(case)] = 7] /\ regs' = regs
SetsTheFlag == mem' = [mem EXCEPT ![<<"global_flag", 0>>] = 1] /\ regs' = regs
SeeFlag == mem[<<"global_flag", 0>>] = 1 /\ mem' = mem /\ regs' = regs
LoadFence(wi) == regs' = [regs EXCEPT ![wi][1] = mem[FenceAt(case)]] /\ mem' = mem
StoreOutput(wi) == mem' = [mem EXCEPT ![<<"output", wi>>] = regs[wi][1]] /\ regs' = regs

FenceStep(wi) ==
    /\ pc' = [pc EXCEPT ![wi] = pc[wi] + 1]
    /\ StoresFirst(case, wi) =>
          \/ pc[wi] = 1 /\ StoreFence
          \/ pc[wi] = 2 /\ SetsTheFlag
          \/ pc[wi] = 3 /\ LoadFence(wi)
          \/ pc[wi] = 4 /\ StoreOutput(wi)
    /\ ~StoresFirst(case, wi) =>
          \/ pc[wi] = 1 /\ SeeFlag
          \/ pc[wi] = 2 /\ LoadFence(wi)
          \/ pc[wi] = 3 /\ StoreOutput(wi)

LEMMA FenceSteps ==
  ASSUME Basic, case.test = "fence", FenceIsValid(case), FenceInv,
         NEW wi \in WorkItems(case), Runs(wi)
  PROVE  FenceStep(wi)
<1>0. ~Ended(wi) /\ pc' = [pc EXCEPT ![wi] = pc[wi] + 1]
  BY RunsOn
<1>1. FenceOf(wi)
  BY DEF FenceInv
<1>2. /\ StoresFirst(case, wi) => pc[wi] \in 1..4
      /\ ~StoresFirst(case, wi) => pc[wi] \in 1..3
  BY <1>0, <1>1, FenceInstructions DEF FenceOf
<1>3. Value(wi, <<"imm", 7>>) = 7 /\ Value(wi, <<"reg", 1>>) = regs[wi][1]
  BY DEF Value
<1>4. CASE StoresFirst(case, wi)
  <2>1. CASE pc[wi] = 1
    <3>1. At(wi) = [op |-> "st", addr |-> FenceAt(case), x |-> <<"imm", 7>>]
      BY <1>4, <2>1, FenceInstructions DEF StoringCode
    <3> QED
      BY <3>1, <1>0, <1>3, <1>4, <2>1, Stores DEF FenceStep, StoreFence
  <2>2. CASE pc[wi] = 2
    <3>1. At(wi) = [op |-> "atomic", fun |-> "st", dst |-> 0, addr |-> <<"global_flag", 0>>,
                    x |-> <<"imm", 1>>, y |-> <<"imm", 0>>]
      BY <1>4, <2>2, FenceInstructions DEF StoringCode
    <3> QED
      BY <3>1, <1>0, <1>4, <2>2, AtomicStores DEF FenceStep, SetsTheFlag
  <2>3. CASE pc[wi] = 3
    <3>1. At(wi) = [op |-> "ld", dst |-> 1, addr |-> FenceAt(case)]
      BY <1>4, <2>3, FenceInstructions DEF StoringCode
    <3> QED
      BY <3>1, <1>0, <1>4, <2>3, Loads DEF FenceStep, LoadFence
  <2>4. CASE pc[wi] = 4
    <3>1. At(wi) = [op |-> "st", addr |-> <<"output", wi>>, x |-> <<"reg", 1>>]
      BY <1>4, <2>4, FenceInstructions DEF StoringCode
    <3> QED
      BY <3>1, <1>0, <1>3, <1>4, <2>4, Stores DEF FenceStep, StoreOutput
  <2> QED
    BY <1>2, <1>4, <2>1, <2>2, <2>3, <2>4
<1>5. CASE ~StoresFirst(case, wi)
  <2>1. CASE pc[wi] = 1
    <3>1. At(wi) = [op |-> "until", addr |-> <<"global_flag", 0>>, cmp |-> "eq", x |-> <<"imm", 1>>]
      BY <1>5, <2>1, FenceInstructions DEF WaitingCode
    <3> QED
      BY <3>1, <1>0, <1>5, <2>1, LeavesLoopEqual DEF FenceStep, SeeFlag
  <2>2. CASE pc[wi] = 2
    <3>1. At(wi) = [op |-> "ld", dst |-> 1, addr |-> FenceAt(case)]
      BY <1>5, <2>2, FenceInstructions DEF WaitingCode
    <3> QED
      BY <3>1, <1>0, <1>5, <2>2, Loads DEF FenceStep, LoadFence
  <2>3. CASE pc[wi] = 3
    <3>1. At(wi) = [op |-> "st", addr |-> <<"output", wi>>, x |-> <<"reg", 1>>]
      BY <1>5, <2>3, FenceInstructions DEF WaitingCode
    <3> QED
      BY <3>1, <1>0, <1>3, <1>5, <2>3, Stores DEF FenceStep, StoreOutput
  <2> QED
    BY <1>2, <1>5, <2>1, <2>2, <2>3
<1> QED
  BY <1>4, <1>5

LEMMA FenceDispatched ==
  ASSUME Init, case.test = "fence", FenceIsValid(case), case.flag # 1
  PROVE  FenceInv
<1>1. case \in Cases
  BY DEF Init
<1>2. 0 \in WorkItems(case)
  BY <1>1, GeometryTypes DEF WorkItems
<1>3. <<"global_flag", 0>> \in Addresses(case)
  BY <1>1, <1>2, FenceMemory
<1>4. mem[<<"global_flag", 0>>] = case.flag
  BY <1>3 DEF Init, InitialMemory
<1>5. \A wi \in WorkItems(case) : pc[wi] = 1
  BY DEF Init
<1> QED
  BY <1>4, <1>5 DEF FenceInv, FenceOf

LEMMA FenceKept ==
  ASSUME Basic, case.test = "fence", FenceIsValid(case), FenceInv, [Next]_vars
  PROVE  FenceInv'
<1>0. case' = case
  BY BasicKept
<1>1. UNCHANGED vars \/ \E wi \in WorkItems(case) : Runs(wi)
  <2>1. ASSUME NEW wi \in WorkItems(case), ~Ended(wi)
        PROVE  At(wi).op \in {"ld", "st", "atomic", "until"}
    <3>0. FenceOf(wi)
      BY DEF FenceInv
    <3>1. /\ StoresFirst(case, wi) => pc[wi] \in 1..4
          /\ ~StoresFirst(case, wi) => pc[wi] \in 1..3
      BY <2>1, <3>0, FenceInstructions DEF FenceOf
    <3>2. CASE StoresFirst(case, wi)
      BY <3>1, <3>2, FenceInstructions DEF StoringCode
    <3>3. CASE ~StoresFirst(case, wi)
      BY <3>1, <3>3, FenceInstructions DEF WaitingCode
    <3> QED
      BY <3>2, <3>3
  <2> QED
    BY <2>1, RunsAlone
<1>2. CASE UNCHANGED vars
  BY <1>2 DEF vars, FenceInv, FenceOf, StoresFirst, lastWaveFront, FenceAt
<1>3. ASSUME NEW wi \in WorkItems(case), Runs(wi) PROVE FenceInv'
  <2> DEFINE V == FenceAt(case)  F == <<"global_flag", 0>>
  <2>0. case \in Cases
    BY DEF Basic
  <2>1. FenceStep(wi)
    BY <1>3, FenceSteps
  <2>2. /\ V \in Addresses(case) /\ F \in Addresses(case) /\ V # F
        /\ \A v \in WorkItems(case) :
              <<"output", v>> \in Addresses(case) /\ <<"output", v>> # V /\ <<"output", v>> # F
    <3>1. \A v \in WorkItems(case) :
             V \in Addresses(case) /\ F \in Addresses(case) /\ <<"output", v>> \in Addresses(case)
      BY <2>0, FenceMemory
    <3>2. V[1] = "fence_var" /\ F[1] = "global_flag"
      BY DEF FenceAt
    <3> HIDE DEF V, F
    <3>3. \A v : <<"output", v>>[1] = "output"
      OBVIOUS
    <3> QED
      BY <3>1, <3>2, <3>3
  <2>3. /\ DOMAIN regs = WorkItems(case) /\ DOMAIN mem = Addresses(case)
        /\ \A v \in WorkItems(case) : DOMAIN regs[v] = 1..2
    BY DEF Basic
  <2>4. \A u \in WorkItems(case) : pc'[u] = IF u = wi THEN pc[u] + 1 ELSE pc[u]
    BY <2>1 DEF FenceStep, Basic
  <2>5. FenceOf(wi) /\ (mem[F] = 1 => mem[V] = 7)
    BY DEF FenceInv
  <2>6. pc[wi] \in 1..4
    BY <2>1, <2>5 DEF FenceStep
  <2>7. (mem'[F] = 1 => mem'[V] = 7) /\ (mem[V] = 7 => mem'[V] = 7)
    BY <2>1, <2>2, <2>3, <2>5, <2>6
       DEF FenceStep, FenceOf, StoreFence, SetsTheFlag, SeeFlag, LoadFence, StoreOutput
  <2>8. SUFFICES ASSUME NEW v \in WorkItems(case)
                 PROVE  /\ pc'[v] \in 1..(IF StoresFirst(case, v) THEN 5 ELSE 4)
                        /\ pc'[v] > 1 => mem'[V] = 7
                        /\ pc'[v] = (IF StoresFirst(case, v) THEN 4 ELSE 3) => regs'[v][1] = 7
                        /\ pc'[v] = (IF StoresFirst(case, v) THEN 5 ELSE 4) => mem'[<<"output", v>>] = 7
    BY <1>0, <2>7 DEF FenceInv, FenceOf, StoresFirst, lastWaveFront, FenceAt
  <2>9. FenceOf(v)
    BY DEF FenceInv
  <2>10. CASE v = wi
    <3>1. /\ pc'[wi] = pc[wi] + 1
          /\ pc'[wi] \in 1..(IF StoresFirst(case, wi) THEN 5 ELSE 4)
      BY <2>1, <2>4, <2>6 DEF FenceStep
    <3>2. mem'[V] = 7
      BY <2>1, <2>2, <2>3, <2>5, <2>6
         DEF FenceStep, FenceOf, StoreFence, SetsTheFlag, SeeFlag, LoadFence, StoreOutput
    <3>3. pc'[wi] = (IF StoresFirst(case, wi) THEN 4 ELSE 3) => regs'[wi][1] = 7
      BY <2>1, <2>2, <2>3, <2>5, <2>6, <3>1
         DEF FenceStep, FenceOf, StoreFence, SetsTheFlag, SeeFlag, LoadFence, StoreOutput
    <3>4. pc'[wi] = (IF StoresFirst(case, wi) THEN 5 ELSE 4) => mem'[<<"output", wi>>] = 7
      BY <2>1, <2>2, <2>3, <2>5, <2>6, <3>1
         DEF FenceStep, FenceOf, StoreFence, SetsTheFlag, SeeFlag, LoadFence, StoreOutput
    <3> QED
      BY <2>10, <3>1, <3>2, <3>3, <3>4
  <2>11. CASE v # wi
    <3>1. pc'[v] = pc[v] /\ regs'[v] = regs[v] /\ mem'[<<"output", v>>] = mem[<<"output", v>>]
      BY <2>1, <2>2, <2>3, <2>4, <2>11
         DEF FenceStep, StoreFence, SetsTheFlag, SeeFlag, LoadFence, StoreOutput
    <3> QED
      BY <3>1, <2>7, <2>9 DEF FenceOf
  <2> QED
    BY <2>10, <2>11
<1> QED
  BY <1>1, <1>2, <1>3

LEMMA FenceResults ==
  ASSUME Basic, case.test = "fence", FenceIsValid(case), FenceInv
  PROVE  ResultsExpected
<1> SUFFICES ASSUME AllEnded, NEW a \in DOMAIN Expected(case)
             PROVE  mem[a] = Expected(case)[a]
  BY DEF ResultsExpected
<1>0. case \in Cases
  BY DEF Basic
<1>1. a \in Addresses(case) /\ a[1] = "output"
  BY DEF Expected, Basic
<1>2. PICK v \in WorkItems(case) : \E n \in DOMAIN Program(case, v) :
         a = Program(case, v)[n].addr
  BY <1>1 DEF Addresses, Instructions, Range
<1>3. a = <<"output", v>>
  <2>1. FenceAt(case)[1] # "output"
    BY DEF FenceAt
  <2>2. CASE StoresFirst(case, v)
    <3>1. Program(case, v) = StoringCode(case, v) /\ DOMAIN StoringCode(case, v) = 1..4
      BY <1>0, <2>2, FenceProgram DEF StoringCode
    <3>2. PICK n \in 1..4 : a = StoringCode(case, v)[n].addr
      BY <1>2, <3>1
    <3> QED
      BY <1>1, <2>1, <3>2 DEF StoringCode
  <2>3. CASE ~StoresFirst(case, v)
    <3>1. Program(case, v) = WaitingCode(case, v) /\ DOMAIN WaitingCode(case, v) = 1..3
      BY <1>0, <2>3, FenceProgram DEF WaitingCode
    <3>2. PICK n \in 1..3 : a = WaitingCode(case, v)[n].addr
      BY <1>2, <3>1
    <3> QED
      BY <1>1, <2>1, <3>2 DEF WaitingCode
  <2> QED
    BY <2>2, <2>3
<1>4. Expected(case)[a] = FenceExpected(case, v)
  BY <1>1, <1>3 DEF Expected
<1>5. FenceExpected(case, v) = 7
  BY DEF FenceExpected, InputValue
<1>6. Ended(v) /\ FenceOf(v)
  BY DEF AllEnded, FenceInv
<1>7. pc[v] = IF StoresFirst(case, v) THEN 5 ELSE 4
  BY <1>6, FenceInstructions DEF FenceOf
<1> QED
  BY <1>3, <1>4, <1>5, <1>6, <1>7 DEF FenceOf

LEMMA FenceRaces ==
  ASSUME Basic, case.test = "fence", FenceIsValid(case), FenceInv
  PROVE  NoRace
<1> SUFFICES ASSUME NEW v \in WorkItems(case), NEW w \in WorkItems(case), v # w,
                    Accesses(v, {"ld", "st"}), Accesses(w, {"ld", "st", "atomic", "until"}),
                    Location(v) = Location(w), Changes(v) \/ Changes(w)
             PROVE  SameStore(v, w)
  BY DEF NoRace
<1> DEFINE V == FenceAt(case)
<1>1. \A u \in WorkItems(case) : FenceOf(u)
  BY DEF FenceInv
<1>2. ~Ended(v) /\ ~Ended(w)
  BY DEF Accesses, CanRun
<1>3. V[1] = "fence_var"
  BY DEF FenceAt
<1>4. \A u \in WorkItems(case) : Value(u, <<"imm", 7>>) = 7
  BY DEF Value
\* What a work-item may do: store the value, pass the flag, load, store its output.
<1>5. ASSUME NEW u \in WorkItems(case), ~Ended(u)
      PROVE  \/ At(u) = [op |-> "st", addr |-> V, x |-> <<"imm", 7>>] /\ Location(u) = V
             \/ Location(u) = <<"global_flag", 0>> /\ At(u).op \notin {"ld", "st"}
             \/ At(u).op = "ld" /\ Location(u) = V /\ mem[V] = 7
             \/ At(u).op = "st" /\ Location(u) = <<"output", u>>
  <2>0. FenceOf(u)
    BY <1>1
  <2>1. CASE StoresFirst(case, u)
    <3>1. pc[u] \in 1..4
      BY <1>5, <2>0, <2>1, FenceInstructions DEF FenceOf
    <3>2. At(u) = StoringCode(case, u)[pc[u]]
      BY <2>1, <3>1, FenceInstructions
    <3>3. pc[u] > 1 => mem[V] = 7
      BY <2>0 DEF FenceOf
    <3> HIDE DEF V
    <3> QED
      BY <1>3, <3>1, <3>2, <3>3 DEF StoringCode, V, Location, Address
  <2>2. CASE ~StoresFirst(case, u)
    <3>1. pc[u] \in 1..3
      BY <1>5, <2>0, <2>2, FenceInstructions DEF FenceOf
    <3>2. At(u) = WaitingCode(case, u)[pc[u]]
      BY <2>2, <3>1, FenceInstructions
    <3>3. pc[u] > 1 => mem[V] = 7
      BY <2>0 DEF FenceOf
    <3> HIDE DEF V
    <3> QED
      BY <1>3, <3>1, <3>2, <3>3 DEF WaitingCode, V, Location, Address
  <2> QED
    BY <2>1, <2>2
<1> HIDE DEF V
<1>6. Location(v) # <<"global_flag", 0>>
  BY <1>2, <1>3, <1>5 DEF Accesses
<1>7. CASE Location(v) = V
  <2>1. \A u \in WorkItems(case) : <<"output", u>> # V
    BY <1>3
  <2>2. V # <<"global_flag", 0>>
    BY <1>3
  <2>3. \/ At(v) = [op |-> "st", addr |-> V, x |-> <<"imm", 7>>]
        \/ At(v).op = "ld" /\ mem[V] = 7
    BY <1>2, <1>5, <1>7, <2>1, <2>2
  <2>4. \/ At(w) = [op |-> "st", addr |-> V, x |-> <<"imm", 7>>]
        \/ At(w).op = "ld" /\ mem[V] = 7
    BY <1>2, <1>5, <1>7, <2>1, <2>2
  <2> QED
    BY <1>4, <2>3, <2>4 DEF Changes, SameStore
<1>8. CASE Location(v) # V
  <2>1. Location(v) = <<"output", v>> /\ Location(w) = <<"output", w>>
    BY <1>2, <1>5, <1>6, <1>8
  <2>2. <<"output", v>> # <<"output", w>>
    OBVIOUS
  <2> QED
    BY <2>1, <2>2, Zenon
<1> QED
  BY <1>7, <1>8

(* MemoryFenceCompoundTest.                                                  *)
FenceAt2(c) == IF c.segment2 = "group" THEN <<"fence_var_2", 0, 0>> ELSE <<"fence_var_2", 0>>

StoringCode2(c, wi) ==
    << [op |-> "st", addr |-> FenceAt(c), x |-> <<"imm", 7>>],
       [op |-> "st", addr |-> FenceAt2(c), x |-> <<"imm", 3>>],
       [op |-> "atomic", fun |-> "st", dst |-> 0, addr |-> <<"global_flag", 0>>,
        x |-> <<"imm", 1>>, y |-> <<"imm", 0>>],
       [op |-> "ld", dst |-> 1, addr |-> FenceAt(c)],
       [op |-> "ld", dst |-> 2, addr |-> FenceAt2(c)],
       [op |-> "st", addr |-> <<"output", wi>>, x |-> <<"sum", 1, 2>>] >>
WaitingCode2(c, wi) ==
    << [op |-> "until", addr |-> <<"global_flag", 0>>, cmp |-> "eq", x |-> <<"imm", 1>>],
       [op |-> "ld", dst |-> 1, addr |-> FenceAt(c)],
       [op |-> "ld", dst |-> 2, addr |-> FenceAt2(c)],
       [op |-> "st", addr |-> <<"output", wi>>, x |-> <<"sum", 1, 2>>] >>

LEMMA CompoundProgram ==
  ASSUME NEW c \in Cases, c.test = "fence_compound", FenceIsValid(c), NEW wi \in WorkItems(c)
  PROVE  Program(c, wi) = IF StoresFirst(c, wi) THEN StoringCode2(c, wi) ELSE WaitingCode2(c, wi)
<1>1. Program(c, wi) = MemoryFenceCompound(c, wi)
  BY DEF Program
<1>2. /\ FenceVar(c, wi, c.segment, "fence_var") = FenceAt(c)
      /\ FenceVar(c, wi, c.segment2, "fence_var_2") = FenceAt2(c)
  BY FenceVarIs DEF FenceIsValid, FenceAt, FenceAt2
<1> DEFINE i1 == [op |-> "st", addr |-> FenceAt(c), x |-> <<"imm", 7>>]
           i2 == [op |-> "st", addr |-> FenceAt2(c), x |-> <<"imm", 3>>]
           i3 == [op |-> "atomic", fun |-> "st", dst |-> 0, addr |-> <<"global_flag", 0>>,
                  x |-> <<"imm", 1>>, y |-> <<"imm", 0>>]
           i4 == [op |-> "ld", dst |-> 1, addr |-> FenceAt(c)]
           i5 == [op |-> "ld", dst |-> 2, addr |-> FenceAt2(c)]
           i6 == [op |-> "st", addr |-> <<"output", wi>>, x |-> <<"sum", 1, 2>>]
           j1 == [op |-> "until", addr |-> <<"global_flag", 0>>, cmp |-> "eq", x |-> <<"imm", 1>>]
<1>3. MemoryFenceCompound(c, wi) =
        Only(StoresFirst(c, wi), <<i1>> \o <<i2>> \o <<i3>>) \o Only(~StoresFirst(c, wi), <<j1>>)
        \o (<<i4>>) \o <<i5>> \o <<i6>>
  BY <1>2 DEF MemoryFenceCompound, FenceExchange, St, AtomicSt, Atomic, LoopUntil, Ld, StoreData,
              Global, Imm, Reg, SumOf, FenceFlag, NoReg, InputValue, InputValue2
<1>4. StoringCode2(c, wi) = <<i1, i2, i3, i4, i5, i6>>
  BY DEF StoringCode2
<1>5. WaitingCode2(c, wi) = <<j1, i4, i5, i6>>
  BY DEF WaitingCode2
<1> HIDE DEF i1, i2, i3, i4, i5, i6, j1
<1>6. CASE StoresFirst(c, wi)
  <2>1. MemoryFenceCompound(c, wi) = <<i1>> \o <<i2>> \o <<i3>> \o <<>> \o <<i4>> \o <<i5>> \o <<i6>>
    BY <1>3, <1>6 DEF Only
  <2>2. <<i1>> \o <<i2>> \o <<i3>> \o <<>> = <<i1>> \o <<i2>> \o <<i3>>
    BY Nothing3
  <2>3. Joined6(i1, i2, i3, i4, i5, i6) = Listed6(i1, i2, i3, i4, i5, i6)
    BY Program6
  <2>4. MemoryFenceCompound(c, wi) = Joined6(i1, i2, i3, i4, i5, i6)
    BY <2>1, <2>2, Zenon DEF Joined6
  <2>5. StoringCode2(c, wi) = Listed6(i1, i2, i3, i4, i5, i6)
    BY <1>4 DEF Listed6
  <2> QED
    BY <2>3, <2>4, <2>5, <1>1, <1>6
<1>7. CASE ~StoresFirst(c, wi)
  <2>1. MemoryFenceCompound(c, wi) = <<>> \o <<j1>> \o <<i4>> \o <<i5>> \o <<i6>>
    BY <1>3, <1>7 DEF Only
  <2>2. <<>> \o <<j1>> = <<j1>>
    BY Nothing1, Zenon
  <2>3. <<j1>> \o <<i4>> \o <<i5>> \o <<i6>> = <<j1, i4, i5, i6>>
    BY Code4, Zenon
  <2>4. MemoryFenceCompound(c, wi) = <<j1, i4, i5, i6>>
    BY <2>1, <2>2, <2>3, Zenon
  <2> QED
    BY <2>4, <1>1, <1>5, <1>7, Zenon
<1> QED
  BY <1>6, <1>7

LEMMA CompoundInstructions ==
  ASSUME Basic, case.test = "fence_compound", FenceIsValid(case), NEW wi \in WorkItems(case)
  PROVE  /\ StoresFirst(case, wi) =>
               /\ Ended(wi) <=> pc[wi] > 6
               /\ pc[wi] = 1 => At(wi) = StoringCode2(case, wi)[1]
               /\ pc[wi] = 2 => At(wi) = StoringCode2(case, wi)[2]
               /\ pc[wi] = 3 => At(wi) = StoringCode2(case, wi)[3]
               /\ pc[wi] = 4 => At(wi) = StoringCode2(case, wi)[4]
               /\ pc[wi] = 5 => At(wi) = StoringCode2(case, wi)[5]
               /\ pc[wi] = 6 => At(wi) = StoringCode2(case, wi)[6]
         /\ ~StoresFirst(case, wi) =>
               /\ Ended(wi) <=> pc[wi] > 4
               /\ pc[wi] = 1 => At(wi) = WaitingCode2(case, wi)[1]
               /\ pc[wi] = 2 => At(wi) = WaitingCode2(case, wi)[2]
               /\ pc[wi] = 3 => At(wi) = WaitingCode2(case, wi)[3]
               /\ pc[wi] = 4 => At(wi) = WaitingCode2(case, wi)[4]
<1>0. case \in Cases
  BY DEF Basic
<1>1. Code(wi) = IF StoresFirst(case, wi) THEN StoringCode2(case, wi) ELSE WaitingCode2(case, wi)
  BY <1>0, CodeIs, CompoundProgram
<1>2. Len(StoringCode2(case, wi)) = 6 /\ Len(WaitingCode2(case, wi)) = 4
  BY DEF StoringCode2, WaitingCode2
<1> QED
  BY <1>1, <1>2 DEF Ended, At

LEMMA CompoundMemory ==
  ASSUME NEW c \in Cases, c.test = "fence_compound", FenceIsValid(c), NEW wi \in WorkItems(c)
  PROVE  /\ FenceAt(c) \in Addresses(c) /\ FenceAt2(c) \in Addresses(c)
         /\ <<"global_flag", 0>> \in Addresses(c)
         /\ <<"output", wi>> \in Addresses(c)
<1>0. FenceAt(c)[1] # "flag" /\ FenceAt2(c)[1] # "flag"
  BY DEF FenceAt, FenceAt2
<1>1. CASE StoresFirst(c, wi)
  <2>1. Program(c, wi) = StoringCode2(c, wi)
    BY <1>1, CompoundProgram
  <2>2. /\ DOMAIN StoringCode2(c, wi) = 1..6
        /\ StoringCode2(c, wi)[1].addr = FenceAt(c) /\ "addr" \in DOMAIN StoringCode2(c, wi)[1]
        /\ StoringCode2(c, wi)[2].addr = FenceAt2(c) /\ "addr" \in DOMAIN StoringCode2(c, wi)[2]
        /\ StoringCode2(c, wi)[3].addr = <<"global_flag", 0>> /\ "addr" \in DOMAIN StoringCode2(c, wi)[3]
        /\ StoringCode2(c, wi)[6].addr = <<"output", wi>> /\ "addr" \in DOMAIN StoringCode2(c, wi)[6]
    BY DEF StoringCode2
  <2> HIDE DEF StoringCode2
  <2> QED
    BY <1>0, <2>1, <2>2, InMemory
<1>2. CASE ~StoresFirst(c, wi)
  <2>1. Program(c, wi) = WaitingCode2(c, wi)
    BY <1>2, CompoundProgram
  <2>2. /\ DOMAIN WaitingCode2(c, wi) = 1..4
        /\ WaitingCode2(c, wi)[1].addr = <<"global_flag", 0>> /\ "addr" \in DOMAIN WaitingCode2(c, wi)[1]
        /\ WaitingCode2(c, wi)[2].addr = FenceAt(c) /\ "addr" \in DOMAIN WaitingCode2(c, wi)[2]
        /\ WaitingCode2(c, wi)[3].addr = FenceAt2(c) /\ "addr" \in DOMAIN WaitingCode2(c, wi)[3]
        /\ WaitingCode2(c, wi)[4].addr = <<"output", wi>> /\ "addr" \in DOMAIN WaitingCode2(c, wi)[4]
    BY DEF WaitingCode2
  <2> HIDE DEF WaitingCode2
  <2> QED
    BY <1>0, <2>1, <2>2, InMemory
<1> QED
  BY <1>1, <1>2

CompoundOf(wi) ==
    LET first == StoresFirst(case, wi)
    IN  /\ pc[wi] \in 1..(IF first THEN 7 ELSE 5)
        /\ pc[wi] > 1 => mem[FenceAt(case)] = 7
        /\ pc[wi] > (IF first THEN 2 ELSE 1) => mem[FenceAt2(case)] = 3
        /\ pc[wi] \in (IF first THEN {5, 6} ELSE {3, 4}) => regs[wi][1] = 7
        /\ pc[wi] = (IF first THEN 6 ELSE 4) => regs[wi][2] = 3
        /\ pc[wi] = (IF first THEN 7 ELSE 5) => mem[<<"output", wi>>] = 10

CompoundInv ==
    /\ mem[<<"global_flag", 0>>] = 1 => mem[FenceAt(case)] = 7 /\ mem[FenceAt2(case)] = 3
    /\ \A wi \in WorkItems(case) : CompoundOf(wi)

StoreFence2 == mem' = [mem EXCEPT ![FenceAt2(case)] = 3] /\ regs' = regs
LoadFence2(wi) == regs' = [regs EXCEPT ![wi][2] = mem[FenceAt2(case)]] /\ mem' = mem
StoreSum(wi) == mem' = [mem EXCEPT ![<<"output", wi>>] = regs[wi][1] + regs[wi][2]] /\ regs' = regs

CompoundStep(wi) ==
    /\ pc' = [pc EXCEPT ![wi] = pc[wi] + 1]
    /\ StoresFirst(case, wi) =>
          \/ pc[wi] = 1 /\ StoreFence
          \/ pc[wi] = 2 /\ StoreFence2
          \/ pc[wi] = 3 /\ SetsTheFlag
          \/ pc[wi] = 4 /\ LoadFence(wi)
          \/ pc[wi] = 5 /\ LoadFence2(wi)
          \/ pc[wi] = 6 /\ StoreSum(wi)
    /\ ~StoresFirst(case, wi) =>
          \/ pc[wi] = 1 /\ SeeFlag
          \/ pc[wi] = 2 /\ LoadFence(wi)
          \/ pc[wi] = 3 /\ LoadFence2(wi)
          \/ pc[wi] = 4 /\ StoreSum(wi)

LEMMA CompoundSteps ==
  ASSUME Basic, case.test = "fence_compound", FenceIsValid(case), CompoundInv,
         NEW wi \in WorkItems(case), Runs(wi)
  PROVE  CompoundStep(wi)
<1>0. ~Ended(wi) /\ pc' = [pc EXCEPT ![wi] = pc[wi] + 1]
  BY RunsOn
<1>1. CompoundOf(wi)
  BY DEF CompoundInv
<1>2. /\ StoresFirst(case, wi) => pc[wi] \in 1..6
      /\ ~StoresFirst(case, wi) => pc[wi] \in 1..4
  BY <1>0, <1>1, CompoundInstructions DEF CompoundOf
<1>3. /\ Value(wi, <<"imm", 7>>) = 7 /\ Value(wi, <<"imm", 3>>) = 3
      /\ Value(wi, <<"sum", 1, 2>>) = regs[wi][1] + regs[wi][2]
  BY DEF Value
<1>4. CASE StoresFirst(case, wi)
  <2>1. CASE pc[wi] = 1
    <3>1. At(wi) = [op |-> "st", addr |-> FenceAt(case), x |-> <<"imm", 7>>]
      BY <1>4, <2>1, CompoundInstructions DEF StoringCode2
    <3> QED
      BY <3>1, <1>0, <1>3, <1>4, <2>1, Stores DEF CompoundStep, StoreFence
  <2>2. CASE pc[wi] = 2
    <3>1. At(wi) = [op |-> "st", addr |-> FenceAt2(case), x |-> <<"imm", 3>>]
      BY <1>4, <2>2, CompoundInstructions DEF StoringCode2
    <3> QED
      BY <3>1, <1>0, <1>3, <1>4, <2>2, Stores DEF CompoundStep, StoreFence2
  <2>3. CASE pc[wi] = 3
    <3>1. At(wi) = [op |-> "atomic", fun |-> "st", dst |-> 0, addr |-> <<"global_flag", 0>>,
                    x |-> <<"imm", 1>>, y |-> <<"imm", 0>>]
      BY <1>4, <2>3, CompoundInstructions DEF StoringCode2
    <3> QED
      BY <3>1, <1>0, <1>3, <1>4, <2>3, AtomicStores DEF CompoundStep, SetsTheFlag
  <2>4. CASE pc[wi] = 4
    <3>1. At(wi) = [op |-> "ld", dst |-> 1, addr |-> FenceAt(case)]
      BY <1>4, <2>4, CompoundInstructions DEF StoringCode2
    <3> QED
      BY <3>1, <1>0, <1>3, <1>4, <2>4, Loads DEF CompoundStep, LoadFence
  <2>5. CASE pc[wi] = 5
    <3>1. At(wi) = [op |-> "ld", dst |-> 2, addr |-> FenceAt2(case)]
      BY <1>4, <2>5, CompoundInstructions DEF StoringCode2
    <3> QED
      BY <3>1, <1>0, <1>3, <1>4, <2>5, Loads DEF CompoundStep, LoadFence2
  <2>6. CASE pc[wi] = 6
    <3>1. At(wi) = [op |-> "st", addr |-> <<"output", wi>>, x |-> <<"sum", 1, 2>>]
      BY <1>4, <2>6, CompoundInstructions DEF StoringCode2
    <3> QED
      BY <3>1, <1>0, <1>3, <1>4, <2>6, Stores DEF CompoundStep, StoreSum
  <2> QED
    BY <1>2, <1>4, <2>1, <2>2, <2>3, <2>4, <2>5, <2>6
<1>5. CASE ~StoresFirst(case, wi)
  <2>1. CASE pc[wi] = 1
    <3>1. At(wi) = [op |-> "until", addr |-> <<"global_flag", 0>>, cmp |-> "eq", x |-> <<"imm", 1>>]
      BY <1>5, <2>1, CompoundInstructions DEF WaitingCode2
    <3> QED
      BY <3>1, <1>0, <1>3, <1>5, <2>1, LeavesLoopEqual DEF CompoundStep, SeeFlag
  <2>2. CASE pc[wi] = 2
    <3>1. At(wi) = [op |-> "ld", dst |-> 1, addr |-> FenceAt(case)]
      BY <1>5, <2>2, CompoundInstructions DEF WaitingCode2
    <3> QED
      BY <3>1, <1>0, <1>3, <1>5, <2>2, Loads DEF CompoundStep, LoadFence
  <2>3. CASE pc[wi] = 3
    <3>1. At(wi) = [op |-> "ld", dst |-> 2, addr |-> FenceAt2(case)]
      BY <1>5, <2>3, CompoundInstructions DEF WaitingCode2
    <3> QED
      BY <3>1, <1>0, <1>3, <1>5, <2>3, Loads DEF CompoundStep, LoadFence2
  <2>4. CASE pc[wi] = 4
    <3>1. At(wi) = [op |-> "st", addr |-> <<"output", wi>>, x |-> <<"sum", 1, 2>>]
      BY <1>5, <2>4, CompoundInstructions DEF WaitingCode2
    <3> QED
      BY <3>1, <1>0, <1>3, <1>5, <2>4, Stores DEF CompoundStep, StoreSum
  <2> QED
    BY <1>2, <1>5, <2>1, <2>2, <2>3, <2>4
<1> QED
  BY <1>4, <1>5

LEMMA CompoundDispatched ==
  ASSUME Init, case.test = "fence_compound", FenceIsValid(case), case.flag # 1
  PROVE  CompoundInv
<1>1. case \in Cases
  BY DEF Init
<1>2. 0 \in WorkItems(case)
  BY <1>1, GeometryTypes DEF WorkItems
<1>3. <<"global_flag", 0>> \in Addresses(case)
  BY <1>1, <1>2, CompoundMemory
<1>4. mem[<<"global_flag", 0>>] = case.flag
  BY <1>3 DEF Init, InitialMemory
<1>5. \A wi \in WorkItems(case) : pc[wi] = 1
  BY DEF Init
<1> QED
  BY <1>4, <1>5 DEF CompoundInv, CompoundOf

LEMMA CompoundKept ==
  ASSUME Basic, case.test = "fence_compound", FenceIsValid(case), CompoundInv, [Next]_vars
  PROVE  CompoundInv'
<1>0. case' = case
  BY BasicKept
<1>1. UNCHANGED vars \/ \E wi \in WorkItems(case) : Runs(wi)
  <2>1. ASSUME NEW wi \in WorkItems(case), ~Ended(wi)
        PROVE  At(wi).op \in {"ld", "st", "atomic", "until"}
    <3>0. CompoundOf(wi)
      BY DEF CompoundInv
    <3>1. /\ StoresFirst(case, wi) => pc[wi] \in 1..6
          /\ ~StoresFirst(case, wi) => pc[wi] \in 1..4
      BY <2>1, <3>0, CompoundInstructions DEF CompoundOf
    <3>2. CASE StoresFirst(case, wi)
      BY <3>1, <3>2, CompoundInstructions DEF StoringCode2
    <3>3. CASE ~StoresFirst(case, wi)
      BY <3>1, <3>3, CompoundInstructions DEF WaitingCode2
    <3> QED
      BY <3>2, <3>3
  <2> QED
    BY <2>1, RunsAlone
<1>2. CASE UNCHANGED vars
  BY <1>2 DEF vars, CompoundInv, CompoundOf, StoresFirst, lastWaveFront, FenceAt, FenceAt2
<1>3. ASSUME NEW wi \in WorkItems(case), Runs(wi) PROVE CompoundInv'
  <2> DEFINE V == FenceAt(case)  V2 == FenceAt2(case)  F == <<"global_flag", 0>>
  <2>0. case \in Cases
    BY DEF Basic
  <2>1. CompoundStep(wi)
    BY <1>3, CompoundSteps
  <2>2. /\ V \in Addresses(case) /\ V2 \in Addresses(case) /\ F \in Addresses(case)
        /\ V # F /\ V2 # F /\ V # V2
        /\ \A v \in WorkItems(case) :
              <<"output", v>> \in Addresses(case) /\ <<"output", v>> \notin {V, V2, F}
    <3>1. \A v \in WorkItems(case) :
             /\ V \in Addresses(case) /\ V2 \in Addresses(case)
             /\ F \in Addresses(case) /\ <<"output", v>> \in Addresses(case)
      BY <2>0, CompoundMemory
    <3>2. V[1] = "fence_var" /\ V2[1] = "fence_var_2" /\ F[1] = "global_flag"
      BY DEF FenceAt, FenceAt2
    <3> HIDE DEF V, V2, F
    <3>3. \A v : <<"output", v>>[1] = "output"
      OBVIOUS
    <3> QED
      BY <3>1, <3>2, <3>3
  <2>3. /\ DOMAIN regs = WorkItems(case) /\ DOMAIN mem = Addresses(case)
        /\ \A v \in WorkItems(case) : DOMAIN regs[v] = 1..2
    BY DEF Basic
  <2>4. \A u \in WorkItems(case) : pc'[u] = IF u = wi THEN pc[u] + 1 ELSE pc[u]
    BY <2>1 DEF CompoundStep, Basic
  <2>5. CompoundOf(wi) /\ (mem[F] = 1 => mem[V] = 7 /\ mem[V2] = 3)
    BY DEF CompoundInv
  <2>6. pc[wi] \in 1..6
    BY <2>1, <2>5 DEF CompoundStep
  <2>7. /\ mem'[F] = 1 => mem'[V] = 7 /\ mem'[V2] = 3
        /\ mem[V] = 7 => mem'[V] = 7
        /\ mem[V2] = 3 => mem'[V2] = 3
    BY <2>1, <2>2, <2>3, <2>5, <2>6
       DEF CompoundStep, CompoundOf, StoreFence, StoreFence2, SetsTheFlag, SeeFlag, LoadFence,
           LoadFence2, StoreSum
  <2>8. SUFFICES ASSUME NEW v \in WorkItems(case)
                 PROVE  /\ pc'[v] \in 1..(IF StoresFirst(case, v) THEN 7 ELSE 5)
                        /\ pc'[v] > 1 => mem'[V] = 7
                        /\ pc'[v] > (IF StoresFirst(case, v) THEN 2 ELSE 1) => mem'[V2] = 3
                        /\ pc'[v] \in (IF StoresFirst(case, v) THEN {5, 6} ELSE {3, 4})
                              => regs'[v][1] = 7
                        /\ pc'[v] = (IF StoresFirst(case, v) THEN 6 ELSE 4) => regs'[v][2] = 3
                        /\ pc'[v] = (IF StoresFirst(case, v) THEN 7 ELSE 5) => mem'[<<"output", v>>] = 10
    BY <1>0, <2>7 DEF CompoundInv, CompoundOf, StoresFirst, lastWaveFront, FenceAt, FenceAt2
  <2>9. CompoundOf(v)
    BY DEF CompoundInv
  <2>10. CASE v = wi
    <3>1. /\ pc'[wi] = pc[wi] + 1
          /\ pc'[wi] \in 1..(IF StoresFirst(case, wi) THEN 7 ELSE 5)
      BY <2>1, <2>4, <2>6 DEF CompoundStep
    <3>2. /\ mem'[V] = 7
          /\ pc'[wi] > (IF StoresFirst(case, wi) THEN 2 ELSE 1) => mem'[V2] = 3
      BY <2>1, <2>2, <2>3, <2>5, <2>6, <3>1
         DEF CompoundStep, CompoundOf, StoreFence, StoreFence2, SetsTheFlag, SeeFlag, LoadFence,
             LoadFence2, StoreSum
    <3>3. pc'[wi] \in (IF StoresFirst(case, wi) THEN {5, 6} ELSE {3, 4}) => regs'[wi][1] = 7
      BY <2>1, <2>2, <2>3, <2>5, <2>6, <3>1
         DEF CompoundStep, CompoundOf, StoreFence, StoreFence2, SetsTheFlag, SeeFlag, LoadFence,
             LoadFence2, StoreSum
    <3>4. pc'[wi] = (IF StoresFirst(case, wi) THEN 6 ELSE 4) => regs'[wi][2] = 3
      BY <2>1, <2>2, <2>3, <2>5, <2>6, <3>1
         DEF CompoundStep, CompoundOf, StoreFence, StoreFence2, SetsTheFlag, SeeFlag, LoadFence,
             LoadFence2, StoreSum
    <3>5. pc'[wi] = (IF StoresFirst(case, wi) THEN 7 ELSE 5) => mem'[<<"output", wi>>] = 10
      BY <2>1, <2>2, <2>3, <2>5, <2>6, <3>1
         DEF CompoundStep, CompoundOf, StoreFence, StoreFence2, SetsTheFlag, SeeFlag, LoadFence,
             LoadFence2, StoreSum
    <3> QED
      BY <2>10, <3>1, <3>2, <3>3, <3>4, <3>5
  <2>11. CASE v # wi
    <3>1. pc'[v] = pc[v] /\ regs'[v] = regs[v] /\ mem'[<<"output", v>>] = mem[<<"output", v>>]
      BY <2>1, <2>2, <2>3, <2>4, <2>11
         DEF CompoundStep, StoreFence, StoreFence2, SetsTheFlag, SeeFlag, LoadFence, LoadFence2, StoreSum
    <3> QED
      BY <3>1, <2>7, <2>9 DEF CompoundOf
  <2> QED
    BY <2>10, <2>11
<1> QED
  BY <1>1, <1>2, <1>3

LEMMA CompoundResults ==
  ASSUME Basic, case.test = "fence_compound", FenceIsValid(case), CompoundInv
  PROVE  ResultsExpected
<1> SUFFICES ASSUME AllEnded, NEW a \in DOMAIN Expected(case)
             PROVE  mem[a] = Expected(case)[a]
  BY DEF ResultsExpected
<1>0. case \in Cases
  BY DEF Basic
<1>1. a \in Addresses(case) /\ a[1] = "output"
  BY DEF Expected, Basic
<1>2. PICK v \in WorkItems(case) : \E n \in DOMAIN Program(case, v) :
         a = Program(case, v)[n].addr
  BY <1>1 DEF Addresses, Instructions, Range
<1>3. a = <<"output", v>>
  <2>1. FenceAt(case)[1] # "output" /\ FenceAt2(case)[1] # "output"
    BY DEF FenceAt, FenceAt2
  <2>2. CASE StoresFirst(case, v)
    <3>1. Program(case, v) = StoringCode2(case, v) /\ DOMAIN StoringCode2(case, v) = 1..6
      BY <1>0, <2>2, CompoundProgram DEF StoringCode2
    <3>2. PICK n \in 1..6 : a = StoringCode2(case, v)[n].addr
      BY <1>2, <3>1
    <3> QED
      BY <1>1, <2>1, <3>2 DEF StoringCode2
  <2>3. CASE ~StoresFirst(case, v)
    <3>1. Program(case, v) = WaitingCode2(case, v) /\ DOMAIN WaitingCode2(case, v) = 1..4
      BY <1>0, <2>3, CompoundProgram DEF WaitingCode2
    <3>2. PICK n \in 1..4 : a = WaitingCode2(case, v)[n].addr
      BY <1>2, <3>1
    <3> QED
      BY <1>1, <2>1, <3>2 DEF WaitingCode2
  <2> QED
    BY <2>2, <2>3
<1>4. Expected(case)[a] = FenceExpected(case, v)
  BY <1>1, <1>3 DEF Expected
<1>5. FenceExpected(case, v) = 10
  BY DEF FenceExpected, InputValue, InputValue2
<1>6. Ended(v) /\ CompoundOf(v)
  BY DEF AllEnded, CompoundInv
<1>7. pc[v] = IF StoresFirst(case, v) THEN 7 ELSE 5
  BY <1>6, CompoundInstructions DEF CompoundOf
<1> QED
  BY <1>3, <1>4, <1>5, <1>6, <1>7 DEF CompoundOf

LEMMA CompoundRaces ==
  ASSUME Basic, case.test = "fence_compound", FenceIsValid(case), CompoundInv
  PROVE  NoRace
<1> SUFFICES ASSUME NEW v \in WorkItems(case), NEW w \in WorkItems(case), v # w,
                    Accesses(v, {"ld", "st"}), Accesses(w, {"ld", "st", "atomic", "until"}),
                    Location(v) = Location(w), Changes(v) \/ Changes(w)
             PROVE  SameStore(v, w)
  BY DEF NoRace
<1> DEFINE V == FenceAt(case)  V2 == FenceAt2(case)
<1>1. \A u \in WorkItems(case) : CompoundOf(u)
  BY DEF CompoundInv
<1>2. ~Ended(v) /\ ~Ended(w)
  BY DEF Accesses, CanRun
<1>3. V[1] = "fence_var" /\ V2[1] = "fence_var_2"
  BY DEF FenceAt, FenceAt2
<1>4. \A u \in WorkItems(case) : Value(u, <<"imm", 7>>) = 7 /\ Value(u, <<"imm", 3>>) = 3
  BY DEF Value
\* What a work-item may do: store the value, pass the flag, load, store its output.
<1>5. ASSUME NEW u \in WorkItems(case), ~Ended(u)
      PROVE  \/ At(u) = [op |-> "st", addr |-> V, x |-> <<"imm", 7>>] /\ Location(u) = V
             \/ At(u) = [op |-> "st", addr |-> V2, x |-> <<"imm", 3>>] /\ Location(u) = V2
             \/ Location(u) = <<"global_flag", 0>> /\ At(u).op \notin {"ld", "st"}
             \/ At(u).op = "ld" /\ Location(u) = V /\ mem[V] = 7
             \/ At(u).op = "ld" /\ Location(u) = V2 /\ mem[V2] = 3
             \/ At(u).op = "st" /\ Location(u) = <<"output", u>>
  <2>0. CompoundOf(u)
    BY <1>1
  <2>1. CASE StoresFirst(case, u)
    <3>1. pc[u] \in 1..6
      BY <1>5, <2>0, <2>1, CompoundInstructions DEF CompoundOf
    <3>2. At(u) = StoringCode2(case, u)[pc[u]]
      BY <2>1, <3>1, CompoundInstructions
    <3>3. /\ pc[u] > 1 => mem[V] = 7
          /\ pc[u] > (IF StoresFirst(case, u) THEN 2 ELSE 1) => mem[V2] = 3
      BY <2>0 DEF CompoundOf
    <3> HIDE DEF V, V2
    <3>4. CASE pc[u] \in {1, 2, 3}
      <4>1. CASE pc[u] = 1
        BY <1>3, <2>1, <4>1, <3>2 DEF StoringCode2, V, Location, Address
      <4>2. CASE pc[u] = 2
        BY <1>3, <2>1, <4>2, <3>2 DEF StoringCode2, V2, Location, Address
      <4>3. CASE pc[u] = 3
        BY <2>1, <4>3, <3>2 DEF StoringCode2, Location, Address
      <4> QED
        BY <3>4, <4>1, <4>2, <4>3
    <3>5. CASE pc[u] \in {4, 5, 6}
      BY <1>3, <2>1, <3>5, <3>2, <3>3 DEF StoringCode2, V, V2, Location, Address
    <3> QED
      BY <3>1, <3>4, <3>5
  <2>2. CASE ~StoresFirst(case, u)
    <3>1. pc[u] \in 1..4
      BY <1>5, <2>0, <2>2, CompoundInstructions DEF CompoundOf
    <3>2. At(u) = WaitingCode2(case, u)[pc[u]]
      BY <2>2, <3>1, CompoundInstructions
    <3>3. /\ pc[u] > 1 => mem[V] = 7
          /\ pc[u] > (IF StoresFirst(case, u) THEN 2 ELSE 1) => mem[V2] = 3
      BY <2>0 DEF CompoundOf
    <3> HIDE DEF V, V2
    <3> QED
      BY <1>3, <2>2, <3>1, <3>2, <3>3 DEF WaitingCode2, V, V2, Location, Address
  <2> QED
    BY <2>1, <2>2
<1> HIDE DEF V, V2
<1>6. Location(v) # <<"global_flag", 0>>
  BY <1>2, <1>3, <1>5 DEF Accesses
<1>7. V # V2 /\ V # <<"global_flag", 0>> /\ V2 # <<"global_flag", 0>>
      /\ \A u \in WorkItems(case) : <<"output", u>> # V /\ <<"output", u>> # V2
  BY <1>3
<1> DEFINE n(A) == IF A = V THEN 7 ELSE 3
<1>8. ASSUME NEW A \in {V, V2}, NEW u \in {v, w}, Location(u) = A
      PROVE  \/ At(u) = [op |-> "st", addr |-> A, x |-> <<"imm", n(A)>>]
             \/ At(u).op = "ld" /\ mem[A] = n(A)
  BY <1>2, <1>5, <1>7, <1>8
<1>9. ASSUME NEW A \in {V, V2}, Location(v) = A
      PROVE  SameStore(v, w)
  <2>1. \/ At(v) = [op |-> "st", addr |-> A, x |-> <<"imm", n(A)>>]
        \/ At(v).op = "ld" /\ mem[A] = n(A)
    BY <1>8, <1>9
  <2>2. \/ At(w) = [op |-> "st", addr |-> A, x |-> <<"imm", n(A)>>]
        \/ At(w).op = "ld" /\ mem[A] = n(A)
    BY <1>8, <1>9
  <2>3. \A u \in WorkItems(case) : Value(u, <<"imm", n(A)>>) = n(A)
    BY <1>4
  <2> HIDE DEF n
  <2> QED
    BY <2>1, <2>2, <2>3 DEF Changes, SameStore
<1>10. CASE Location(v) \notin {V, V2}
  <2>1. Location(v) = <<"output", v>> /\ Location(w) = <<"output", w>>
    BY <1>2, <1>5, <1>6, <1>10
  <2>2. <<"output", v>> # <<"output", w>>
    OBVIOUS
  <2> QED
    BY <2>1, <2>2, Zenon
<1> QED
  BY <1>9, <1>10

-----------------------------------------------------------------------------
(* BarrierTest, with the operations that count or choose.                    *)
Counting == {"add", "sub", "max", "min", "wrapinc", "wrapdec"}

\* CoreConfig's barrier set has one full work-group; the test on the group
\* segment could have several.
BarrierIsFull(c) ==
    /\ c.last = c.size
    /\ c.segment # "group" => c.groups = 1
    /\ c.segment = "group" /\ c.atomicOp # "min" => c.size >= 2

IsCounting(c) == c.test = "barrier" /\ c.atomicOp \in Counting /\ BarrierIsFull(c)

LEMMA FullGroup ==
  ASSUME NEW c \in Cases, c.last = c.size, NEW g \in Groups(c)
  PROVE  /\ \A wi \in ItemsOfGroup(c, g) : FlatId(c, wi) \in 0..(c.size - 1)
         /\ \A k \in 0..(c.size - 1) : \E wi \in ItemsOfGroup(c, g) : FlatId(c, wi) = k
         /\ IsFiniteSet(ItemsOfGroup(c, g))
         /\ Cardinality(ItemsOfGroup(c, g)) = c.size
<1> DEFINE s == c.size  n == c.groups  I == (g * s)..(g * s + s - 1)
<1>1. s \in Nat /\ s >= 1 /\ n \in Nat /\ n >= 1 /\ g \in Nat /\ g < n
  BY CasesAssumption DEF Groups
<1>2. GridSize(c) = (n - 1) * s + s
  BY DEF GridSize
<1>3. GridSize(c) = n * s
  <2> HIDE DEF n, s
  <2> QED
    BY <1>1, <1>2
<1>4. g * s + s <= n * s /\ g * s \in Nat
  <2>1. (g + 1) * s <= n * s
    <3> HIDE DEF n, s
    <3>1. n - (g + 1) \in Nat
      BY <1>1
    <3>2. (n - (g + 1)) * s \in Nat
      BY <3>1, <1>1
    <3> QED
      BY <3>2, <1>1
  <2> HIDE DEF n, s
  <2> QED
    BY <2>1, <1>1
<1>5. ASSUME NEW k \in 0..(s - 1)
      PROVE  g * s + k \in ItemsOfGroup(c, g) /\ FlatId(c, g * s + k) = k
  <2> DEFINE x == g * s + k
  <2>1. x \in 0..(n * s - 1)
    <3> DEFINE gs == g * s  ns == n * s
    <3>1. gs \in Nat /\ ns \in Int
      BY <1>1, <1>4
    <3>2. gs + s <= ns
      BY <1>4
    <3>3. s \in Nat
      BY <1>1
    <3> HIDE DEF gs, ns, s
    <3>4. gs + k \in 0..(ns - 1)
      BY <3>1, <3>2, <3>3
    <3> QED
      BY <3>4 DEF gs, ns
  <2>2. x \div s = g /\ x % s = k
    <3>1. x = s * g + k
      <4> HIDE DEF s
      <4> QED
        BY <1>1
    <3>2. x \in Int /\ k \in Int /\ 0 <= k /\ k < s /\ s \in Nat \ {0} /\ g \in Int
      BY <1>1, <2>1
    <3> HIDE DEF x, s
    <3> QED
      BY <3>1, <3>2, RemainderIs
  <2>3. x \in WorkItems(c)
    BY <1>3, <2>1 DEF WorkItems
  <2> QED
    BY <2>2, <2>3 DEF ItemsOfGroup, GroupOf, FlatId
<1>6. ASSUME NEW wi \in ItemsOfGroup(c, g)
      PROVE  FlatId(c, wi) \in 0..(s - 1) /\ wi = g * s + FlatId(c, wi)
  <2>1. wi \in WorkItems(c) /\ GroupOf(c, wi) = g
    BY DEF ItemsOfGroup
  <2> QED
    BY <2>1, GeometryTypes
<1>7. ItemsOfGroup(c, g) = I
  <2>1. ASSUME NEW wi \in ItemsOfGroup(c, g) PROVE wi \in I
    <3> DEFINE f == FlatId(c, wi)
    <3>1. f \in 0..(s - 1) /\ wi = g * s + f
      BY <1>6
    <3> HIDE DEF f, s
    <3> QED
      BY <1>1, <1>4, <3>1
  <2>2. ASSUME NEW x \in I PROVE x \in ItemsOfGroup(c, g)
    <3>1. x - g * s \in 0..(s - 1) /\ x = g * s + (x - g * s)
      <4> HIDE DEF s
      <4> QED
        BY <1>1, <1>4
    <3> QED
      BY <1>5, <3>1
  <2> QED
    BY <2>1, <2>2
<1>8. IsFiniteSet(I) /\ Cardinality(I) = s
  <2> DEFINE a == g * s  b == a + s - 1
  <2>1. a \in Int /\ b \in Int /\ b = a + s - 1 /\ s >= 1 /\ s \in Nat
    BY <1>1, <1>4
  <2>2. I = a..b
    OBVIOUS
  <2> HIDE DEF I, s, a, b
  <2>3. IsFiniteSet(a..b) /\ Cardinality(a..b) = IF a > b THEN 0 ELSE b - a + 1
    BY <2>1, FS_Interval
  <2> QED
    BY <2>1, <2>2, <2>3
<1> QED
  BY <1>5, <1>6, <1>7, <1>8

\* What the variable of a group holds when the work-items of D have done their
\* operation.
Counted(c, D, m) ==
    CASE c.atomicOp \in {"add", "wrapinc"} -> m = Cardinality(D)
      [] c.atomicOp = "sub"     -> m = c.size + 1 - Cardinality(D)
      [] c.atomicOp = "wrapdec" -> m = c.size - Cardinality(D)
      [] c.atomicOp = "max"     -> /\ m \in Nat /\ \A d \in D : FlatId(c, d) <= m
                                   /\ m = 0 \/ \E d \in D : FlatId(c, d) = m
      [] c.atomicOp = "min"     -> /\ m \in Nat /\ \A d \in D : m <= c.size - FlatId(c, d)
                                   /\ m = c.size + 1 \/ \E d \in D : m = c.size - FlatId(c, d)

\* On the one work-group of the grid, the absolute id is the id in the group.
LEMMA OneGroup ==
  ASSUME NEW c \in Cases, BarrierIsFull(c)
  PROVE  /\ sizeX(c) = c.size
         /\ \A wi \in WorkItems(c) :
               (IF c.segment = "group" THEN FlatId(c, wi) ELSE wi) = FlatId(c, wi)
<1>1. CASE c.segment = "group"
  BY <1>1 DEF sizeX
<1>2. CASE c.segment # "group"
  <2>1. c.groups = 1 /\ c.last = c.size /\ c.size \in Nat
    BY <1>2, CasesAssumption DEF BarrierIsFull
  <2>2. sizeX(c) = (1 - 1) * c.size + c.size
    BY <1>2, <2>1 DEF sizeX, GridSize
  <2>3. ASSUME NEW wi \in WorkItems(c) PROVE wi = FlatId(c, wi)
    <3> DEFINE f == FlatId(c, wi)  g == GroupOf(c, wi)
    <3>1. g \in 0..(1 - 1) /\ wi = g * c.size + f /\ f \in 0..(c.size - 1)
      BY <2>1, GeometryTypes DEF Groups
    <3>2. g = 0
      BY <3>1
    <3> HIDE DEF f, g
    <3>3. wi = f
      BY <2>1, <3>1, <3>2
    <3> QED
      BY <3>3 DEF f
  <2> QED
    BY <1>2, <2>1, <2>2, <2>3
<1> QED
  BY <1>1, <1>2

LEMMA OperandIs ==
  ASSUME NEW c \in Cases, IsCounting(c), NEW wi \in WorkItems(c)
  PROVE  BarrierOperand(c, wi) =
            CASE c.atomicOp = "max" -> FlatId(c, wi)
              [] c.atomicOp = "min" -> c.size - FlatId(c, wi)
              [] c.atomicOp = "wrapinc" -> c.size
              [] c.atomicOp = "wrapdec" -> c.size + 1
              [] OTHER -> 1
<1> DEFINE id == IF c.segment = "group" THEN FlatId(c, wi) ELSE wi
<1>1. id = FlatId(c, wi) /\ sizeX(c) = c.size
  BY OneGroup DEF IsCounting
<1>2. BarrierOperand(c, wi) =
            CASE c.atomicOp = "max" -> id
              [] c.atomicOp = "min" -> sizeX(c) - id
              [] c.atomicOp = "or" -> 2^(id \div c.wave)
              [] c.atomicOp \in {"and", "xor"} -> WORD - 2^(id \div c.wave)
              [] c.atomicOp = "wrapinc" -> sizeX(c)
              [] c.atomicOp = "wrapdec" -> sizeX(c) + 1
              [] OTHER -> 1
  BY DEF BarrierOperand
<1> HIDE DEF id
<1>3. c.atomicOp \in {"add", "sub", "max", "min", "wrapinc", "wrapdec"}
  BY DEF IsCounting, Counting
<1>4. CASE c.atomicOp = "max"
  BY <1>1, <1>2, <1>4
<1>5. CASE c.atomicOp = "min"
  BY <1>1, <1>2, <1>5
<1>6. CASE c.atomicOp = "wrapinc"
  BY <1>1, <1>2, <1>6
<1>7. CASE c.atomicOp = "wrapdec"
  BY <1>1, <1>2, <1>7
<1>8. CASE c.atomicOp \in {"add", "sub"}
  BY <1>1, <1>2, <1>8
<1> QED
  BY <1>3, <1>4, <1>5, <1>6, <1>7, <1>8

LEMMA CountsFrom ==
  ASSUME NEW c \in Cases, IsCounting(c)
  PROVE  Counted(c, {}, InitialValue(c))
<1>1. sizeX(c) = c.size /\ c.size \in Nat /\ c.atomicOp \in Counting
  BY OneGroup, CasesAssumption DEF IsCounting
<1>2. Cardinality({}) = 0
  BY FS_EmptySet
<1>3. InitialValue(c) = CASE c.atomicOp \in {"min", "sub"} -> c.size + 1
                          [] c.atomicOp = "wrapdec" -> c.size
                          [] OTHER -> 0
  BY <1>1 DEF InitialValue, Counting
<1>4. CASE c.atomicOp \in {"add", "wrapinc"}
  BY <1>1, <1>2, <1>3, <1>4 DEF Counted
<1>5. CASE c.atomicOp = "sub"
  BY <1>1, <1>2, <1>3, <1>5 DEF Counted
<1>6. CASE c.atomicOp = "wrapdec"
  BY <1>1, <1>2, <1>3, <1>6 DEF Counted
<1>7. CASE c.atomicOp = "max"
  BY <1>1, <1>2, <1>3, <1>7 DEF Counted
<1>8. CASE c.atomicOp = "min"
  BY <1>1, <1>2, <1>3, <1>8 DEF Counted
<1> QED
  BY <1>1, <1>4, <1>5, <1>6, <1>7, <1>8 DEF Counting

LEMMA CountsOn ==
  ASSUME NEW c \in Cases, IsCounting(c), NEW g \in Groups(c),
         NEW D \in SUBSET ItemsOfGroup(c, g), NEW wi \in ItemsOfGroup(c, g) \ D,
         NEW m, Counted(c, D, m)
  PROVE  Counted(c, D \cup {wi}, Atomically(c.atomicOp, m, BarrierOperand(c, wi), 0))
<1> DEFINE s == c.size  x == BarrierOperand(c, wi)  f == FlatId(c, wi)
           E == D \cup {wi}  k == Cardinality(D)
<1>0. c.atomicOp \in Counting /\ c.last = c.size /\ s \in Nat
  BY CasesAssumption DEF IsCounting, BarrierIsFull
<1>1. wi \in WorkItems(c)
  BY DEF ItemsOfGroup
<1>2. /\ k \in Nat /\ Cardinality(E) = k + 1 /\ k + 1 <= s
  <2>1. IsFiniteSet(ItemsOfGroup(c, g)) /\ Cardinality(ItemsOfGroup(c, g)) = s
    BY <1>0, FullGroup
  <2>2. IsFiniteSet(D)
    BY <2>1, FS_Subset
  <2>3. k \in Nat /\ Cardinality(E) = k + 1
    BY <2>2, FS_AddElement, FS_CardinalityType
  <2>4. E \in SUBSET ItemsOfGroup(c, g)
    OBVIOUS
  <2>5. Cardinality(E) <= s
    BY <2>1, <2>4, FS_Subset
  <2> QED
    BY <2>3, <2>5
<1>3. f \in 0..(s - 1)
  BY <1>0, FullGroup
<1>4. x = CASE c.atomicOp = "max" -> f
            [] c.atomicOp = "min" -> s - f
            [] c.atomicOp = "wrapinc" -> s
            [] c.atomicOp = "wrapdec" -> s + 1
            [] OTHER -> 1
  BY <1>1, OperandIs
<1> HIDE DEF x
<1>5. \A op \in Counting : m # Undef => Atomically(op, m, x, 0) = Modified(op, m, x, 0)
  BY DEF Atomically, Counting
<1>6. \A d \in D : FlatId(c, d) \in 0..(s - 1)
  BY <1>0, FullGroup
<1>7. CASE c.atomicOp = "add"
  <2>1. m = k
    BY <1>7 DEF Counted
  <2>2. Atomically("add", m, x, 0) = k + 1
    BY <1>2, <1>4, <1>5, <1>7, <2>1 DEF Modified, Counting, Undef
  <2> HIDE DEF k
  <2> QED
    BY <1>2, <1>7, <2>2 DEF Counted, x
<1>8. CASE c.atomicOp = "wrapinc"
  <2>1. m = k
    BY <1>8 DEF Counted
  <2>2. Atomically("wrapinc", m, x, 0) = k + 1
    <3>1. m # Undef /\ ~(m >= x)
      BY <1>0, <1>2, <1>4, <1>8, <2>1 DEF Undef
    <3> QED
      BY <3>1, <1>5, <2>1 DEF Modified, Counting
  <2> HIDE DEF k
  <2> QED
    BY <1>2, <1>8, <2>2 DEF Counted, x
<1>9. CASE c.atomicOp = "sub"
  <2>1. m = s + 1 - k
    BY <1>9 DEF Counted
  <2>2. Atomically("sub", m, x, 0) = s - k
    <3>1. m # Undef /\ x = 1
      BY <1>0, <1>2, <1>4, <1>9, <2>1 DEF Undef
    <3>2. Modified("sub", m, x, 0) = m - x
      BY DEF Modified
    <3>3. Atomically("sub", m, x, 0) = m - 1
      BY <3>1, <3>2, <1>5 DEF Counting
    <3> HIDE DEF k, s
    <3> QED
      BY <3>3, <1>0, <1>2, <2>1
  <2>3. s - k = s + 1 - Cardinality(E)
    BY <1>0, <1>2
  <2> HIDE DEF k
  <2> QED
    BY <1>9, <2>2, <2>3 DEF Counted, x
<1>10. CASE c.atomicOp = "wrapdec"
  <2>1. m = s - k
    BY <1>10 DEF Counted
  <2>2. Atomically("wrapdec", m, x, 0) = m - 1
    <3>1. m # Undef /\ ~(m = 0 \/ m > x)
      BY <1>0, <1>2, <1>4, <1>10, <2>1 DEF Undef
    <3> QED
      BY <3>1, <1>5, <2>1 DEF Modified, Counting
  <2>3. m - 1 = s - Cardinality(E)
    BY <1>0, <1>2, <2>1
  <2> QED
    BY <1>10, <2>2, <2>3 DEF Counted, x
<1>11. CASE c.atomicOp = "max"
  <2>1. /\ m \in Nat /\ \A d \in D : FlatId(c, d) <= m
        /\ m = 0 \/ \E d \in D : FlatId(c, d) = m
    BY <1>11 DEF Counted
  <2> DEFINE n == IF m < f THEN f ELSE m
  <2>2. Atomically("max", m, x, 0) = n
    BY <1>4, <1>5, <1>11, <2>1 DEF Modified, Counting, Undef
  <2>3. n \in Nat /\ \A d \in E : FlatId(c, d) <= n
    BY <1>3, <1>6, <2>1
  <2>4. n = 0 \/ \E d \in E : FlatId(c, d) = n
    BY <2>1
  <2> HIDE DEF n
  <2> QED
    BY <1>11, <2>2, <2>3, <2>4 DEF Counted, x
<1>12. CASE c.atomicOp = "min"
  <2>1. /\ m \in Nat /\ \A d \in D : m <= s - FlatId(c, d)
        /\ m = s + 1 \/ \E d \in D : m = s - FlatId(c, d)
    BY <1>12 DEF Counted
  <2> DEFINE n == IF m > s - f THEN s - f ELSE m
  <2>2. Atomically("min", m, x, 0) = n
    BY <1>4, <1>5, <1>12, <2>1 DEF Modified, Counting, Undef
  <2>3. n \in Nat /\ \A d \in E : n <= s - FlatId(c, d)
    BY <1>0, <1>3, <1>6, <2>1
  <2>4. n = s + 1 \/ \E d \in E : n = s - FlatId(c, d)
    BY <2>1
  <2> HIDE DEF n
  <2> QED
    BY <1>12, <2>2, <2>3, <2>4 DEF Counted, x
<1> QED
  BY <1>0, <1>7, <1>8, <1>9, <1>10, <1>11, <1>12 DEF Counting

LEMMA CountsAll ==
  ASSUME NEW c \in Cases, IsCounting(c), NEW g \in Groups(c),
         NEW m, Counted(c, ItemsOfGroup(c, g), m)
  PROVE  m = BarrierExpected(c)
<1> DEFINE s == c.size  I == ItemsOfGroup(c, g)
<1>0. c.atomicOp \in Counting /\ c.last = c.size /\ s \in Nat /\ s >= 1 /\ sizeX(c) = s
  BY CasesAssumption, OneGroup DEF IsCounting, BarrierIsFull
<1>1. /\ \A d \in I : FlatId(c, d) \in 0..(s - 1)
      /\ Cardinality(I) = s
      /\ \A k \in 0..(s - 1) : \E d \in I : FlatId(c, d) = k
  BY <1>0, FullGroup
<1>2. PICK d \in I : FlatId(c, d) = s - 1
  BY <1>0, <1>1
<1>3. BarrierExpected(c) = CASE c.atomicOp \in {"wrapinc", "add"} -> s
                             [] c.atomicOp = "wrapdec" -> 0
                             [] c.atomicOp = "max" -> s - 1
                             [] OTHER -> 1
  BY <1>0 DEF BarrierExpected, Counting
<1>4. CASE c.atomicOp \in {"add", "wrapinc"}
  BY <1>1, <1>3, <1>4 DEF Counted
<1>5. CASE c.atomicOp = "sub"
  <2>1. m = s + 1 - s
    BY <1>1, <1>5 DEF Counted
  <2> QED
    BY <1>0, <1>3, <1>5, <2>1
<1>6. CASE c.atomicOp = "wrapdec"
  <2>1. m = s - s
    BY <1>1, <1>6 DEF Counted
  <2> QED
    BY <1>0, <1>3, <1>6, <2>1
<1>7. CASE c.atomicOp = "max"
  <2>1. m \in Nat /\ s - 1 <= m /\ (m = 0 \/ \E e \in I : FlatId(c, e) = m)
    BY <1>2, <1>7 DEF Counted
  <2>2. m = s - 1
    BY <1>0, <1>1, <2>1
  <2> QED
    BY <1>3, <1>7, <2>2
<1>8. CASE c.atomicOp = "min"
  <2>1. m \in Nat /\ m <= s - (s - 1) /\ (m = s + 1 \/ \E e \in I : m = s - FlatId(c, e))
    BY <1>2, <1>8 DEF Counted
  <2>2. m = 1
    BY <1>0, <1>1, <2>1
  <2> QED
    BY <1>3, <1>8, <2>2
<1> QED
  BY <1>0, <1>4, <1>5, <1>6, <1>7, <1>8 DEF Counting

\* The program: the full list of instructions, of which a work-item that does
\* not store the first value skips the first, and all skip two where the host
\* initialises the variable.
VarOf(c, g) == IF c.segment = "group" THEN <<"group_var", g, 0>> ELSE <<"global_var", 0>>
BarrierList(c, wi) ==
    << [op |-> "atomic", fun |-> "st", dst |-> 0, addr |-> VarOf(c, GroupOf(c, wi)),
        x |-> <<"imm", InitialValue(c)>>, y |-> <<"imm", 0>>],
       [op |-> "barrier"],
       [op |-> "atomic", fun |-> c.atomicOp, dst |-> 0, addr |-> VarOf(c, GroupOf(c, wi)),
        x |-> <<"imm", BarrierOperand(c, wi)>>, y |-> <<"imm", 0>>],
       [op |-> "barrier"],
       [op |-> "atomic", fun |-> "ld", dst |-> 1, addr |-> VarOf(c, GroupOf(c, wi)),
        x |-> <<"imm", 0>>, y |-> <<"imm", 0>>],
       [op |-> "st", addr |-> <<"output", wi>>, x |-> <<"reg", 1>>] >>
StoresFirstValue(c, wi) ==
    (IF c.atomicOp = "min" THEN sizeX(c) - FlatId(c, wi) ELSE FlatId(c, wi)) = 1
Skips(c, wi) ==
    IF c.segment # "group" THEN 2 ELSE IF StoresFirstValue(c, wi) THEN 0 ELSE 1

LEMMA BarrierProgram ==
  ASSUME NEW c, IsCounting(c), NEW wi
  PROVE  /\ DOMAIN Program(c, wi) = 1..(6 - Skips(c, wi))
         /\ Len(Program(c, wi)) = 6 - Skips(c, wi)
         /\ \A n \in 1..(6 - Skips(c, wi)) :
               Program(c, wi)[n] = BarrierList(c, wi)[n + Skips(c, wi)]
<1> DEFINE v == VarOf(c, GroupOf(c, wi))
           i1 == [op |-> "atomic", fun |-> "st", dst |-> 0, addr |-> v,
                  x |-> <<"imm", InitialValue(c)>>, y |-> <<"imm", 0>>]
           i2 == [op |-> "barrier"]
           i3 == [op |-> "atomic", fun |-> c.atomicOp, dst |-> 0, addr |-> v,
                  x |-> <<"imm", BarrierOperand(c, wi)>>, y |-> <<"imm", 0>>]
           i5 == [op |-> "atomic", fun |-> "ld", dst |-> 1, addr |-> v,
                  x |-> <<"imm", 0>>, y |-> <<"imm", 0>>]
           i6 == [op |-> "st", addr |-> <<"output", wi>>, x |-> <<"reg", 1>>]
<1>0. c.test = "barrier" /\ c.atomicOp # "xor"
  BY DEF IsCounting, Counting
<1>1. Program(c, wi) = BarrierTest(c, wi)
  BY <1>0 DEF Program
<1>2. BarrierVar(c, wi) = v
  BY DEF BarrierVar, VarOf, GroupVar, Global
<1> DEFINE P == c.segment = "group"  Q == StoresFirstValue(c, wi)
<1>3. FirstValueStored(c, wi) = Only(Q, <<i1>>) \o <<i2>>
  BY <1>2 DEF FirstValueStored, StoresFirstValue, AtomicSt, Atomic, Imm, NoReg, Barrier
<1>4. BarrierTest(c, wi) =
        Only(P, FirstValueStored(c, wi)) \o <<i3>> \o <<i2>> \o <<i5>> \o <<i6>>
  BY <1>0, <1>2 DEF BarrierTest, Only, SkipsXor, AtomicLd, Atomic, Imm, NoReg, Barrier,
                    StoreData, St, Global, Reg
<1>5. BarrierList(c, wi) = <<i1, i2, i3, i2, i5, i6>>
  BY DEF BarrierList
<1> HIDE DEF i1, i2, i3, i5, i6
<1>6. CASE P /\ Q
  <2>1. BarrierTest(c, wi) = Joined6(i1, i2, i3, i2, i5, i6)
    BY <1>3, <1>4, <1>6, Zenon DEF Only, Joined6
  <2>2. Joined6(i1, i2, i3, i2, i5, i6) = Listed6(i1, i2, i3, i2, i5, i6)
    BY Program6
  <2>3. Program(c, wi) = <<i1, i2, i3, i2, i5, i6>> /\ Skips(c, wi) = 0
    BY <1>1, <1>6, <2>1, <2>2 DEF Listed6, Skips
  <2> QED
    BY <1>5, <2>3
<1>7. CASE P /\ ~Q
  <2>1. BarrierTest(c, wi) = <<>> \o <<i2>> \o <<i3>> \o <<i2>> \o <<i5>> \o <<i6>>
    BY <1>3, <1>4, <1>7, Zenon DEF Only
  <2>2. <<>> \o <<i2>> = <<i2>>
    BY Nothing1, Zenon
  <2>3. <<i2>> \o <<i3>> \o <<i2>> \o <<i5>> \o <<i6>> = <<i2, i3, i2, i5, i6>>
    BY Code5, Zenon
  <2>4. Program(c, wi) = <<i2, i3, i2, i5, i6>>
    BY <1>1, <2>1, <2>2, <2>3, Zenon
  <2>5. Skips(c, wi) = 1
    BY <1>7 DEF Skips
  <2> QED
    BY <1>5, <2>4, <2>5
<1>8. CASE ~P
  <2>1. BarrierTest(c, wi) = <<>> \o <<i3>> \o <<i2>> \o <<i5>> \o <<i6>>
    BY <1>4, <1>8, Zenon DEF Only
  <2>2. <<>> \o <<i3>> = <<i3>>
    BY Nothing1, Zenon
  <2>3. <<i3>> \o <<i2>> \o <<i5>> \o <<i6>> = <<i3, i2, i5, i6>>
    BY Code4, Zenon
  <2>4. Program(c, wi) = <<i3, i2, i5, i6>>
    BY <1>1, <2>1, <2>2, <2>3, Zenon
  <2>5. Skips(c, wi) = 2
    BY <1>8 DEF Skips
  <2> QED
    BY <1>5, <2>4, <2>5
<1> QED
  BY <1>6, <1>7, <1>8

Stage(wi) == pc[wi] + Skips(case, wi)

LEMMA BarrierInstructions ==
  ASSUME Basic, IsCounting(case), NEW wi \in WorkItems(case), pc[wi] >= 1
  PROVE  /\ Ended(wi) <=> Stage(wi) > 6
         /\ Stage(wi) \in Nat /\ Stage(wi) >= 1 + Skips(case, wi)
         /\ Stage(wi) = 1 => At(wi) = BarrierList(case, wi)[1]
         /\ Stage(wi) = 2 => At(wi) = [op |-> "barrier"]
         /\ Stage(wi) = 3 => At(wi) = BarrierList(case, wi)[3]
         /\ Stage(wi) = 4 => At(wi) = [op |-> "barrier"]
         /\ Stage(wi) = 5 => At(wi) = BarrierList(case, wi)[5]
         /\ Stage(wi) = 6 => At(wi) = BarrierList(case, wi)[6]
<1>1. Code(wi) = Program(case, wi)
  BY CodeIs
<1>2. pc[wi] \in Nat
  BY DEF Basic
<1>3. Skips(case, wi) \in {0, 1, 2}
  BY DEF Skips
<1>4. Ended(wi) <=> Stage(wi) > 6
  BY <1>1, <1>2, <1>3, BarrierProgram DEF Ended, Stage
<1>5. ASSUME Stage(wi) \in 1..6 PROVE At(wi) = BarrierList(case, wi)[Stage(wi)]
  <2>1. pc[wi] \in 1..(6 - Skips(case, wi))
    BY <1>2, <1>3, <1>5 DEF Stage
  <2> QED
    BY <1>1, <2>1, BarrierProgram DEF At, Stage
<1>6. BarrierList(case, wi)[2] = [op |-> "barrier"] /\ BarrierList(case, wi)[4] = [op |-> "barrier"]
  BY DEF BarrierList
<1>7. Stage(wi) \in Nat /\ Stage(wi) >= 1 + Skips(case, wi)
  BY <1>2, <1>3 DEF Stage
<1> QED
  BY <1>4, <1>5, <1>6, <1>7

\* Barriers, and steps of work-items.
LEMMA RunsWithBarriers ==
  ASSUME Basic, [Next]_vars,
         \A wi \in WorkItems(case) :
            ~Ended(wi) => At(wi).op \in {"ld", "st", "atomic", "until", "barrier"}
  PROVE  \/ UNCHANGED vars
         \/ \E wi \in WorkItems(case) : Runs(wi)
         \/ \E g \in Groups(case) : DoBarrier(g)
<1>1. ASSUME NEW w \in AllWaves(case), DoWaveBarrier(w) PROVE UNCHANGED vars
  <2>1. ItemsOfWave(case, w) = {}
    <3>1. \A wi \in ItemsOfWave(case, w) : wi \in WorkItems(case) /\ IsAt(wi, "wavebarrier")
      BY <1>1 DEF DoWaveBarrier, ItemsOfWave
    <3> QED
      BY <3>1 DEF IsAt, CanRun
  <2>2. GoOn({}) /\ UNCHANGED <<case, regs, mem, fbar, undef>>
    BY <1>1, <2>1 DEF DoWaveBarrier
  <2> QED
    BY <2>2 DEF GoOn, Basic, vars
<1>2. ASSUME NEW w \in AllWaves(case), DoFbarrier(w) PROVE FALSE
  <2>1. PICK wi \in WorkItems(case) : WaveOf(case, wi) = w
    BY DEF AllWaves
  <2>2. wi \in ItemsOfWave(case, w)
    BY <2>1 DEF ItemsOfWave
  <2>3. IsAt(wi, "fbar")
    BY <1>2, <2>2 DEF DoFbarrier
  <2> QED
    BY <2>3 DEF IsAt, CanRun
<1> QED
  BY <1>1, <1>2, Alone

LEMMA Gathers ==
  ASSUME Basic, NEW g \in Groups(case), DoBarrier(g)
  PROVE  /\ \A wi \in WorkItems(case) :
               pc'[wi] = IF GroupOf(case, wi) = g THEN pc[wi] + 1 ELSE pc[wi]
         /\ \A wi \in WorkItems(case) :
               GroupOf(case, wi) = g => ~Ended(wi) /\ At(wi).op = "barrier"
         /\ UNCHANGED <<case, regs, mem, fbar, undef>>
<1>1. \A wi \in WorkItems(case) : wi \in ItemsOfGroup(case, g) <=> GroupOf(case, wi) = g
  BY DEF ItemsOfGroup
<1>2. \A wi \in ItemsOfGroup(case, g) : IsAt(wi, "barrier")
  BY DEF DoBarrier
<1>3. \A wi \in WorkItems(case) :
         pc'[wi] = IF wi \in ItemsOfGroup(case, g) THEN pc[wi] + 1 ELSE pc[wi]
  BY Moves DEF DoBarrier
<1>4. UNCHANGED <<case, regs, mem, fbar, undef>>
  BY DEF DoBarrier
<1> QED
  BY <1>1, <1>2, <1>3, <1>4 DEF IsAt, CanRun

\* The barriers keep the work-items of a group together, and between them the
\* variable counts the work-items that have done their operation.
BarrierOf(wi) ==
    /\ pc[wi] >= 1 /\ Stage(wi) <= 7
    /\ Stage(wi) = 6 => regs[wi][1] = BarrierExpected(case)
    /\ Stage(wi) = 7 => mem[<<"output", wi>>] = BarrierExpected(case)

Done(g) == {wi \in ItemsOfGroup(case, g) : Stage(wi) >= 4}

GroupOfBarrier(g) ==
    /\ \A v, w \in ItemsOfGroup(case, g) :
          (Stage(v) > 2 => Stage(w) > 2) /\ (Stage(v) > 4 => Stage(w) > 4)
    /\ \A v \in ItemsOfGroup(case, g) :
          Skips(case, v) = 0 /\ Stage(v) = 2 => mem[VarOf(case, g)] = InitialValue(case)
    /\ (\A v \in ItemsOfGroup(case, g) : Stage(v) > 2)
          => Counted(case, Done(g), mem[VarOf(case, g)])

BarrierInv ==
    /\ \A wi \in WorkItems(case) : BarrierOf(wi)
    /\ \A g \in Groups(case) : GroupOfBarrier(g)

LEMMA BarrierMemory ==
  ASSUME NEW c, IsCounting(c), NEW wi \in WorkItems(c)
  PROVE  VarOf(c, GroupOf(c, wi)) \in Addresses(c) /\ <<"output", wi>> \in Addresses(c)
<1> DEFINE n3 == 3 - Skips(c, wi)  n6 == 6 - Skips(c, wi)
<1>1. Skips(c, wi) \in {0, 1, 2}
  BY DEF Skips
<1>2. n3 \in 1..(6 - Skips(c, wi)) /\ n6 \in 1..(6 - Skips(c, wi))
  BY <1>1
<1>3. n3 + Skips(c, wi) = 3 /\ n6 + Skips(c, wi) = 6
  BY <1>1
<1> HIDE DEF n3, n6
<1>4. Program(c, wi)[n3] = BarrierList(c, wi)[3] /\ Program(c, wi)[n6] = BarrierList(c, wi)[6]
  BY <1>2, <1>3, BarrierProgram
<1>5. n3 \in DOMAIN Program(c, wi) /\ n6 \in DOMAIN Program(c, wi)
  BY <1>2, BarrierProgram
<1>6. /\ BarrierList(c, wi)[3].addr = VarOf(c, GroupOf(c, wi)) /\ "addr" \in DOMAIN BarrierList(c, wi)[3]
      /\ BarrierList(c, wi)[6].addr = <<"output", wi>> /\ "addr" \in DOMAIN BarrierList(c, wi)[6]
  BY DEF BarrierList
<1>7. VarOf(c, GroupOf(c, wi))[1] # "flag" /\ <<"output", wi>>[1] # "flag"
  BY DEF VarOf
<1> HIDE DEF BarrierList
<1> QED
  BY <1>4, <1>5, <1>6, <1>7, InMemory

\* Groups have work-items, and variables of their own.
LEMMA GroupsApart ==
  ASSUME NEW c \in Cases, IsCounting(c), NEW g \in Groups(c)
  PROVE  /\ \E wi \in ItemsOfGroup(c, g) : wi \in WorkItems(c) /\ GroupOf(c, wi) = g
         /\ VarOf(c, g) \in Addresses(c)
         /\ \A h \in Groups(c) : VarOf(c, g) = VarOf(c, h) => g = h
         /\ \A wi : VarOf(c, g) # <<"output", wi>>
<1>0. c.last = c.size /\ c.size \in Nat /\ c.size >= 1
  BY CasesAssumption DEF IsCounting, BarrierIsFull
<1>1. PICK wi \in ItemsOfGroup(c, g) : FlatId(c, wi) = 0
  BY <1>0, FullGroup
<1>2. wi \in WorkItems(c) /\ GroupOf(c, wi) = g
  BY DEF ItemsOfGroup
<1>3. VarOf(c, g) \in Addresses(c)
  BY <1>2, BarrierMemory
<1>4. \A h \in Groups(c) : VarOf(c, g) = VarOf(c, h) => g = h
  <2>1. CASE c.segment = "group"
    BY <2>1 DEF VarOf
  <2>2. CASE c.segment # "group"
    <3>1. c.groups = 1
      BY <2>2 DEF IsCounting, BarrierIsFull
    <3>2. \A h \in 0..(1 - 1) : h = 0
      OBVIOUS
    <3> QED
      BY <3>1, <3>2 DEF Groups
  <2> QED
    BY <2>1, <2>2
<1>5. \A v : VarOf(c, g) # <<"output", v>>
  BY DEF VarOf
<1> QED
  BY <1>2, <1>3, <1>4, <1>5

LEMMA BarrierDispatched ==
  ASSUME Init, IsCounting(case)
  PROVE  BarrierInv
<1>0. case \in Cases /\ Basic
  BY Dispatched DEF Init
<1>1. \A wi \in WorkItems(case) : pc[wi] = 1
  BY DEF Init
<1>2. \A wi : Skips(case, wi) \in {0, 1, 2}
  BY DEF Skips
<1>3. \A wi \in WorkItems(case) : Stage(wi) = 1 + Skips(case, wi) /\ Stage(wi) \in {1, 2, 3}
  BY <1>1, <1>2 DEF Stage
<1>4. ASSUME NEW wi \in WorkItems(case) PROVE BarrierOf(wi)
  BY <1>1, <1>3 DEF BarrierOf
<1>5. ASSUME NEW g \in Groups(case) PROVE GroupOfBarrier(g)
  <2>1. ItemsOfGroup(case, g) \subseteq WorkItems(case)
    BY DEF ItemsOfGroup
  <2>2. CASE case.segment = "group"
    <3>1. \A wi : Skips(case, wi) \in {0, 1}
      BY <2>2 DEF Skips
    <3>2. \A wi \in ItemsOfGroup(case, g) : Stage(wi) \in {1, 2} /\ (Stage(wi) = 2 => Skips(case, wi) = 1)
      BY <1>3, <2>1, <3>1
    <3>3. ItemsOfGroup(case, g) # {}
      BY <1>0, GroupsApart
    <3> QED
      BY <3>2, <3>3 DEF GroupOfBarrier
  <2>3. CASE case.segment # "group"
    <3>1. \A wi : Skips(case, wi) = 2
      BY <2>3 DEF Skips
    <3>2. \A wi \in ItemsOfGroup(case, g) : Stage(wi) = 3
      BY <1>3, <2>1, <3>1
    <3>3. Done(g) = {}
      BY <3>2 DEF Done
    <3>4. VarOf(case, g) = <<"global_var", 0>> /\ VarOf(case, g) \in Addresses(case)
      BY <1>0, <2>3, GroupsApart DEF VarOf
    <3>5. mem[VarOf(case, g)] = InitialValue(case)
      BY <3>4 DEF Init, InitialMemory
    <3>6. Counted(case, {}, InitialValue(case))
      BY <1>0, CountsFrom
    <3> QED
      BY <3>1, <3>2, <3>3, <3>5, <3>6 DEF GroupOfBarrier
  <2> QED
    BY <2>2, <2>3
<1> QED
  BY <1>4, <1>5 DEF BarrierInv

LEMMA BarrierGathers ==
  ASSUME Basic, IsCounting(case), BarrierInv, NEW g \in Groups(case), DoBarrier(g)
  PROVE  BarrierInv'
<1> DEFINE I == ItemsOfGroup(case, g)
<1>0. case \in Cases
  BY DEF Basic
<1>1. /\ \A wi \in WorkItems(case) :
            pc'[wi] = IF GroupOf(case, wi) = g THEN pc[wi] + 1 ELSE pc[wi]
      /\ \A wi \in I : ~Ended(wi) /\ At(wi).op = "barrier"
      /\ UNCHANGED <<case, regs, mem, fbar, undef>>
  BY Gathers DEF ItemsOfGroup
<1>2. \A h : \A wi \in ItemsOfGroup(case, h) : wi \in WorkItems(case) /\ GroupOf(case, wi) = h
  BY DEF ItemsOfGroup
<1>3. \A wi \in WorkItems(case) : pc[wi] \in Nat /\ pc[wi] >= 1 /\ Skips(case, wi) \in {0, 1, 2}
  BY DEF BarrierInv, BarrierOf, Basic, Skips
<1>4. \A wi \in WorkItems(case) :
         /\ Stage(wi) \in Nat
         /\ Stage(wi)' = IF GroupOf(case, wi) = g THEN Stage(wi) + 1 ELSE Stage(wi)
  BY <1>1, <1>3 DEF Stage
<1>5. \A wi \in I : Stage(wi) = 2 \/ Stage(wi) = 4
  <2> SUFFICES ASSUME NEW wi \in I PROVE Stage(wi) = 2 \/ Stage(wi) = 4
    OBVIOUS
  <2>1. ~Ended(wi) /\ At(wi).op = "barrier" /\ wi \in WorkItems(case) /\ pc[wi] >= 1
    BY <1>1, <1>2, <1>3
  <2>2. Stage(wi) \in 1..6
    BY <2>1, BarrierInstructions DEF Skips
  <2>3. \A k \in {1, 3, 5, 6} : BarrierList(case, wi)[k].op # "barrier"
    BY DEF BarrierList
  <2> QED
    BY <2>1, <2>2, <2>3, BarrierInstructions
<1>6. (\A wi \in I : Stage(wi) = 2) \/ (\A wi \in I : Stage(wi) = 4)
  <2>1. \A v, w \in I : Stage(v) > 2 => Stage(w) > 2
    BY DEF BarrierInv, GroupOfBarrier
  <2>2. \A v, w \in I : Stage(v) = 4 => Stage(w) = 4
    BY <1>5, <2>1
  <2> QED
    BY <1>5, <2>2
<1>7. ASSUME NEW wi \in WorkItems(case) PROVE BarrierOf(wi)'
  <2>1. BarrierOf(wi)
    BY DEF BarrierInv
  <2>2. CASE GroupOf(case, wi) = g
    <3>1. wi \in I
      BY <2>2 DEF ItemsOfGroup
    <3>2. Stage(wi)' \in {3, 5} /\ pc'[wi] >= 1
      BY <1>1, <1>3, <1>4, <1>5, <2>2, <3>1
    <3> QED
      BY <3>2 DEF BarrierOf
  <2>3. CASE GroupOf(case, wi) # g
    <3>1. Stage(wi)' = Stage(wi) /\ pc'[wi] = pc[wi]
      BY <1>1, <1>4, <2>3
    <3> QED
      BY <1>1, <2>1, <3>1 DEF BarrierOf
  <2> QED
    BY <2>2, <2>3
<1>8. ASSUME NEW h \in Groups(case) PROVE GroupOfBarrier(h)'
  <2>0. GroupOfBarrier(h) /\ ItemsOfGroup(case, h)' = ItemsOfGroup(case, h)
    BY <1>1 DEF BarrierInv, ItemsOfGroup, WorkItems, GroupOf, GridSize
  <2>00. /\ VarOf(case, h)' = VarOf(case, h) /\ mem' = mem /\ case' = case
    BY <1>1 DEF VarOf
  <2>1. CASE h # g
    <3>1. \A wi \in ItemsOfGroup(case, h) : Stage(wi)' = Stage(wi)
      BY <1>2, <1>4, <2>1
    <3>2. Done(h)' = Done(h)
      BY <2>0, <3>1 DEF Done
    <3> QED
      BY <2>0, <2>00, <3>1, <3>2 DEF GroupOfBarrier
  <2>2. CASE h = g /\ \A wi \in I : Stage(wi) = 4
    <3>1. \A wi \in I : Stage(wi)' = 5
      BY <1>2, <1>4, <2>2
    <3>2. Done(g)' = Done(g)
      BY <2>0, <2>2, <3>1 DEF Done
    <3>3. Counted(case, Done(g), mem[VarOf(case, g)])
      BY <2>0, <2>2 DEF GroupOfBarrier
    <3> QED
      BY <2>0, <2>00, <2>2, <3>1, <3>2, <3>3 DEF GroupOfBarrier
  <2>3. CASE h = g /\ \A wi \in I : Stage(wi) = 2
    <3>1. \A wi \in I : Stage(wi)' = 3
      BY <1>2, <1>4, <2>3
    <3>2. Done(g)' = {}
      BY <2>0, <2>3, <3>1 DEF Done
    <3>3. \E v \in I : Skips(case, v) = 0
      <4>1. PICK u \in I : TRUE
        BY <1>0, GroupsApart
      <4>2. Skips(case, u) # 2
        BY <1>2, <1>3, <2>3 DEF Stage
      <4>3. case.segment = "group"
        BY <4>2 DEF Skips
      <4>4. case.last = case.size /\ case.size \in Nat /\ sizeX(case) = case.size
        BY <1>0, CasesAssumption, OneGroup DEF IsCounting, BarrierIsFull
      <4>5. CASE case.atomicOp = "min"
        <5>1. case.size - 1 \in 0..(case.size - 1)
          BY <1>0, <4>4, CasesAssumption
        <5>2. PICK v \in I : FlatId(case, v) = case.size - 1
          BY <1>0, <4>4, <5>1, FullGroup
        <5>3. case.size - (case.size - 1) = 1
          BY <4>4
        <5>4. StoresFirstValue(case, v)
          BY <4>4, <4>5, <5>2, <5>3 DEF StoresFirstValue
        <5> QED
          BY <4>3, <5>4 DEF Skips
      <4>6. CASE case.atomicOp # "min"
        <5>1. 1 \in 0..(case.size - 1)
          BY <4>3, <4>4, <4>6 DEF IsCounting, BarrierIsFull
        <5>2. PICK v \in I : FlatId(case, v) = 1
          BY <1>0, <4>4, <5>1, FullGroup
        <5>3. StoresFirstValue(case, v)
          BY <4>6, <5>2 DEF StoresFirstValue
        <5> QED
          BY <4>3, <5>3 DEF Skips
      <4> QED
        BY <4>5, <4>6
    <3>4. mem[VarOf(case, g)] = InitialValue(case)
      BY <2>0, <2>3, <3>3 DEF GroupOfBarrier
    <3>5. Counted(case, {}, InitialValue(case))
      BY <1>0, CountsFrom
    <3> QED
      BY <2>0, <2>00, <2>3, <3>1, <3>2, <3>4, <3>5 DEF GroupOfBarrier
  <2> QED
    BY <1>6, <2>1, <2>2, <2>3
<1> QED
  BY <1>1, <1>7, <1>8 DEF BarrierInv, Groups

\* A step of one work-item, by its stage.
BarrierStep(wi) ==
    LET V == VarOf(case, GroupOf(case, wi))
    IN  /\ pc' = [pc EXCEPT ![wi] = pc[wi] + 1]
        /\ \/ Stage(wi) = 1 /\ mem' = [mem EXCEPT ![V] = InitialValue(case)] /\ regs' = regs
           \/ /\ Stage(wi) = 3 /\ regs' = regs
              /\ mem' = [mem EXCEPT ![V] =
                            Atomically(case.atomicOp, mem[V], BarrierOperand(case, wi), 0)]
           \/ Stage(wi) = 5 /\ regs' = [regs EXCEPT ![wi][1] = mem[V]] /\ mem' = mem
           \/ Stage(wi) = 6 /\ mem' = [mem EXCEPT ![<<"output", wi>>] = regs[wi][1]] /\ regs' = regs

LEMMA BarrierSteps ==
  ASSUME Basic, IsCounting(case), BarrierInv, NEW wi \in WorkItems(case), Runs(wi)
  PROVE  BarrierStep(wi)
<1> DEFINE V == VarOf(case, GroupOf(case, wi))
<1>0. /\ ~Ended(wi) /\ pc' = [pc EXCEPT ![wi] = pc[wi] + 1]
      /\ At(wi).op \in {"ld", "st", "atomic", "until", "initfbar", "releasefbar"}
  BY RunsOn
<1>1. pc[wi] >= 1
  BY DEF BarrierInv, BarrierOf
<1>2. Stage(wi) \in {1, 3, 5, 6}
  <2>1. Stage(wi) \in 1..6
    BY <1>0, <1>1, BarrierInstructions DEF Skips
  <2> QED
    BY <1>0, <1>1, <2>1, BarrierInstructions
<1>3. V[1] # "flag"
  BY DEF VarOf
<1>4. /\ \A n : Value(wi, <<"imm", n>>) = n
      /\ Value(wi, <<"reg", 1>>) = regs[wi][1]
  BY DEF Value
<1>5. CASE Stage(wi) = 1
  <2>1. At(wi) = [op |-> "atomic", fun |-> "st", dst |-> 0, addr |-> V,
                  x |-> <<"imm", InitialValue(case)>>, y |-> <<"imm", 0>>]
    BY <1>1, <1>5, BarrierInstructions DEF BarrierList
  <2> HIDE DEF V
  <2>2. mem' = [mem EXCEPT ![V] = InitialValue(case)] /\ UNCHANGED regs
    BY <1>3, <2>1, AtomicStores
  <2> QED
    BY <1>0, <1>5, <2>2 DEF BarrierStep, V
<1>6. CASE Stage(wi) = 3
  <2>1. At(wi) = [op |-> "atomic", fun |-> case.atomicOp, dst |-> 0, addr |-> V,
                  x |-> <<"imm", BarrierOperand(case, wi)>>, y |-> <<"imm", 0>>]
    BY <1>1, <1>6, BarrierInstructions DEF BarrierList
  <2> HIDE DEF V
  <2>2. /\ mem' = [mem EXCEPT ![V] = Atomically(case.atomicOp, mem[V],
                      Value(wi, <<"imm", BarrierOperand(case, wi)>>), Value(wi, <<"imm", 0>>))]
        /\ regs' = regs
    BY <1>3, <2>1, Fetches DEF NoReg
  <2>3. /\ Value(wi, <<"imm", BarrierOperand(case, wi)>>) = BarrierOperand(case, wi)
        /\ Value(wi, <<"imm", 0>>) = 0
    BY <1>4
  <2> QED
    BY <1>0, <1>6, <2>2, <2>3 DEF BarrierStep, V
<1>7. CASE Stage(wi) = 5
  <2>1. At(wi) = [op |-> "atomic", fun |-> "ld", dst |-> 1, addr |-> V,
                  x |-> <<"imm", 0>>, y |-> <<"imm", 0>>]
    BY <1>1, <1>7, BarrierInstructions DEF BarrierList
  <2> HIDE DEF V
  <2>2. mem' = mem /\ regs' = [regs EXCEPT ![wi][1] = mem[V]]
    BY <1>3, <2>1, AtomicLoads
  <2> QED
    BY <1>0, <1>7, <2>2 DEF BarrierStep, V
<1>8. CASE Stage(wi) = 6
  <2>1. At(wi) = [op |-> "st", addr |-> <<"output", wi>>, x |-> <<"reg", 1>>]
    BY <1>1, <1>8, BarrierInstructions DEF BarrierList
  <2>2. mem' = [mem EXCEPT ![<<"output", wi>>] = regs[wi][1]] /\ UNCHANGED regs
    BY <1>4, <2>1, Stores
  <2> QED
    BY <1>0, <1>8, <2>2 DEF BarrierStep
<1> QED
  BY <1>2, <1>5, <1>6, <1>7, <1>8

LEMMA BarrierRuns ==
  ASSUME Basic, IsCounting(case), BarrierInv, case' = case,
         NEW wi \in WorkItems(case), Runs(wi)
  PROVE  BarrierInv'
<1> DEFINE g == GroupOf(case, wi)  I == ItemsOfGroup(case, g)  V == VarOf(case, g)
<1>0. case \in Cases /\ g \in Groups(case) /\ wi \in I
  BY GeometryTypes DEF Basic, ItemsOfGroup
<1>1. BarrierStep(wi)
  BY BarrierSteps
<1>2. \A h \in Groups(case) :
         /\ VarOf(case, h) \in Addresses(case)
         /\ h # g => VarOf(case, h) # V
         /\ \A v : VarOf(case, h) # <<"output", v>>
  BY <1>0, GroupsApart
<1>3. \A v \in WorkItems(case) : <<"output", v>> \in Addresses(case)
  BY BarrierMemory
<1>4. /\ DOMAIN regs = WorkItems(case) /\ DOMAIN mem = Addresses(case)
      /\ \A v \in WorkItems(case) : DOMAIN regs[v] = 1..2
  BY DEF Basic
<1>5. \A v \in WorkItems(case) : pc[v] \in Nat /\ pc[v] >= 1 /\ Skips(case, v) \in {0, 1, 2}
  BY DEF BarrierInv, BarrierOf, Basic, Skips
<1>6. \A v \in WorkItems(case) :
         /\ pc'[v] = IF v = wi THEN pc[v] + 1 ELSE pc[v]
         /\ Stage(v) \in Nat
         /\ Stage(v)' = IF v = wi THEN Stage(v) + 1 ELSE Stage(v)
  <2>1. \A v \in WorkItems(case) : pc'[v] = IF v = wi THEN pc[v] + 1 ELSE pc[v]
    BY <1>1 DEF BarrierStep, Basic
  <2> QED
    BY <1>5, <2>1 DEF Stage
<1>7. GroupOfBarrier(g)
  BY <1>0 DEF BarrierInv
<1>8. Stage(wi) \in {1, 3, 5, 6}
  BY <1>1 DEF BarrierStep
<1>9. Stage(wi) = 5 => mem[V] = BarrierExpected(case)
  <2> SUFFICES ASSUME Stage(wi) = 5 PROVE mem[V] = BarrierExpected(case)
    OBVIOUS
  <2>1. \A v \in I : Stage(v) > 4 /\ Stage(v) > 2 /\ v \in WorkItems(case)
    BY <1>0, <1>6, <1>7 DEF GroupOfBarrier, ItemsOfGroup
  <2>2. Done(g) = I
    BY <1>6, <2>1 DEF Done
  <2>3. Counted(case, I, mem[V])
    BY <1>7, <2>1, <2>2 DEF GroupOfBarrier
  <2> QED
    BY <1>0, <2>3, CountsAll
<1>10. ASSUME NEW v \in WorkItems(case) PROVE BarrierOf(v)'
  <2>1. BarrierOf(v)
    BY DEF BarrierInv
  <2>2. CASE v = wi
    <3>1. pc'[v] >= 1 /\ Stage(v)' <= 7 /\ Stage(v)' = Stage(v) + 1
      BY <1>5, <1>6, <1>8, <2>2
    <3>2. Stage(v)' = 6 => regs'[v][1] = BarrierExpected(case)
      BY <1>1, <1>4, <1>8, <1>9, <2>2, <3>1 DEF BarrierStep
    <3>3. Stage(v)' = 7 => mem'[<<"output", v>>] = BarrierExpected(case)
      BY <1>1, <1>3, <1>4, <1>8, <2>1, <2>2, <3>1 DEF BarrierStep, BarrierOf
    <3> QED
      BY <3>1, <3>2, <3>3 DEF BarrierOf
  <2>3. CASE v # wi
    <3>1. Stage(v)' = Stage(v) /\ pc'[v] = pc[v]
      BY <1>6, <2>3
    <3>2. regs'[v] = regs[v] /\ mem'[<<"output", v>>] = mem[<<"output", v>>]
      <4>1. V # <<"output", v>> /\ <<"output", v>> # <<"output", wi>>
        BY <1>0, <1>2, <2>3
      <4> HIDE DEF V
      <4> QED
        BY <1>1, <1>3, <1>4, <2>3, <4>1 DEF BarrierStep, V
    <3> QED
      BY <2>1, <3>1, <3>2 DEF BarrierOf
  <2> QED
    BY <2>2, <2>3
<1>11. ASSUME NEW h \in Groups(case) PROVE GroupOfBarrier(h)'
  <2>0. GroupOfBarrier(h) /\ ItemsOfGroup(case, h)' = ItemsOfGroup(case, h)
    BY DEF BarrierInv, ItemsOfGroup
  <2>00. \A v \in ItemsOfGroup(case, h) : v \in WorkItems(case) /\ GroupOf(case, v) = h
    BY DEF ItemsOfGroup
  <2>1. CASE h # g
    <3>1. \A v \in ItemsOfGroup(case, h) : Stage(v)' = Stage(v)
      BY <1>6, <2>00, <2>1
    <3>2. Done(h)' = Done(h)
      BY <2>0, <3>1 DEF Done
    <3>3. mem'[VarOf(case, h)] = mem[VarOf(case, h)]
      BY <1>0, <1>1, <1>2, <1>4, <2>1 DEF BarrierStep
    <3> QED
      BY <2>0, <3>1, <3>2, <3>3 DEF GroupOfBarrier
  <2>2. CASE h = g
    <3>1. \A v, w \in I : (Stage(v)' > 2 => Stage(w)' > 2) /\ (Stage(v)' > 4 => Stage(w)' > 4)
      BY <1>6, <1>7, <1>8, <2>00, <2>2 DEF GroupOfBarrier
    <3>2. \A v \in I : Skips(case, v) = 0 /\ Stage(v)' = 2 => mem'[V] = InitialValue(case)
      <4> SUFFICES ASSUME NEW v \in I, Skips(case, v) = 0, Stage(v)' = 2
                   PROVE  mem'[V] = InitialValue(case)
        OBVIOUS
      <4>1. CASE Stage(wi) = 1
        BY <1>0, <1>1, <1>2, <1>4, <4>1 DEF BarrierStep
      <4>2. CASE Stage(wi) # 1
        <5>1. v # wi /\ Stage(v) = 2
          BY <1>6, <1>8, <2>00, <2>2, <4>2
        <5>2. Stage(wi) > 2
          BY <1>8, <4>2
        <5>3. Stage(v) > 2
          BY <1>0, <1>7, <5>2 DEF GroupOfBarrier
        <5> QED
          BY <5>1, <5>3
      <4> QED
        BY <4>1, <4>2
    <3>3. ASSUME \A v \in I : Stage(v)' > 2
          PROVE  Counted(case, Done(g)', mem'[V])
      <4>0. \A v \in I : v \in WorkItems(case) /\ Stage(v) \in Nat
        BY <1>6, <2>00, <2>2
      <4>1. Stage(wi) \in {3, 5, 6}
        BY <1>0, <1>6, <1>8, <3>3
      <4>2. \A v \in I : Stage(v) > 2
        BY <1>0, <1>7, <4>1 DEF GroupOfBarrier
      <4>3. Counted(case, Done(g), mem[V])
        BY <1>7, <4>2 DEF GroupOfBarrier
      <4>4. CASE Stage(wi) = 3
        <5>1. wi \notin Done(g) /\ Done(g) \in SUBSET I
          BY <4>4 DEF Done
        <5>2. Done(g)' = Done(g) \cup {wi}
          BY <1>0, <1>6, <2>0, <2>2, <4>0, <4>4 DEF Done
        <5>3. mem'[V] = Atomically(case.atomicOp, mem[V], BarrierOperand(case, wi), 0)
          BY <1>0, <1>1, <1>2, <1>4, <4>4 DEF BarrierStep
        <5>4. Counted(case, Done(g) \cup {wi},
                      Atomically(case.atomicOp, mem[V], BarrierOperand(case, wi), 0))
          BY <1>0, <4>3, <5>1, CountsOn
        <5> QED
          BY <5>2, <5>3, <5>4
      <4>5. CASE Stage(wi) \in {5, 6}
        <5>1. Done(g)' = Done(g)
          BY <1>0, <1>6, <2>0, <2>2, <4>0, <4>5 DEF Done
        <5>2. mem'[V] = mem[V]
          <6>1. V # <<"output", wi>> /\ V \in DOMAIN mem
            BY <1>0, <1>2, <1>4
          <6> QED
            BY <1>1, <4>5, <6>1 DEF BarrierStep
        <5> QED
          BY <4>3, <5>1, <5>2
      <4> QED
        BY <4>1, <4>4, <4>5
    <3> QED
      BY <2>0, <2>2, <3>1, <3>2, <3>3 DEF GroupOfBarrier
  <2> QED
    BY <2>1, <2>2
<1> QED
  BY <1>10, <1>11 DEF BarrierInv

LEMMA BarrierKept ==
  ASSUME Basic, IsCounting(case), BarrierInv, [Next]_vars
  PROVE  BarrierInv'
<1>0. case' = case
  BY BasicKept
<1>1. ASSUME NEW wi \in WorkItems(case), ~Ended(wi)
      PROVE  At(wi).op \in {"ld", "st", "atomic", "until", "barrier"}
  <2>1. pc[wi] >= 1
    BY DEF BarrierInv, BarrierOf
  <2>2. Stage(wi) \in 1..6
    BY <1>1, <2>1, BarrierInstructions DEF Skips
  <2>3. \A k \in {1, 3, 5, 6} : BarrierList(case, wi)[k].op \in {"st", "atomic"}
    BY DEF BarrierList
  <2> QED
    BY <2>1, <2>2, <2>3, BarrierInstructions
<1>2. \/ UNCHANGED vars
      \/ \E wi \in WorkItems(case) : Runs(wi)
      \/ \E g \in Groups(case) : DoBarrier(g)
  BY <1>1, RunsWithBarriers
<1>3. CASE UNCHANGED vars
  BY <1>3 DEF vars, BarrierInv, BarrierOf, GroupOfBarrier, Done, Stage
<1> QED
  BY <1>0, <1>2, <1>3, BarrierRuns, BarrierGathers

LEMMA BarrierOutputs ==
  ASSUME NEW c, IsCounting(c), NEW a \in Addresses(c), a[1] = "output"
  PROVE  \E v \in WorkItems(c) : a = <<"output", v>>
<1>1. PICK v \in WorkItems(c) : \E n \in DOMAIN Program(c, v) : a = Program(c, v)[n].addr /\ "addr" \in DOMAIN Program(c, v)[n]
  BY DEF Addresses, Instructions, Range
<1>2. PICK n \in 1..(6 - Skips(c, v)) :
         a = BarrierList(c, v)[n + Skips(c, v)].addr /\ "addr" \in DOMAIN BarrierList(c, v)[n + Skips(c, v)]
  BY <1>1, BarrierProgram
<1>3. n + Skips(c, v) \in 1..6
  BY DEF Skips
<1>4. PICK k \in 1..6 : a = BarrierList(c, v)[k].addr /\ "addr" \in DOMAIN BarrierList(c, v)[k]
  BY <1>2, <1>3
<1>5. VarOf(c, GroupOf(c, v))[1] # "output"
  BY DEF VarOf
<1>6. a = <<"output", v>>
  BY <1>4, <1>5 DEF BarrierList
<1> QED
  BY <1>6

LEMMA BarrierResults ==
  ASSUME Basic, IsCounting(case), BarrierInv
  PROVE  ResultsExpected
<1> SUFFICES ASSUME AllEnded, NEW a \in DOMAIN Expected(case)
             PROVE  mem[a] = Expected(case)[a]
  BY DEF ResultsExpected
<1>1. a \in Addresses(case) /\ a[1] = "output"
  BY DEF Expected, Basic
<1>2. PICK v \in WorkItems(case) : a = <<"output", v>>
  BY <1>1, BarrierOutputs
<1>3. Expected(case)[a] = BarrierExpected(case)
  BY <1>1 DEF Expected, IsCounting
<1>4. Ended(v) /\ BarrierOf(v)
  BY DEF AllEnded, BarrierInv
<1>5. Stage(v) = 7
  BY <1>4, BarrierInstructions DEF BarrierOf
<1> QED
  BY <1>2, <1>3, <1>4, <1>5 DEF BarrierOf

\* The one access that is not atomic is the store of a work-item's own result.
LEMMA BarrierRaces ==
  ASSUME Basic, IsCounting(case), BarrierInv
  PROVE  NoRace
<1> SUFFICES ASSUME NEW v \in WorkItems(case), NEW w \in WorkItems(case), v # w,
                    Accesses(v, {"ld", "st"}), Accesses(w, {"ld", "st", "atomic", "until"}),
                    Location(v) = Location(w)
             PROVE  FALSE
  BY DEF NoRace
<1>1. ASSUME NEW u \in WorkItems(case), ~Ended(u)
      PROVE  \/ At(u).op = "barrier"
             \/ At(u).op = "atomic" /\ Location(u) = VarOf(case, GroupOf(case, u))
             \/ At(u).op = "st" /\ Location(u) = <<"output", u>>
  <2> DEFINE V == VarOf(case, GroupOf(case, u))
  <2>1. pc[u] >= 1
    BY DEF BarrierInv, BarrierOf
  <2>2. Stage(u) \in 1..6
    BY <1>1, <2>1, BarrierInstructions DEF Skips
  <2>3. V[1] # "flag" /\ <<"output", u>>[1] # "flag"
    BY DEF VarOf
  <2>4. /\ \A k \in {1, 3, 5} : BarrierList(case, u)[k].op = "atomic" /\ BarrierList(case, u)[k].addr = V
        /\ BarrierList(case, u)[6].op = "st" /\ BarrierList(case, u)[6].addr = <<"output", u>>
    BY DEF BarrierList
  <2> HIDE DEF V
  <2>5. CASE Stage(u) \in {2, 4}
    <3>1. At(u) = [op |-> "barrier"]
      BY <2>1, <2>5, BarrierInstructions
    <3> QED
      BY <3>1
  <2>6. CASE Stage(u) \in {1, 3, 5}
    <3>1. At(u) = BarrierList(case, u)[Stage(u)]
      BY <2>1, <2>6, BarrierInstructions
    <3>2. At(u).op = "atomic" /\ At(u).addr = V
      BY <2>4, <2>6, <3>1
    <3>3. Location(u) = V
      BY <2>3, <3>2 DEF Location, Address
    <3> QED
      BY <3>2, <3>3 DEF V
  <2>7. CASE Stage(u) = 6
    <3>1. At(u).op = "st" /\ At(u).addr = <<"output", u>>
      BY <2>1, <2>4, <2>7, BarrierInstructions
    <3> QED
      BY <2>3, <3>1 DEF Location, Address
  <2> QED
    BY <2>2, <2>5, <2>6, <2>7
<1>2. ~Ended(v) /\ ~Ended(w) /\ At(v).op \in {"ld", "st"} /\ At(w).op # "barrier"
  BY DEF Accesses, CanRun
<1>3. Location(v) = <<"output", v>>
  BY <1>1, <1>2
<1>4. \A g, u : VarOf(case, g) # <<"output", u>>
  BY DEF VarOf
<1>5. Location(w) = <<"output", w>> \/ Location(w) = VarOf(case, GroupOf(case, w))
  BY <1>1, <1>2
<1>6. <<"output", v>> # <<"output", w>>
  OBVIOUS
<1> QED
  BY <1>3, <1>4, <1>5, <1>6
-----------------------------------------------------------------------------
(* The tests of fbarriers in which every wavefront takes the same part       *)
(* (FBarrierWaitRaceTest, LdfTest, FBarrierJoinLeaveTest,                    *)
(* FBarrierJoinLeaveJoinTest), and FBarrierBasicTest.                        *)
InStep(c) == c.test \in {"basic", "wait_race", "ldf", "join_leave", "join_leave_join"}

FbarOp(kind) == [op |-> "fbar", kind |-> kind, fb |-> "fb"]
BarrierOp == [op |-> "barrier"]
InitOp == [op |-> "initfbar", fb |-> "fb"]
ReleaseOp == [op |-> "releasefbar", fb |-> "fb"]
StoreOp(a, n) == [op |-> "st", addr |-> a, x |-> <<"imm", n>>]
AtomicStoreOp(a, n) ==
    [op |-> "atomic", fun |-> "st", dst |-> 0, addr |-> a,
     x |-> <<"imm", n>>, y |-> <<"imm", 0>>]

\* What is between the initialisation of the fbarrier and its release.
Middles(c, wi) ==
    CASE c.test = "basic" -> IF IsOddWave(c, wi) THEN 6 ELSE 7
      [] c.test = "wait_race" -> ITERATION_NUMBER + 4
      [] c.test = "ldf" -> 7
      [] c.test = "join_leave" -> 2 * LOOP_COUNT
      [] OTHER -> 8

BasicMiddle(c, wi, j) ==
    CASE j = 1 -> FbarOp("join")
      [] j = Middles(c, wi) -> FbarOp("leave")
      [] j = IF IsOddWave(c, wi) THEN 4 ELSE 3 -> FbarOp("wait")
      [] j = 3 /\ IsOddWave(c, wi) -> AtomicStoreOp(<<"output", wi>>, VALUE1)
      [] j = 4 /\ ~IsOddWave(c, wi) -> AtomicStoreOp(<<"output", wi>>, VALUE2)
      [] j = 5 /\ ~IsOddWave(c, wi) -> AtomicStoreOp(<<"output", wi + c.wave>>, VALUE2)
      [] OTHER -> BarrierOp

WaitRaceMiddle(j) ==
    CASE j = 1 -> FbarOp("join")
      [] j \in 3..(ITERATION_NUMBER + 2) -> FbarOp("wait")
      [] j = ITERATION_NUMBER + 4 -> FbarOp("leave")
      [] OTHER -> BarrierOp

LdfMiddle(j) ==
    CASE j = 1 -> FbarOp("join")
      [] j = 3 -> FbarOp("arrive")
      [] j = 5 -> FbarOp("wait")
      [] j = 7 -> FbarOp("leave")
      [] OTHER -> BarrierOp

JoinLeaveMiddle(j) == IF j % 2 = 1 THEN FbarOp("join") ELSE FbarOp("leave")

JoinLeaveJoinMiddle(j) ==
    CASE j \in {2, 4} -> FbarOp("join")
      [] j \in {3, 8} -> FbarOp("leave")
      [] j = 6 -> FbarOp("wait")
      [] OTHER -> BarrierOp

Middle(c, wi, j) ==
    CASE c.test = "basic" -> BasicMiddle(c, wi, j)
      [] c.test = "wait_race" -> WaitRaceMiddle(j)
      [] c.test = "ldf" -> LdfMiddle(j)
      [] c.test = "join_leave" -> JoinLeaveMiddle(j)
      [] OTHER -> JoinLeaveJoinMiddle(j)

\* The program by its stages, of which only the first work-item of a group
\* takes those that initialise and release the fbarrier.
ResultInStep(c) == IF c.test = "join_leave" THEN VALUE1 ELSE 1
AtStage(c, wi, k) ==
    CASE k = 1 -> InitOp
      [] k = Middles(c, wi) + 4 -> ReleaseOp
      [] k \in {2, Middles(c, wi) + 3, Middles(c, wi) + 5} -> BarrierOp
      [] k > Middles(c, wi) + 5 -> StoreOp(<<"output", wi>>, ResultInStep(c))
      [] OTHER -> Middle(c, wi, k - 2)

LeadsGroup(c, wi) == FlatId(c, wi) = 0
Lead(c, wi) == IF LeadsGroup(c, wi) THEN 2 ELSE 1
Tail1(c) == IF c.test = "basic" THEN 0 ELSE 1
StageOf(c, wi, n) ==
    IF LeadsGroup(c, wi) THEN n ELSE IF n <= Middles(c, wi) + 2 THEN n + 1 ELSE n + 2
Total(c, wi) == 2 * Lead(c, wi) + Middles(c, wi) + 1 + Tail1(c)
ListInStep(c, wi) == [n \in 1..Total(c, wi) |-> AtStage(c, wi, StageOf(c, wi, n))]
-----------------------------------------------------------------------------
\* One list after another.
LEMMA Continued ==
  ASSUME NEW S, NEW u \in Seq(S)
  PROVE  \A k \in Nat : \A p, t :
            (/\ Begins(S, u, k, p) /\ t \in Seq(S) /\ k + Len(t) <= Len(u)
             /\ \A i \in 1..Len(t) : t[i] = u[k + i])
            => Begins(S, u, k + Len(t), p \o t)
<1> SUFFICES ASSUME NEW k \in Nat, NEW p, NEW t,
                    Begins(S, u, k, p), t \in Seq(S), k + Len(t) <= Len(u),
                    \A i \in 1..Len(t) : t[i] = u[k + i]
             PROVE  Begins(S, u, k + Len(t), p \o t)
  OBVIOUS
<1> DEFINE q == p \o t
<1>0. p \in Seq(S) /\ Len(p) = k /\ (\A i \in 1..k : p[i] = u[i]) /\ Len(t) \in Nat
  BY DEF Begins
<1>2. q \in Seq(S)
  BY <1>0, ConcatProperties
<1>3. Len(q) = k + Len(t)
  BY <1>0, ConcatLen
<1>4. \A i \in 1..Len(t) : q[i + Len(p)] = t[i]
  BY <1>0, ConcatRight
<1>5. \A i \in 1..Len(p) : q[i] = p[i]
  BY <1>0, ConcatLeft
<1> HIDE DEF q
<1>7. ASSUME NEW i \in 1..(k + Len(t)) PROVE q[i] = u[i]
  <2>1. CASE i <= k
    BY <1>0, <1>5, <2>1
  <2>2. CASE i > k
    <3>1. i - k \in 1..Len(t)
      BY <1>0, <2>2
    <3>2. q[(i - k) + k] = t[i - k] /\ t[i - k] = u[k + (i - k)]
      BY <1>0, <1>4, <3>1
    <3>3. (i - k) + k = i /\ k + (i - k) = i
      BY <1>0
    <3> QED
      BY <3>2, <3>3
  <2> QED
    BY <1>0, <2>1, <2>2
<1> QED
  BY <1>0, <1>2, <1>3, <1>7 DEF Begins, q

\* Code that is repeated, each time the same.
Repeats(f, e, n) == f = [i \in 0..n |-> IF i = 0 THEN <<>> ELSE f[i - 1] \o e]

LEMMA RepeatsExists ==
  ASSUME NEW e, NEW n \in Nat
  PROVE  \E f : Repeats(f, e, n)
<1> DEFINE T == {k \in Nat : \E f : Repeats(f, e, k)}
<1>1. 0 \in T
  <2>1. Repeats([i \in 0..0 |-> <<>>], e, 0)
    BY DEF Repeats
  <2> QED
    BY <2>1
<1>2. ASSUME NEW k \in Nat, k \in T PROVE k + 1 \in T
  <2>1. PICK f : Repeats(f, e, k)
    BY <1>2
  <2> DEFINE g == [i \in 0..(k + 1) |-> IF i = k + 1 THEN f[k] \o e ELSE f[i]]
  <2>2. ASSUME NEW i \in 0..(k + 1)
        PROVE  g[i] = IF i = 0 THEN <<>> ELSE g[i - 1] \o e
    <3>1. CASE i = k + 1
      <4>1. k \in 0..(k + 1) /\ k # k + 1 /\ i - 1 = k /\ i # 0
        BY <3>1
      <4>2. g[k] = f[k]
        BY <4>1
      <4>3. g[i] = f[k] \o e
        BY <3>1
      <4> QED
        BY <4>1, <4>2, <4>3
    <3>2. CASE i # k + 1
      <4>1. i \in 0..k /\ g[i] = f[i] /\ (i # 0 => i - 1 \in 0..k /\ g[i - 1] = f[i - 1])
        BY <3>2
      <4> HIDE DEF g
      <4>2. f[i] = IF i = 0 THEN <<>> ELSE f[i - 1] \o e
        BY <2>1, <4>1 DEF Repeats
      <4> QED
        BY <4>1, <4>2
    <3> QED
      BY <3>1, <3>2
  <2>3. Repeats(g, e, k + 1)
    BY <2>2 DEF Repeats
  <2> QED
    BY <2>3
<1> HIDE DEF T
<1>3. Nat \subseteq T
  BY <1>1, <1>2, ByInduction
<1> QED
  BY <1>3 DEF T

IsRepeated(r, S, e, n, len) ==
    /\ r \in Seq(S) /\ Len(r) = n * len
    /\ \A k \in 0..(n - 1), j \in 1..len : r[k * len + j] = e[j]

LEMMA RepeatsAre ==
  ASSUME NEW S, NEW n \in Nat, NEW e \in Seq(S), NEW len \in Nat, Len(e) = len,
         NEW f, Repeats(f, e, n)
  PROVE  IsRepeated(f[n], S, e, n, len)
<1> DEFINE Is(k) == /\ f[k] \in Seq(S) /\ Len(f[k]) = k * len
                    /\ \A i \in 0..(k - 1), j \in 1..len : f[k][i * len + j] = e[j]
           T == {k \in Nat : k <= n => Is(k)}
<1>1. 0 \in T
  <2>1. f[0] = <<>>
    BY DEF Repeats
  <2>2. <<>> \in Seq(S) /\ Len(<<>>) = 0 /\ 0 * len = 0 /\ 0..(0 - 1) = {}
    OBVIOUS
  <2> QED
    BY <2>1, <2>2
<1>2. ASSUME NEW k \in Nat, k \in T PROVE k + 1 \in T
  <2> SUFFICES ASSUME k + 1 <= n PROVE Is(k + 1)
    OBVIOUS
  <2>1. k + 1 \in 0..n /\ k + 1 # 0 /\ (k + 1) - 1 = k
    OBVIOUS
  <2>2. f[k + 1] = f[k] \o e
    BY <2>1 DEF Repeats
  <2> DEFINE kl == k * len  p == f[k]  q == f[k] \o e
  <2>3. Is(k)
    BY <1>2
  <2>4. p \in Seq(S) /\ Len(p) = kl
    BY <2>3
  <2>5. kl \in Nat /\ (k + 1) * len = kl + len
    OBVIOUS
  <2>6. q \in Seq(S)
    BY <2>4, ConcatProperties
  <2>7. Len(q) = kl + len
    BY <2>4, ConcatLen
  <2>8. \A i \in 1..Len(p) : q[i] = p[i]
    BY <2>4, ConcatLeft
  <2>9. \A i \in 1..Len(e) : q[i + Len(p)] = e[i]
    BY <2>4, ConcatRight
  <2>10. ASSUME NEW i \in 0..((k + 1) - 1), NEW j \in 1..len
         PROVE  q[i * len + j] = e[j]
    <3> DEFINE il == i * len
    <3>1. CASE i = k
      <4>1. il = kl /\ il + j = j + kl
        BY <2>5, <3>1
      <4>2. q[j + kl] = e[j]
        BY <2>4, <2>9
      <4> QED
        BY <4>1, <4>2
    <3>2. CASE i < k
      <4>1. il \in Nat /\ il + len <= kl
        <5>1. k - (i + 1) \in Nat
          BY <3>2
        <5>2. (k - (i + 1)) * len \in Nat
          BY <5>1
        <5>3. i \in Nat
          OBVIOUS
        <5> QED
          BY <5>2, <5>3
      <4>2. p[il + j] = e[j]
        BY <2>3, <3>2
      <4> HIDE DEF il, kl, p, q
      <4>3. il + j \in 1..kl
        BY <2>5, <4>1
      <4>4. q[il + j] = p[il + j]
        BY <2>4, <2>8, <4>3
      <4> QED
        BY <4>2, <4>4 DEF il
    <3>3. i = k \/ i < k
      OBVIOUS
    <3> QED
      BY <3>1, <3>2, <3>3, Zenon
  <2> QED
    BY <2>2, <2>5, <2>6, <2>7, <2>10
<1> HIDE DEF T
<1>3. n \in T
  BY <1>1, <1>2, ByInduction
<1> HIDE DEF Is
<1>4. Is(n)
  BY <1>3 DEF T
<1> QED
  BY <1>4 DEF Is, IsRepeated

Repeated(e, n) == (CHOOSE f : Repeats(f, e, n))[n]

LEMMA RepeatedIs ==
  ASSUME NEW S, NEW n \in Nat, NEW e \in Seq(S), NEW len \in Nat, Len(e) = len
  PROVE  IsRepeated(Repeated(e, n), S, e, n, len)
<1>1. PICK f : Repeats(f, e, n) /\ Repeated(e, n) = f[n]
  <2>1. Repeats(CHOOSE f : Repeats(f, e, n), e, n)
    BY RepeatsExists
  <2> QED
    BY <2>1 DEF Repeated
<1> QED
  BY <1>1, RepeatsAre
-----------------------------------------------------------------------------
\* The lists, element by element.
LEMMA MiddlesType ==
  ASSUME NEW c, NEW wi
  PROVE  /\ Middles(c, wi) \in Nat /\ Middles(c, wi) >= 2
         /\ Lead(c, wi) \in {1, 2} /\ Tail1(c) \in {0, 1}
         /\ Total(c, wi) \in Nat /\ Total(c, wi) >= 5
<1>1. ITERATION_NUMBER \in Nat /\ LOOP_COUNT \in Nat /\ LOOP_COUNT >= 1
  BY NumbersAssumption
<1>2. Middles(c, wi) \in Nat /\ Middles(c, wi) >= 2
  BY <1>1 DEF Middles
<1>3. Lead(c, wi) \in {1, 2} /\ Tail1(c) \in {0, 1}
  BY DEF Lead, Tail1
<1> QED
  BY <1>2, <1>3 DEF Total

OpsOf(c, wi) == {ListInStep(c, wi)[n] : n \in 1..Total(c, wi)}

LEMMA ListType ==
  ASSUME NEW c, NEW wi
  PROVE  /\ ListInStep(c, wi) \in Seq(OpsOf(c, wi))
         /\ Len(ListInStep(c, wi)) = Total(c, wi)
         /\ \A n \in 1..Total(c, wi) : ListInStep(c, wi)[n] \in OpsOf(c, wi)
<1> DEFINE u == ListInStep(c, wi)  t == Total(c, wi)  S == OpsOf(c, wi)
<1>1. t \in Nat
  BY MiddlesType
<1>2. u = [n \in 1..t |-> u[n]]
  BY DEF ListInStep
<1>3. \A n \in 1..t : u[n] \in S
  BY DEF OpsOf
<1> HIDE DEF u, t, S
<1>4. u \in [1..t -> S]
  BY <1>2, <1>3
<1> QED
  BY <1>1, <1>3, <1>4 DEF u, t, S

LEMMA ListElements ==
  ASSUME NEW c, NEW wi
  PROVE  LET u == ListInStep(c, wi)  m == Middles(c, wi)  d == Lead(c, wi)
         IN  /\ LeadsGroup(c, wi) => u[1] = InitOp /\ u[2] = BarrierOp /\ d = 2
             /\ ~LeadsGroup(c, wi) => u[1] = BarrierOp /\ d = 1
             /\ \A j \in 1..m : u[d + j] = Middle(c, wi, j)
             /\ u[d + m + 1] = BarrierOp
             /\ LeadsGroup(c, wi) => u[d + m + 2] = ReleaseOp /\ u[d + m + 3] = BarrierOp
             /\ ~LeadsGroup(c, wi) => u[d + m + 2] = BarrierOp
             /\ Tail1(c) = 1 => u[Total(c, wi)] = StoreOp(<<"output", wi>>, ResultInStep(c))
<1> DEFINE u == ListInStep(c, wi)  m == Middles(c, wi)  d == Lead(c, wi)  t == Total(c, wi)
           F == LeadsGroup(c, wi)  Sg(n) == StageOf(c, wi, n)
<1>0. /\ m \in Nat /\ m >= 2 /\ t \in Nat /\ t = 2 * d + m + 1 + Tail1(c) /\ Tail1(c) \in {0, 1}
      /\ (F => d = 2) /\ (~F => d = 1) /\ F \in BOOLEAN
  BY MiddlesType DEF Total, Lead, LeadsGroup
<1>1. \A n \in 1..t : u[n] = AtStage(c, wi, Sg(n))
  BY DEF ListInStep
<1>2. \A n : Sg(n) = IF F THEN n ELSE IF n <= m + 2 THEN n + 1 ELSE n + 2
  BY DEF StageOf
<1>3. \A k : AtStage(c, wi, k) =
        CASE k = 1 -> InitOp
          [] k = m + 4 -> ReleaseOp
          [] k \in {2, m + 3, m + 5} -> BarrierOp
          [] k > m + 5 -> StoreOp(<<"output", wi>>, ResultInStep(c))
          [] OTHER -> Middle(c, wi, k - 2)
  BY DEF AtStage
<1> HIDE DEF u, m, d, t, F, Sg
<1>4. /\ AtStage(c, wi, 1) = InitOp /\ AtStage(c, wi, 2) = BarrierOp
      /\ AtStage(c, wi, m + 4) = ReleaseOp
      /\ AtStage(c, wi, m + 3) = BarrierOp /\ AtStage(c, wi, m + 5) = BarrierOp
      /\ AtStage(c, wi, m + 6) = StoreOp(<<"output", wi>>, ResultInStep(c))
  BY <1>0, <1>3
<1>5. \A j \in 1..m : AtStage(c, wi, j + 2) = Middle(c, wi, j)
  BY <1>0, <1>3
<1>6. CASE F
  <2>1. d = 2 /\ \A n : Sg(n) = n
    BY <1>0, <1>2, <1>6
  <2>2. 1 \in 1..t /\ 2 \in 1..t /\ d + m + 1 \in 1..t /\ d + m + 2 \in 1..t /\ d + m + 3 \in 1..t /\ t \in 1..t
    BY <1>0, <2>1
  <2>3. \A j \in 1..m : d + j \in 1..t /\ d + j = j + 2
    BY <1>0, <2>1
  <2>4. d + m + 1 = m + 3 /\ d + m + 2 = m + 4 /\ d + m + 3 = m + 5 /\ (Tail1(c) = 1 => t = m + 6)
    BY <1>0, <2>1
  <2>5. \A j \in 1..m : u[d + j] = Middle(c, wi, j)
    BY <1>1, <1>5, <2>1, <2>3
  <2>6. /\ u[1] = InitOp /\ u[2] = BarrierOp
        /\ u[d + m + 1] = BarrierOp /\ u[d + m + 2] = ReleaseOp /\ u[d + m + 3] = BarrierOp
        /\ Tail1(c) = 1 => u[t] = StoreOp(<<"output", wi>>, ResultInStep(c))
    BY <1>1, <1>4, <2>1, <2>2, <2>4
  <2> QED
    BY <1>6, <2>1, <2>5, <2>6 DEF u, m, d, t, F
<1>7. CASE ~F
  <2>1. d = 1 /\ \A n : Sg(n) = IF n <= m + 2 THEN n + 1 ELSE n + 2
    BY <1>0, <1>2, <1>7
  <2>2. 1 \in 1..t /\ d + m + 1 \in 1..t /\ d + m + 2 \in 1..t /\ t \in 1..t
    BY <1>0, <2>1
  <2>3. \A j \in 1..m : d + j \in 1..t /\ Sg(d + j) = j + 2
    BY <1>0, <2>1
  <2>4. /\ Sg(1) = 2 /\ Sg(d + m + 1) = m + 3 /\ Sg(d + m + 2) = m + 5
        /\ Tail1(c) = 1 => Sg(t) = m + 6
    BY <1>0, <2>1
  <2>5. \A j \in 1..m : u[d + j] = Middle(c, wi, j)
    BY <1>1, <1>5, <2>3
  <2>6. /\ u[1] = BarrierOp /\ u[d + m + 1] = BarrierOp /\ u[d + m + 2] = BarrierOp
        /\ Tail1(c) = 1 => u[t] = StoreOp(<<"output", wi>>, ResultInStep(c))
    BY <1>1, <1>4, <2>2, <2>4
  <2> QED
    BY <1>7, <2>1, <2>5, <2>6 DEF u, m, d, t, F
<1> QED
  BY <1>6, <1>7

\* The code of the modules of kernels, instruction by instruction.
InitCode(first) == IF first THEN <<InitOp>> \o <<BarrierOp>> ELSE <<BarrierOp>>
ReleaseCode(first) == IF first THEN <<ReleaseOp>> \o <<BarrierOp>> ELSE <<BarrierOp>>

LEMMA KernelCodeIs ==
  ASSUME NEW c, NEW wi
  PROVE  /\ InitfbarInFirstWI(c, wi, "fb") = InitCode(LeadsGroup(c, wi))
         /\ ReleasefbarInFirstWI(c, wi, "fb") = ReleaseCode(LeadsGroup(c, wi))
         /\ Barrier = <<BarrierOp>>
         /\ Joinfbar("fb") = <<FbarOp("join")>> /\ Leavefbar("fb") = <<FbarOp("leave")>>
         /\ Waitfbar("fb") = <<FbarOp("wait")>> /\ Arrivefbar("fb") = <<FbarOp("arrive")>>
         /\ \A n : StoreData(wi, Imm(n)) = <<StoreOp(<<"output", wi>>, n)>>
         /\ \A a, n : AtomicSt(a, Imm(n)) = <<AtomicStoreOp(a, n)>>
<1>1. Barrier = <<BarrierOp>>
  BY DEF Barrier, BarrierOp
<1>2. InitfbarInFirstWI(c, wi, "fb") = InitCode(LeadsGroup(c, wi))
  <2>1. CASE LeadsGroup(c, wi)
    BY <1>1, <2>1 DEF InitfbarInFirstWI, Only, InitCode, LeadsGroup, InitOp
  <2>2. CASE ~LeadsGroup(c, wi)
    <3>1. InitfbarInFirstWI(c, wi, "fb") = <<>> \o <<BarrierOp>>
      BY <1>1, <2>2, Zenon DEF InitfbarInFirstWI, Only, LeadsGroup
    <3> QED
      BY <2>2, <3>1, Nothing1, Zenon DEF InitCode
  <2> QED
    BY <2>1, <2>2
<1>3. ReleasefbarInFirstWI(c, wi, "fb") = ReleaseCode(LeadsGroup(c, wi))
  <2>1. CASE LeadsGroup(c, wi)
    BY <1>1, <2>1 DEF ReleasefbarInFirstWI, Only, ReleaseCode, LeadsGroup, ReleaseOp
  <2>2. CASE ~LeadsGroup(c, wi)
    <3>1. ReleasefbarInFirstWI(c, wi, "fb") = <<>> \o <<BarrierOp>>
      BY <1>1, <2>2, Zenon DEF ReleasefbarInFirstWI, Only, LeadsGroup
    <3> QED
      BY <2>2, <3>1, Nothing1, Zenon DEF ReleaseCode
  <2> QED
    BY <2>1, <2>2
<1>4. /\ Joinfbar("fb") = <<FbarOp("join")>> /\ Leavefbar("fb") = <<FbarOp("leave")>>
      /\ Waitfbar("fb") = <<FbarOp("wait")>> /\ Arrivefbar("fb") = <<FbarOp("arrive")>>
  BY DEF Joinfbar, Leavefbar, Waitfbar, Arrivefbar, Fbar, FbarOp
<1>5. \A n : StoreData(wi, Imm(n)) = <<StoreOp(<<"output", wi>>, n)>>
  BY DEF StoreData, St, Imm, Global, StoreOp
<1>6. \A a, n : AtomicSt(a, Imm(n)) = <<AtomicStoreOp(a, n)>>
  BY DEF AtomicSt, Atomic, Imm, NoReg, AtomicStoreOp
<1> QED
  BY <1>1, <1>2, <1>3, <1>4, <1>5, <1>6

\* The program up to a stage of its middle, and to its end.
Spells(c, wi, j, p) == Begins(OpsOf(c, wi), ListInStep(c, wi), Lead(c, wi) + j, p)

LEMMA SpellsInit ==
  ASSUME NEW c, NEW wi
  PROVE  Spells(c, wi, 0, InitCode(LeadsGroup(c, wi)))
<1> DEFINE u == ListInStep(c, wi)  S == OpsOf(c, wi)  d == Lead(c, wi)  t == Total(c, wi)
<1>1. u \in Seq(S) /\ Len(u) = t /\ \A n \in 1..t : u[n] \in S
  BY ListType
<1>2. t >= 5 /\ t \in Nat
  BY MiddlesType
<1>3. CASE LeadsGroup(c, wi)
  <2>1. u[1] = InitOp /\ u[2] = BarrierOp /\ d = 2
    BY <1>3, ListElements
  <2> HIDE DEF u, S, d, t
  <2> DEFINE a == InitOp  b == BarrierOp  p == <<a>> \o <<b>>
  <2>2. a \in S /\ b \in S
    BY <1>1, <1>2, <2>1
  <2> HIDE DEF a, b
  <2>3. <<a>> \in Seq(S) /\ Len(<<a>>) = 1 /\ <<a>>[1] = a
    BY <2>2
  <2>4. Begins(S, u, 1, <<a>>)
    BY <2>1, <2>3 DEF Begins, a
  <2>5. Begins(S, u, 2, Then(<<a>>, b))
    BY <1>1, <1>2, <2>1, <2>4, Appended DEF b
  <2> QED
    BY <1>3, <2>1, <2>5 DEF Spells, InitCode, Then, a, b, u, S, d
<1>4. CASE ~LeadsGroup(c, wi)
  <2>1. u[1] = BarrierOp /\ d = 1
    BY <1>4, ListElements
  <2> HIDE DEF u, S, d, t
  <2> DEFINE b == BarrierOp
  <2>2. b \in S
    BY <1>1, <1>2, <2>1
  <2> HIDE DEF b
  <2>3. <<b>> \in Seq(S) /\ Len(<<b>>) = 1 /\ <<b>>[1] = b
    BY <2>2
  <2>4. Begins(S, u, 1, <<b>>)
    BY <2>1, <2>3 DEF Begins, b
  <2> QED
    BY <1>4, <2>1, <2>4 DEF Spells, InitCode, b, u, S, d
<1> QED
  BY <1>3, <1>4

LEMMA SpellsNext ==
  ASSUME NEW c, NEW wi
  PROVE  /\ \A j \in 1..Middles(c, wi) : \A p :
               Spells(c, wi, j - 1, p) => Spells(c, wi, j, Then(p, Middle(c, wi, j)))
         /\ \A p : Spells(c, wi, Middles(c, wi), p)
                   => Spells(c, wi, Middles(c, wi) + 1, Then(p, BarrierOp))
<1> DEFINE u == ListInStep(c, wi)  S == OpsOf(c, wi)  d == Lead(c, wi)  t == Total(c, wi)  m == Middles(c, wi)
<1>1. u \in Seq(S) /\ Len(u) = t
  BY ListType
<1>2. /\ t \in Nat /\ m \in Nat /\ d \in {1, 2}
      /\ t = 2 * d + m + 1 + Tail1(c) /\ Tail1(c) \in {0, 1}
  BY MiddlesType DEF Total
<1>3. (\A j \in 1..m : u[d + j] = Middle(c, wi, j)) /\ u[d + m + 1] = BarrierOp
  BY ListElements
<1> HIDE DEF u, S, d, t, m
<1>4. ASSUME NEW j \in 1..m, NEW p, Begins(S, u, d + (j - 1), p)
      PROVE  Begins(S, u, d + j, Then(p, Middle(c, wi, j)))
  <2> DEFINE k == d + (j - 1)
  <2>1. k \in Nat /\ k + 1 = d + j /\ k + 1 <= Len(u)
    BY <1>1, <1>2
  <2> HIDE DEF k
  <2>2. u[k + 1] = Middle(c, wi, j) /\ Begins(S, u, k, p)
    BY <1>3, <1>4, <2>1 DEF k
  <2>3. Begins(S, u, k + 1, Then(p, Middle(c, wi, j)))
    BY <1>1, <2>1, <2>2, Appended, Zenon
  <2> QED
    BY <2>1, <2>3
<1>5. ASSUME NEW p, Begins(S, u, d + m, p)
      PROVE  Begins(S, u, d + (m + 1), Then(p, BarrierOp))
  <2> DEFINE k == d + m
  <2>1. k \in Nat /\ k + 1 = d + (m + 1) /\ k + 1 = d + m + 1 /\ k + 1 <= Len(u)
    BY <1>1, <1>2
  <2> HIDE DEF k
  <2>2. u[k + 1] = BarrierOp /\ Begins(S, u, k, p)
    BY <1>3, <1>5, <2>1 DEF k
  <2>3. Begins(S, u, k + 1, Then(p, BarrierOp))
    BY <1>1, <2>1, <2>2, Appended, Zenon
  <2> QED
    BY <2>1, <2>3
<1> QED
  BY <1>4, <1>5 DEF Spells, u, S, d, m

\* A repeated piece of the middle.
LEMMA SpellsPiece ==
  ASSUME NEW c, NEW wi, NEW j \in Nat, NEW p, NEW q, Spells(c, wi, j, p),
         q \in Seq(OpsOf(c, wi)), j + Len(q) <= Middles(c, wi),
         \A i \in 1..Len(q) : q[i] = Middle(c, wi, j + i)
  PROVE  Spells(c, wi, j + Len(q), p \o q)
<1> DEFINE u == ListInStep(c, wi)  S == OpsOf(c, wi)  d == Lead(c, wi)  t == Total(c, wi)  m == Middles(c, wi)
           k == d + j
<1>1. u \in Seq(S) /\ Len(u) = t
  BY ListType
<1>2. /\ t \in Nat /\ m \in Nat /\ d \in {1, 2}
      /\ t = 2 * d + m + 1 + Tail1(c) /\ Tail1(c) \in {0, 1}
  BY MiddlesType DEF Total
<1>3. \A i \in 1..m : u[d + i] = Middle(c, wi, i)
  BY ListElements
<1>4. Begins(S, u, k, p)
  BY DEF Spells
<1> HIDE DEF u, S, d, t, m
<1>0. q \in Seq(S) /\ j + Len(q) <= m /\ Len(q) \in Nat
  BY DEF S, m
<1>5. k \in Nat /\ k + Len(q) <= Len(u) /\ k + Len(q) = d + (j + Len(q))
  BY <1>0, <1>1, <1>2
<1>6. \A i \in 1..Len(q) : q[i] = u[k + i]
  <2> SUFFICES ASSUME NEW i \in 1..Len(q) PROVE q[i] = u[k + i]
    OBVIOUS
  <2>1. j + i \in 1..m /\ k + i = d + (j + i)
    BY <1>0, <1>2
  <2> QED
    BY <1>3, <2>1
<1> HIDE DEF k
<1>7. Begins(S, u, k + Len(q), p \o q)
  BY <1>0, <1>1, <1>4, <1>5, <1>6, Continued
<1> QED
  BY <1>5, <1>7 DEF Spells, u, S, d

LEMMA SpellsEnd ==
  ASSUME NEW c, NEW wi, NEW p, Spells(c, wi, Middles(c, wi) + 1, p)
  PROVE  /\ Tail1(c) = 0 => p \o ReleaseCode(LeadsGroup(c, wi)) = ListInStep(c, wi)
         /\ Tail1(c) = 1 => p \o ReleaseCode(LeadsGroup(c, wi))
                              \o <<StoreOp(<<"output", wi>>, ResultInStep(c))>> = ListInStep(c, wi)
<1> DEFINE u == ListInStep(c, wi)  S == OpsOf(c, wi)  d == Lead(c, wi)  t == Total(c, wi)  m == Middles(c, wi)
           s == StoreOp(<<"output", wi>>, ResultInStep(c))  F == LeadsGroup(c, wi)  k == d + m + 1
           a == ReleaseOp  b == BarrierOp
           q == IF F THEN Then(<<a>>, b) ELSE <<b>>
<1>1. u \in Seq(S) /\ Len(u) = t /\ \A n \in 1..t : u[n] \in S
  BY ListType
<1>2. /\ t \in Nat /\ m \in Nat /\ d \in {1, 2} /\ d = IF F THEN 2 ELSE 1
      /\ t = 2 * d + m + 1 + Tail1(c) /\ Tail1(c) \in {0, 1}
  BY MiddlesType DEF Total, Lead
<1>3. /\ F => u[d + m + 2] = a /\ u[d + m + 3] = b
      /\ ~F => u[d + m + 2] = b
      /\ Tail1(c) = 1 => u[t] = s
  BY ListElements
<1>4. ReleaseCode(F) = q
  BY DEF ReleaseCode, Then
<1>5. Begins(S, u, d + (m + 1), p)
  BY DEF Spells
<1> HIDE DEF u, S, d, t, m, s, a, b, F
<1>6. k \in Nat /\ k = d + (m + 1) /\ k + 1 = d + m + 2 /\ k + 2 = d + m + 3
  BY <1>2
<1>7. /\ F => k + 2 = t - Tail1(c) /\ u[k + 1] = a /\ u[k + 2] = b
      /\ ~F => k + 1 = t - Tail1(c) /\ u[k + 1] = b
  BY <1>2, <1>3, <1>6
<1>8. Begins(S, u, k, p)
  BY <1>5, <1>6
<1> HIDE DEF k
<1>9. q \in Seq(S) /\ Len(q) = (IF F THEN 2 ELSE 1) /\ \A i \in 1..Len(q) : q[i] = u[k + i]
  <2>1. CASE F
    <3>1. k + 1 \in 1..t /\ k + 2 \in 1..t
      BY <1>2, <1>6, <1>7, <2>1
    <3>2. a \in S /\ b \in S
      BY <1>1, <1>7, <2>1, <3>1
    <3> DEFINE w == <<a, b>>
    <3>3. w \in Seq(S) /\ Len(w) = 2 /\ w[1] = a /\ w[2] = b
      BY <3>2
    <3>4. Begins(S, w, 1, <<a>>)
      BY <3>2 DEF Begins
    <3> HIDE DEF w
    <3>5. Begins(S, w, 1 + 1, Then(<<a>>, b))
      BY <3>3, <3>4, Appended
    <3>6. q = Then(<<a>>, b)
      BY <2>1
    <3>7. q \in Seq(S) /\ Len(q) = 2 /\ q[1] = a /\ q[2] = b
      BY <3>3, <3>5, <3>6 DEF Begins
    <3> HIDE DEF q
    <3> QED
      BY <1>7, <2>1, <3>7
  <2>2. CASE ~F
    <3>1. k + 1 \in 1..t
      BY <1>2, <1>6, <1>7, <2>2
    <3>2. b \in S
      BY <1>1, <1>7, <2>2, <3>1
    <3>3. q = <<b>>
      BY <2>2
    <3> HIDE DEF q
    <3>5. <<b>> \in Seq(S) /\ Len(<<b>>) = 1 /\ <<b>>[1] = b
      BY <3>2
    <3>4. q \in Seq(S) /\ Len(q) = 1 /\ q[1] = b
      BY <3>3, <3>5
    <3> QED
      BY <1>7, <2>2, <3>4
  <2> QED
    BY <2>1, <2>2
<1> HIDE DEF q
<1>10. k + Len(q) = t - Tail1(c) /\ k + Len(q) <= Len(u) /\ k + Len(q) \in Nat
  BY <1>1, <1>2, <1>6, <1>7, <1>9
<1>11. Begins(S, u, k + Len(q), p \o q)
  BY <1>1, <1>6, <1>8, <1>9, <1>10, Continued
<1>12. ASSUME Tail1(c) = 0 PROVE p \o q = u
  <2>1. Begins(S, u, Len(u), p \o q)
    BY <1>1, <1>2, <1>10, <1>11, <1>12
  <2> QED
    BY <1>1, <2>1, SeqEqual DEF Begins
<1>13. ASSUME Tail1(c) = 1 PROVE p \o q \o <<s>> = u
  <2> DEFINE n == k + Len(q)  r == p \o q
  <2>1. n \in Nat /\ n + 1 = t /\ n + 1 <= Len(u)
    BY <1>1, <1>2, <1>10, <1>13
  <2>2. Begins(S, u, n, r)
    BY <1>11
  <2> HIDE DEF n, r
  <2>3. u[n + 1] = s
    BY <1>3, <1>13, <2>1
  <2>4. Begins(S, u, n + 1, Then(r, s))
    BY <1>1, <2>1, <2>2, <2>3, Appended
  <2>5. Begins(S, u, Len(u), Then(r, s))
    BY <1>1, <2>1, <2>4
  <2>6. Then(r, s) = u
    BY <1>1, <2>5, SeqEqual DEF Begins
  <2> QED
    BY <2>6 DEF Then, r
<1> QED
  BY <1>4, <1>12, <1>13 DEF u, s, F

LEMMA OpsIn ==
  ASSUME NEW c, NEW wi
  PROVE  /\ BarrierOp \in OpsOf(c, wi)
         /\ \A j \in 1..Middles(c, wi) : Middle(c, wi, j) \in OpsOf(c, wi)
         /\ ReleaseCode(LeadsGroup(c, wi)) \in Seq(OpsOf(c, wi))
<1> DEFINE u == ListInStep(c, wi)  S == OpsOf(c, wi)  d == Lead(c, wi)  t == Total(c, wi)  m == Middles(c, wi)
           F == LeadsGroup(c, wi)  a == ReleaseOp  b == BarrierOp
<1>1. \A n \in 1..t : u[n] \in S
  BY ListType
<1>2. /\ t \in Nat /\ m \in Nat /\ d \in {1, 2} /\ d = IF F THEN 2 ELSE 1
      /\ t = 2 * d + m + 1 + Tail1(c) /\ Tail1(c) \in {0, 1}
  BY MiddlesType DEF Total, Lead
<1>3. /\ \A j \in 1..m : u[d + j] = Middle(c, wi, j)
      /\ u[d + m + 1] = b
      /\ F => u[d + m + 2] = a
  BY ListElements
<1>4. ReleaseCode(F) = IF F THEN <<a>> \o <<b>> ELSE <<b>>
  BY DEF ReleaseCode
<1> HIDE DEF u, S, d, t, m, a, b, F
<1>5. b \in S
  <2>1. d + m + 1 \in 1..t
    BY <1>2
  <2> QED
    BY <1>1, <1>3, <2>1
<1>6. \A j \in 1..m : Middle(c, wi, j) \in S
  <2>1. \A j \in 1..m : d + j \in 1..t
    BY <1>2
  <2> QED
    BY <1>1, <1>3, <2>1
<1>7. ReleaseCode(F) \in Seq(S)
  <2>1. CASE F
    <3>1. d + m + 2 \in 1..t
      BY <1>2, <2>1
    <3>2. a \in S
      BY <1>1, <1>3, <2>1, <3>1
    <3>3. <<a>> \in Seq(S) /\ <<b>> \in Seq(S)
      BY <1>5, <3>2
    <3>4. <<a>> \o <<b>> \in Seq(S)
      BY <3>3, ConcatProperties
    <3> QED
      BY <1>4, <2>1, <3>4
  <2>2. CASE ~F
    <3>1. <<b>> \in Seq(S)
      BY <1>5
    <3> QED
      BY <1>4, <2>2, <3>1
  <2> QED
    BY <2>1, <2>2
<1> QED
  BY <1>5, <1>6, <1>7 DEF S, m, b, F

\* Code within parentheses.
LEMMA Associative ==
  ASSUME NEW S, NEW s \in Seq(S), NEW t \in Seq(S), NEW u \in Seq(S)
  PROVE  s \o (t \o u) = s \o t \o u
OBVIOUS
LEMMA Within ==
  ASSUME NEW S, NEW p \in Seq(S), NEW a \in Seq(S), NEW b \in Seq(S)
  PROVE  /\ p \o (a \o b) = p \o a \o b
         /\ \A q \in Seq(S) : p \o (a \o b \o q) = p \o a \o b \o q
         /\ \A q, r \in Seq(S) : p \o (a \o b \o q \o r) = p \o a \o b \o q \o r
<1>1. a \o b \in Seq(S) /\ p \o a \in Seq(S)
  BY ConcatProperties
<1>2. p \o a \o b \in Seq(S)
  BY <1>1, ConcatProperties
<1>3. p \o (a \o b) = p \o a \o b
  BY Associative, SMTT(30)
<1>4. \A q \in Seq(S) : a \o b \o q \in Seq(S) /\ p \o (a \o b \o q) = p \o a \o b \o q
  <2> TAKE q \in Seq(S)
  <2>1. a \o b \o q \in Seq(S)
    BY <1>1, ConcatProperties
  <2>2. p \o (a \o b \o q) = p \o (a \o b) \o q
    BY <1>1, Associative
  <2> QED
    BY <1>3, <2>1, <2>2
<1>5. ASSUME NEW q \in Seq(S), NEW r \in Seq(S)
      PROVE  p \o (a \o b \o q \o r) = p \o a \o b \o q \o r
  <2>1. PICK x \in Seq(S) : x = a \o b \o q /\ p \o x = p \o a \o b \o q
    BY <1>4
  <2>2. p \o (x \o r) = p \o x \o r
    BY Associative, SMTT(30)
  <2> QED
    BY <2>1, <2>2, Zenon
<1> QED
  BY <1>3, <1>4, <1>5

LEMMA SpellsRelease ==
  ASSUME NEW c, NEW wi, NEW p, Spells(c, wi, Middles(c, wi) - 2, p),
         Middle(c, wi, Middles(c, wi) - 1) = BarrierOp,
         Middle(c, wi, Middles(c, wi)) = FbarOp("leave")
  PROVE  /\ Tail1(c) = 0 => p \o EmitRelease(c, wi) = ListInStep(c, wi)
         /\ Tail1(c) = 1 => p \o EmitRelease(c, wi)
                              \o StoreData(wi, Imm(ResultInStep(c))) = ListInStep(c, wi)
<1> DEFINE S == OpsOf(c, wi)  m == Middles(c, wi)  b == <<BarrierOp>>  l == <<FbarOp("leave")>>
           r == ReleaseCode(LeadsGroup(c, wi))  q == p \o b \o l \o b  s == StoreData(wi, Imm(ResultInStep(c)))
<1>1. m \in Nat /\ m >= 2
  BY MiddlesType
<1>2. m - 1 \in 1..m /\ m \in 1..m /\ (m - 1) - 1 = m - 2
  BY <1>1
<1>3. EmitRelease(c, wi) = b \o l \o b \o r
  BY KernelCodeIs, Zenon DEF EmitRelease
<1>4. BarrierOp \in S /\ FbarOp("leave") \in S /\ r \in Seq(S)
  BY <1>2, OpsIn
<1>5. b \in Seq(S) /\ l \in Seq(S)
  BY <1>4
<1>6. p \in Seq(S)
  BY DEF Spells, Begins
<1>7. p \o EmitRelease(c, wi) = q \o r
  BY <1>3, <1>4, <1>5, <1>6, Within
<1>8. Spells(c, wi, m - 1, p \o b)
  BY <1>2, SpellsNext DEF Then
<1>9. Spells(c, wi, m, p \o b \o l)
  BY <1>2, <1>8, SpellsNext DEF Then
<1>10. Spells(c, wi, m + 1, q)
  BY <1>9, SpellsNext DEF Then
<1>11. s = <<StoreOp(<<"output", wi>>, ResultInStep(c))>>
  BY KernelCodeIs
<1> HIDE DEF q, r, s
<1>12. /\ Tail1(c) = 0 => q \o r = ListInStep(c, wi)
       /\ Tail1(c) = 1 => q \o r \o s = ListInStep(c, wi)
  BY <1>10, <1>11, SpellsEnd DEF r
<1> QED
  BY <1>7, <1>12, Zenon DEF s

LEMMA WaitRaceProgram ==
  ASSUME NEW c, c.test = "wait_race", NEW wi
  PROVE  Program(c, wi) = ListInStep(c, wi)
<1> DEFINE S == OpsOf(c, wi)  N == ITERATION_NUMBER  w == <<FbarOp("wait")>>
           e0 == InitCode(LeadsGroup(c, wi))  e1 == Then(e0, FbarOp("join"))  e2 == Then(e1, BarrierOp)
           r == Repeated(w, N)  s == StoreData(wi, Imm(1))
<1>1. N \in Nat /\ N >= 1 /\ Middles(c, wi) = N + 4
  BY NumbersAssumption DEF Middles
<1>2. \A j : Middle(c, wi, j) = WaitRaceMiddle(j)
  BY DEF Middle
<1> HIDE DEF N
<1>3. /\ Middle(c, wi, 1) = FbarOp("join") /\ Middle(c, wi, 2) = BarrierOp
      /\ \A j \in 3..(N + 2) : Middle(c, wi, j) = FbarOp("wait")
      /\ Middle(c, wi, N + 3) = BarrierOp /\ Middle(c, wi, N + 4) = FbarOp("leave")
  BY <1>1, <1>2 DEF WaitRaceMiddle, N
<1>4. Program(c, wi) = e2 \o Repeat(N, LAMBDA i : Waitfbar("fb")) \o EmitRelease(c, wi) \o s
  <2>1. Program(c, wi) = FBarrierWaitRace(c, wi)
    BY DEF Program
  <2>2. EmitInit(c, wi) = e2
    BY KernelCodeIs, Zenon DEF EmitInit, Then
  <2> HIDE DEF e2
  <2> QED
    BY <2>1, <2>2 DEF FBarrierWaitRace, N
<1>5. Repeat(N, LAMBDA i : Waitfbar("fb")) = r
  <2>1. Waitfbar("fb") = w
    BY KernelCodeIs
  <2> HIDE DEF w
  <2>2. Repeat(N, LAMBDA i : Waitfbar("fb")) = Repeated(Waitfbar("fb"), N)
    BY DEF Repeat, Repeated, Repeats
  <2> QED
    BY <2>1, <2>2, Zenon
<1>6. Spells(c, wi, 2, e2)
  <2>1. Spells(c, wi, 1 - 1, e0)
    BY SpellsInit
  <2>2. 1 \in 1..Middles(c, wi) /\ 2 \in 1..Middles(c, wi) /\ 2 - 1 = 1
    BY <1>1
  <2> HIDE DEF e0
  <2>3. Spells(c, wi, 2 - 1, e1)
    BY <1>3, <2>1, <2>2, SpellsNext
  <2> HIDE DEF e1
  <2> QED
    BY <1>3, <2>2, <2>3, SpellsNext
<1> HIDE DEF e2
<1>7. /\ r \in Seq(S) /\ Len(r) = N /\ \A j \in 1..N : r[j] = FbarOp("wait")
  <2>1. FbarOp("wait") \in S
    <3>1. 3 \in 1..Middles(c, wi) /\ 3 \in 3..(N + 2)
      BY <1>1
    <3> QED
      BY <1>3, <3>1, OpsIn
  <2>2. w \in Seq(S) /\ Len(w) = 1 /\ w[1] = FbarOp("wait")
    BY <2>1
  <2> HIDE DEF w
  <2>3. IsRepeated(r, S, w, N, 1)
    BY <1>1, <2>2, RepeatedIs
  <2> HIDE DEF r
  <2>4. r \in Seq(S) /\ Len(r) = N * 1 /\ \A k \in 0..(N - 1), j \in 1..1 : r[k * 1 + j] = w[j]
    BY <2>3 DEF IsRepeated
  <2>5. ASSUME NEW j \in 1..N PROVE r[j] = FbarOp("wait")
    <3>1. j - 1 \in 0..(N - 1) /\ 1 \in 1..1 /\ (j - 1) * 1 + 1 = j
      BY <1>1
    <3> QED
      BY <2>2, <2>4, <3>1
  <2> QED
    BY <1>1, <2>4, <2>5
<1> HIDE DEF r
<1>8. Spells(c, wi, 2 + Len(r), e2 \o r)
  <2>1. \A i \in 1..Len(r) : r[i] = Middle(c, wi, 2 + i)
    BY <1>1, <1>3, <1>7
  <2>2. 2 + Len(r) <= Middles(c, wi) /\ 2 \in Nat
    BY <1>1, <1>7
  <2> QED
    BY <1>6, <1>7, <2>1, <2>2, SpellsPiece
<1>9. /\ 2 + Len(r) = Middles(c, wi) - 2
      /\ Middles(c, wi) - 1 = N + 3 /\ Middles(c, wi) = N + 4
  BY <1>1, <1>7
<1>10. Tail1(c) = 1 /\ ResultInStep(c) = 1
  BY DEF Tail1, ResultInStep
<1>11. e2 \o r \o EmitRelease(c, wi) \o s = ListInStep(c, wi)
  BY <1>3, <1>8, <1>9, <1>10, SpellsRelease
<1> QED
  BY <1>4, <1>5, <1>11, Zenon

LEMMA LdfProgram ==
  ASSUME NEW c, c.test = "ldf", NEW wi
  PROVE  Program(c, wi) = ListInStep(c, wi)
<1> DEFINE b == BarrierOp  s == StoreData(wi, Imm(1))  r == ReleasefbarInFirstWI(c, wi, "fb")
           e0 == InitCode(LeadsGroup(c, wi))  e1 == Then(e0, FbarOp("join"))  e2 == Then(e1, b)
           e3 == Then(e2, FbarOp("arrive"))  e4 == Then(e3, b)  e5 == Then(e4, FbarOp("wait"))
           e6 == Then(e5, b)  e7 == Then(e6, FbarOp("leave"))  e8 == Then(e7, b)
           Is(j, p) == Spells(c, wi, j, p)
<1>1. Middles(c, wi) = 7
  BY DEF Middles
<1>2. \A j : Middle(c, wi, j) = LdfMiddle(j)
  BY DEF Middle
<1>3. /\ Middle(c, wi, 1) = FbarOp("join") /\ Middle(c, wi, 2) = b
      /\ Middle(c, wi, 3) = FbarOp("arrive") /\ Middle(c, wi, 4) = b
      /\ Middle(c, wi, 5) = FbarOp("wait") /\ Middle(c, wi, 6) = b
      /\ Middle(c, wi, 7) = FbarOp("leave")
  BY <1>2 DEF LdfMiddle
<1>4. Program(c, wi) = e8 \o r \o s
  <2>1. Program(c, wi) = Ldf(c, wi)
    BY DEF Program
  <2>2. Ldf(c, wi) = e8 \o r \o s
    BY KernelCodeIs, Zenon DEF Ldf, Then
  <2> QED
    BY <2>1, <2>2
<1>5. Is(1 - 1, e0)
  BY SpellsInit
<1>6. /\ \A p : Is(1 - 1, p) => Is(1, Then(p, FbarOp("join")))
      /\ \A p : Is(2 - 1, p) => Is(2, Then(p, b))
      /\ \A p : Is(3 - 1, p) => Is(3, Then(p, FbarOp("arrive")))
      /\ \A p : Is(4 - 1, p) => Is(4, Then(p, b))
      /\ \A p : Is(5 - 1, p) => Is(5, Then(p, FbarOp("wait")))
      /\ \A p : Is(6 - 1, p) => Is(6, Then(p, b))
      /\ \A p : Is(7 - 1, p) => Is(7, Then(p, FbarOp("leave")))
      /\ \A p : Is(7, p) => Is(7 + 1, Then(p, b))
  <2>1. /\ \A j \in 1..7 : \A p : Is(j - 1, p) => Is(j, Then(p, Middle(c, wi, j)))
        /\ \A p : Is(7, p) => Is(7 + 1, Then(p, b))
    BY <1>1, SpellsNext
  <2> HIDE DEF Is, b
  <2>2. 1 \in 1..7 /\ 2 \in 1..7 /\ 3 \in 1..7 /\ 4 \in 1..7 /\ 5 \in 1..7 /\ 6 \in 1..7 /\ 7 \in 1..7
    OBVIOUS
  <2> QED
    BY <1>3, <2>1, <2>2
<1>7. Is(8, e8)
  <2> HIDE DEF Is, b
  <2> USE <1>5, <1>6
  <2>1. Is(1, e1)
    OBVIOUS
  <2>2. Is(2, e2)
    BY <2>1
  <2>3. Is(3, e3)
    BY <2>2
  <2>4. Is(4, e4)
    BY <2>3
  <2>5. Is(5, e5)
    BY <2>4
  <2>6. Is(6, e6)
    BY <2>5
  <2>7. Is(7, e7)
    BY <2>6
  <2> QED
    BY <2>7
<1> HIDE DEF e8
<1>8. /\ r = ReleaseCode(LeadsGroup(c, wi)) /\ Tail1(c) = 1 /\ ResultInStep(c) = 1
      /\ s = <<StoreOp(<<"output", wi>>, ResultInStep(c))>>
  BY KernelCodeIs DEF Tail1, ResultInStep
<1>9. e8 \o r \o s = ListInStep(c, wi)
  <2>1. Spells(c, wi, Middles(c, wi) + 1, e8)
    BY <1>1, <1>7
  <2> HIDE DEF r, s
  <2> QED
    BY <1>8, <2>1, SpellsEnd
<1> QED
  BY <1>4, <1>9, Zenon

LEMMA JoinLeaveJoinProgram ==
  ASSUME NEW c, c.test = "join_leave_join", NEW wi
  PROVE  Program(c, wi) = ListInStep(c, wi)
<1> DEFINE b == BarrierOp  j0 == FbarOp("join")  l == FbarOp("leave")
           s == StoreData(wi, Imm(1))  r == ReleasefbarInFirstWI(c, wi, "fb")
           e0 == InitCode(LeadsGroup(c, wi))  e1 == Then(e0, b)  e2 == Then(e1, j0)
           e3 == Then(e2, l)  e4 == Then(e3, j0)  e5 == Then(e4, b)  e6 == Then(e5, FbarOp("wait"))
           e7 == Then(e6, b)  e8 == Then(e7, l)  e9 == Then(e8, b)
           Is(j, p) == Spells(c, wi, j, p)
<1>1. Middles(c, wi) = 8
  BY DEF Middles
<1>2. \A j : Middle(c, wi, j) = JoinLeaveJoinMiddle(j)
  BY DEF Middle
<1>3. /\ Middle(c, wi, 1) = b /\ Middle(c, wi, 2) = j0
      /\ Middle(c, wi, 3) = l /\ Middle(c, wi, 4) = j0
      /\ Middle(c, wi, 5) = b /\ Middle(c, wi, 6) = FbarOp("wait")
      /\ Middle(c, wi, 7) = b /\ Middle(c, wi, 8) = l
  BY <1>2 DEF JoinLeaveJoinMiddle
<1>4. Program(c, wi) = e9 \o r \o s
  <2>1. Program(c, wi) = FBarrierJoinLeaveJoin(c, wi)
    BY DEF Program
  <2>2. FBarrierJoinLeaveJoin(c, wi) = e9 \o r \o s
    BY KernelCodeIs, Zenon DEF FBarrierJoinLeaveJoin, Then
  <2> QED
    BY <2>1, <2>2
<1>5. Is(1 - 1, e0)
  BY SpellsInit
<1>6. /\ \A p : Is(1 - 1, p) => Is(1, Then(p, b))
      /\ \A p : Is(2 - 1, p) => Is(2, Then(p, j0))
      /\ \A p : Is(3 - 1, p) => Is(3, Then(p, l))
      /\ \A p : Is(4 - 1, p) => Is(4, Then(p, j0))
      /\ \A p : Is(5 - 1, p) => Is(5, Then(p, b))
      /\ \A p : Is(6 - 1, p) => Is(6, Then(p, FbarOp("wait")))
      /\ \A p : Is(7 - 1, p) => Is(7, Then(p, b))
      /\ \A p : Is(8 - 1, p) => Is(8, Then(p, l))
      /\ \A p : Is(8, p) => Is(8 + 1, Then(p, b))
  <2>1. /\ \A j \in 1..8 : \A p : Is(j - 1, p) => Is(j, Then(p, Middle(c, wi, j)))
        /\ \A p : Is(8, p) => Is(8 + 1, Then(p, b))
    BY <1>1, SpellsNext
  <2> HIDE DEF Is, b, j0, l
  <2>2. /\ 1 \in 1..8 /\ 2 \in 1..8 /\ 3 \in 1..8 /\ 4 \in 1..8
        /\ 5 \in 1..8 /\ 6 \in 1..8 /\ 7 \in 1..8 /\ 8 \in 1..8
    OBVIOUS
  <2> QED
    BY <1>3, <2>1, <2>2
<1>7. Is(9, e9)
  <2> HIDE DEF Is, b, j0, l
  <2> USE <1>5, <1>6
  <2>1. Is(1, e1)
    OBVIOUS
  <2>2. Is(2, e2)
    BY <2>1
  <2>3. Is(3, e3)
    BY <2>2
  <2>4. Is(4, e4)
    BY <2>3
  <2>5. Is(5, e5)
    BY <2>4
  <2>6. Is(6, e6)
    BY <2>5
  <2>7. Is(7, e7)
    BY <2>6
  <2>8. Is(8, e8)
    BY <2>7
  <2> QED
    BY <2>8
<1> HIDE DEF e9
<1>8. /\ r = ReleaseCode(LeadsGroup(c, wi)) /\ Tail1(c) = 1 /\ ResultInStep(c) = 1
      /\ s = <<StoreOp(<<"output", wi>>, ResultInStep(c))>>
  BY KernelCodeIs DEF Tail1, ResultInStep
<1>9. e9 \o r \o s = ListInStep(c, wi)
  <2>1. Spells(c, wi, Middles(c, wi) + 1, e9)
    BY <1>1, <1>7
  <2> HIDE DEF r, s
  <2> QED
    BY <1>8, <2>1, SpellsEnd
<1> QED
  BY <1>4, <1>9, Zenon

LEMMA JoinLeaveProgram ==
  ASSUME NEW c, c.test = "join_leave", NEW wi
  PROVE  Program(c, wi) = ListInStep(c, wi)
<1> DEFINE S == OpsOf(c, wi)  N == LOOP_COUNT
           j0 == FbarOp("join")  l == FbarOp("leave")  w == <<j0>> \o <<l>>
           e0 == InitCode(LeadsGroup(c, wi))  r == Repeated(w, N)  e1 == e0 \o r
           s == StoreData(wi, Imm(VALUE1))
           t == ReleasefbarInFirstWI(c, wi, "fb")
<1>1. N \in Nat /\ N >= 1 /\ Middles(c, wi) = 2 * N
  BY NumbersAssumption DEF Middles
<1>2. \A j : Middle(c, wi, j) = IF j % 2 = 1 THEN j0 ELSE l
  BY DEF Middle, JoinLeaveMiddle
<1> HIDE DEF N
<1>3. Program(c, wi) = e0 \o Repeat(N, LAMBDA i : Joinfbar("fb") \o Leavefbar("fb"))
                          \o <<BarrierOp>> \o t \o s
  <2>1. Program(c, wi) = FBarrierJoinLeave(c, wi)
    BY DEF Program
  <2>2. InitfbarInFirstWI(c, wi, "fb") = e0 /\ Barrier = <<BarrierOp>>
    BY KernelCodeIs
  <2> HIDE DEF e0
  <2> QED
    BY <2>1, <2>2 DEF FBarrierJoinLeave, N
<1>4. Repeat(N, LAMBDA i : Joinfbar("fb") \o Leavefbar("fb")) = r
  <2>1. Joinfbar("fb") \o Leavefbar("fb") = w
    BY KernelCodeIs, Zenon
  <2> HIDE DEF w
  <2>2. Repeat(N, LAMBDA i : Joinfbar("fb") \o Leavefbar("fb"))
          = Repeated(Joinfbar("fb") \o Leavefbar("fb"), N)
    BY DEF Repeat, Repeated, Repeats
  <2> QED
    BY <2>1, <2>2, Zenon
<1>5. w \in Seq(S) /\ Len(w) = 2 /\ w[1] = j0 /\ w[2] = l
  <2>1. 1 \in 1..Middles(c, wi) /\ 2 \in 1..Middles(c, wi) /\ 1 % 2 = 1 /\ 2 % 2 = 0
    BY <1>1
  <2>2. j0 \in S /\ l \in S
    BY <1>2, <2>1, OpsIn
  <2> HIDE DEF S, j0, l
  <2> DEFINE u == <<j0, l>>
  <2>3. u \in Seq(S) /\ Len(u) = 2 /\ u[1] = j0 /\ u[2] = l
    BY <2>2
  <2>4. Begins(S, u, 1, <<j0>>)
    BY <2>2 DEF Begins
  <2> HIDE DEF u
  <2>5. Begins(S, u, 1 + 1, Then(<<j0>>, l))
    BY <2>3, <2>4, Appended
  <2> QED
    BY <2>3, <2>5 DEF Begins, Then
<1> HIDE DEF w
<1>6. /\ r \in Seq(S) /\ Len(r) = 2 * N
      /\ \A i \in 1..Len(r) : r[i] = Middle(c, wi, 0 + i)
  <2>1. IsRepeated(r, S, w, N, 2)
    BY <1>1, <1>5, RepeatedIs
  <2> HIDE DEF r
  <2>2. r \in Seq(S) /\ Len(r) = N * 2 /\ \A k \in 0..(N - 1), j \in 1..2 : r[k * 2 + j] = w[j]
    BY <2>1 DEF IsRepeated
  <2>3. ASSUME NEW i \in 1..(2 * N) PROVE r[i] = IF i % 2 = 1 THEN j0 ELSE l
    <3>1. CASE i % 2 = 1
      <4>1. PICK k \in 0..(N - 1) : i = k * 2 + 1
        <5>1. i = 2 * (i \div 2) + 1
          BY <3>1
        <5>2. (i \div 2) \in 0..(N - 1)
          BY <1>1, <5>1
        <5> QED
          BY <5>1, <5>2
      <4>2. 1 \in 1..2
        OBVIOUS
      <4> QED
        BY <1>5, <2>2, <3>1, <4>1, <4>2
    <3>2. CASE i % 2 # 1
      <4>1. PICK k \in 0..(N - 1) : i = k * 2 + 2
        <5>1. i = 2 * ((i \div 2) - 1) + 2
          BY <3>2
        <5>2. ((i \div 2) - 1) \in 0..(N - 1)
          BY <1>1, <5>1
        <5> QED
          BY <5>1, <5>2
      <4>2. 2 \in 1..2
        OBVIOUS
      <4> QED
        BY <1>5, <2>2, <3>2, <4>1, <4>2
    <3> QED
      BY <3>1, <3>2
  <2>4. \A i \in 1..Len(r) : 0 + i = i /\ i \in 1..(2 * N)
    BY <1>1, <2>2
  <2> QED
    BY <1>1, <1>2, <2>2, <2>3, <2>4
<1> HIDE DEF r
<1>7. Spells(c, wi, 0 + Len(r), e0 \o r)
  <2>1. Spells(c, wi, 0, e0)
    BY SpellsInit
  <2>2. 0 + Len(r) <= Middles(c, wi) /\ 0 \in Nat
    BY <1>1, <1>6
  <2> HIDE DEF e0
  <2> QED
    BY <1>6, <2>1, <2>2, SpellsPiece
<1>8. Spells(c, wi, Middles(c, wi), e1)
  <2>1. 0 + Len(r) = Middles(c, wi)
    BY <1>1, <1>6
  <2> QED
    BY <1>7, <2>1
<1> HIDE DEF e1
<1>9. Spells(c, wi, Middles(c, wi) + 1, e1 \o <<BarrierOp>>)
  BY <1>8, SpellsNext DEF Then
<1>10. /\ t = ReleaseCode(LeadsGroup(c, wi)) /\ Tail1(c) = 1 /\ ResultInStep(c) = VALUE1
       /\ s = <<StoreOp(<<"output", wi>>, ResultInStep(c))>>
  BY KernelCodeIs DEF Tail1, ResultInStep
<1>11. e1 \o <<BarrierOp>> \o t \o s = ListInStep(c, wi)
  BY <1>9, <1>10, SpellsEnd
<1> QED
  BY <1>3, <1>4, <1>11, Zenon DEF e1

LEMMA BasicProgram ==
  ASSUME NEW c, c.test = "basic", NEW wi
  PROVE  Program(c, wi) = ListInStep(c, wi)
<1> DEFINE S == OpsOf(c, wi)  m == Middles(c, wi)  odd == IsOddWave(c, wi)
           w == FbarOp("wait")  a1 == AtomicStoreOp(<<"output", wi>>, VALUE1)
           a2 == AtomicStoreOp(<<"output", wi>>, VALUE2)
           a3 == AtomicStoreOp(<<"output", wi + c.wave>>, VALUE2)
           e0 == InitCode(LeadsGroup(c, wi))  e1 == Then(e0, FbarOp("join"))  e2 == Then(e1, BarrierOp)
           Is(j, p) == Spells(c, wi, j, p)
<1>1. m = IF odd THEN 6 ELSE 7
  BY DEF Middles
<1>2. \A j : Middle(c, wi, j) = BasicMiddle(c, wi, j)
  BY DEF Middle
<1>3. /\ Middle(c, wi, 1) = FbarOp("join") /\ Middle(c, wi, 2) = BarrierOp
      /\ odd => Middle(c, wi, 3) = a1 /\ Middle(c, wi, 4) = w
      /\ ~odd => Middle(c, wi, 3) = w /\ Middle(c, wi, 4) = a2 /\ Middle(c, wi, 5) = a3
      /\ Middle(c, wi, m - 1) = BarrierOp /\ Middle(c, wi, m) = FbarOp("leave")
  <2> HIDE DEF odd, w, a1, a2, a3
  <2>1. \A j : BasicMiddle(c, wi, j) =
          CASE j = 1 -> FbarOp("join")
            [] j = m -> FbarOp("leave")
            [] j = IF odd THEN 4 ELSE 3 -> w
            [] j = 3 /\ odd -> a1
            [] j = 4 /\ ~odd -> a2
            [] j = 5 /\ ~odd -> a3
            [] OTHER -> BarrierOp
    BY DEF BasicMiddle, odd, w, a1, a2, a3
  <2> HIDE DEF m
  <2>2. CASE odd
    <3>1. m = 6
      BY <1>1, <2>2
    <3>2. \A j : BasicMiddle(c, wi, j) =
            CASE j = 1 -> FbarOp("join")
              [] j = 6 -> FbarOp("leave")
              [] j = 4 -> w
              [] j = 3 -> a1
              [] OTHER -> BarrierOp
      BY <2>1, <2>2, <3>1
    <3> QED
      BY <1>2, <2>2, <3>1, <3>2
  <2>3. CASE ~odd
    <3>1. m = 7
      BY <1>1, <2>3
    <3>2. \A j : BasicMiddle(c, wi, j) =
            CASE j = 1 -> FbarOp("join")
              [] j = 7 -> FbarOp("leave")
              [] j = 3 -> w
              [] j = 4 -> a2
              [] j = 5 -> a3
              [] OTHER -> BarrierOp
      BY <2>1, <2>3, <3>1
    <3> QED
      BY <1>2, <2>3, <3>1, <3>2
  <2> QED
    BY <2>2, <2>3
<1>4. Program(c, wi) = e2 \o (IF odd THEN <<a1>> \o <<w>> ELSE <<w>> \o <<a2>> \o <<a3>>) \o EmitRelease(c, wi)
  <2>1. Program(c, wi) = FBarrierBasic(c, wi)
    BY DEF Program
  <2>2. EmitInit(c, wi) = e2
    BY KernelCodeIs, Zenon DEF EmitInit, Then
  <2> HIDE DEF e2
  <2>3. BasicOdd(c, wi) = <<a1>> \o <<w>> /\ BasicEven(c, wi) = <<w>> \o <<a2>> \o <<a3>>
    BY KernelCodeIs, Zenon DEF BasicOdd, BasicEven, Global
  <2> HIDE DEF a1, a2, a3, w
  <2> QED
    BY <2>1, <2>2, <2>3, Zenon DEF FBarrierBasic
<1>5. \A j \in 1..m : \A p : Is(j - 1, p) => Is(j, Then(p, Middle(c, wi, j)))
  BY SpellsNext
<1>6. /\ \A j \in 1..m : Middle(c, wi, j) \in S
      /\ 1 \in 1..m /\ 2 \in 1..m /\ 3 \in 1..m /\ 4 \in 1..m /\ 5 \in 1..m
      /\ 2 - 1 = 1 /\ 3 - 1 = 2 /\ 4 - 1 = 3 /\ 5 - 1 = 4
  BY <1>1, OpsIn
<1>7. Is(2, e2)
  <2>1. Is(1 - 1, e0)
    BY SpellsInit
  <2> HIDE DEF e0, Is
  <2>2. Is(2 - 1, e1)
    BY <1>3, <1>5, <1>6, <2>1
  <2> HIDE DEF e1
  <2> QED
    BY <1>3, <1>5, <1>6, <2>2
<1>8. e2 \in Seq(S)
  BY <1>7 DEF Spells, Begins
<1> HIDE DEF e2
<1>9. Tail1(c) = 0
  BY DEF Tail1
<1>10. CASE odd
  <2>1. Is(4, e2 \o <<a1>> \o <<w>>)
    <3> HIDE DEF Is, a1, w, m
    <3>1. Is(3, Then(e2, a1))
      BY <1>3, <1>5, <1>6, <1>7, <1>10
    <3>2. Is(4, Then(Then(e2, a1), w))
      BY <1>3, <1>5, <1>6, <1>10, <3>1
    <3> QED
      BY <3>2 DEF Then
  <2>2. e2 \o (<<a1>> \o <<w>>) = e2 \o <<a1>> \o <<w>>
    <3>1. a1 \in S /\ w \in S
      BY <1>3, <1>6, <1>10
    <3> HIDE DEF S, a1, w
    <3>2. <<a1>> \in Seq(S) /\ <<w>> \in Seq(S)
      BY <3>1
    <3> QED
      BY <1>8, <3>2, Associative
  <2> DEFINE p == e2 \o <<a1>> \o <<w>>
  <2>3. Spells(c, wi, m - 2, p)
    BY <1>1, <1>10, <2>1
  <2>4. Program(c, wi) = p \o EmitRelease(c, wi)
    BY <1>4, <1>10, <2>2, Zenon
  <2> HIDE DEF p
  <2> QED
    BY <1>3, <1>9, <2>3, <2>4, SpellsRelease
<1>11. CASE ~odd
  <2>1. Is(5, e2 \o <<w>> \o <<a2>> \o <<a3>>)
    <3> HIDE DEF Is, a2, a3, w, m
    <3>1. Is(3, Then(e2, w))
      BY <1>3, <1>5, <1>6, <1>7, <1>11
    <3>2. Is(4, Then(Then(e2, w), a2))
      BY <1>3, <1>5, <1>6, <1>11, <3>1
    <3>3. Is(5, Then(Then(Then(e2, w), a2), a3))
      BY <1>3, <1>5, <1>6, <1>11, <3>2
    <3> QED
      BY <3>3 DEF Then
  <2>2. e2 \o (<<w>> \o <<a2>> \o <<a3>>) = e2 \o <<w>> \o <<a2>> \o <<a3>>
    <3>1. a2 \in S /\ w \in S /\ a3 \in S
      BY <1>3, <1>6, <1>11
    <3> HIDE DEF S, a2, a3, w
    <3>2. <<a2>> \in Seq(S) /\ <<w>> \in Seq(S) /\ <<a3>> \in Seq(S)
      BY <3>1
    <3> QED
      BY <1>8, <3>2, Within
  <2> DEFINE p == e2 \o <<w>> \o <<a2>> \o <<a3>>
  <2>3. Spells(c, wi, m - 2, p)
    BY <1>1, <1>11, <2>1
  <2>4. Program(c, wi) = p \o EmitRelease(c, wi)
    BY <1>4, <1>11, <2>2, Zenon
  <2> HIDE DEF p
  <2> QED
    BY <1>3, <1>9, <2>3, <2>4, SpellsRelease
<1> QED
  BY <1>10, <1>11

LEMMA ProgramInStep ==
  ASSUME NEW c, InStep(c), NEW wi
  PROVE  Program(c, wi) = ListInStep(c, wi)
BY BasicProgram, WaitRaceProgram, LdfProgram, JoinLeaveProgram, JoinLeaveJoinProgram DEF InStep
-----------------------------------------------------------------------------
\* The stage of a work-item, and the one after it.
K(wi) == StageOf(case, wi, pc[wi])
NextStage(c, wi, k) == IF k = Middles(c, wi) + 3 /\ ~LeadsGroup(c, wi) THEN k + 2 ELSE k + 1
Last(c, wi) == Middles(c, wi) + 5 + Tail1(c)

LEMMA StageIs ==
  ASSUME NEW c, NEW wi, NEW n \in Nat, n >= 1
  PROVE  LET k == StageOf(c, wi, n)
         IN  /\ k \in Nat /\ k >= 1
             /\ n > Total(c, wi) <=> k > Last(c, wi)
             /\ k \in {1, Middles(c, wi) + 4} => LeadsGroup(c, wi)
             /\ StageOf(c, wi, n + 1) = NextStage(c, wi, k)
<1> DEFINE m == Middles(c, wi)  t == Tail1(c)  F == LeadsGroup(c, wi)
<1>1. m \in Nat /\ m >= 2 /\ t \in {0, 1}
  BY MiddlesType
<1>2. Total(c, wi) = 2 * (IF F THEN 2 ELSE 1) + m + 1 + t
  BY DEF Total, Lead
<1>3. \A i : StageOf(c, wi, i) = IF F THEN i ELSE IF i <= m + 2 THEN i + 1 ELSE i + 2
  BY DEF StageOf
<1>4. \A k : NextStage(c, wi, k) = IF k = m + 3 /\ ~F THEN k + 2 ELSE k + 1
  BY DEF NextStage
<1>5. Last(c, wi) = m + 5 + t
  BY DEF Last
<1> HIDE DEF m, t, F
<1>6. CASE F
  <2>1. StageOf(c, wi, n) = n /\ StageOf(c, wi, n + 1) = n + 1
    BY <1>3, <1>6
  <2> QED
    BY <1>1, <1>2, <1>4, <1>5, <1>6, <2>1 DEF F, m
<1>7. CASE ~F
  <2>1. /\ n <= m + 2 => StageOf(c, wi, n) = n + 1
        /\ n > m + 2 => StageOf(c, wi, n) = n + 2
        /\ n + 1 <= m + 2 => StageOf(c, wi, n + 1) = n + 2
        /\ n + 1 > m + 2 => StageOf(c, wi, n + 1) = n + 3
    BY <1>1, <1>3, <1>7
  <2>2. Total(c, wi) = m + 3 + t
    BY <1>1, <1>2, <1>7
  <2> DEFINE k == StageOf(c, wi, n)
  <2>3. /\ k \in Nat /\ k >= 1 /\ k # 1 /\ k # m + 4
        /\ n > Total(c, wi) <=> k > Last(c, wi)
    BY <1>1, <1>5, <2>1, <2>2
  <2>4. StageOf(c, wi, n + 1) = NextStage(c, wi, k)
    BY <1>1, <1>4, <1>7, <2>1
  <2> QED
    BY <2>3, <2>4 DEF m
<1> QED
  BY <1>6, <1>7

LEMMA AtIs ==
  ASSUME Basic, InStep(case), NEW wi \in WorkItems(case), pc[wi] >= 1
  PROVE  /\ K(wi) \in Nat /\ K(wi) >= 1
         /\ Ended(wi) <=> K(wi) > Last(case, wi)
         /\ ~Ended(wi) => At(wi) = AtStage(case, wi, K(wi))
         /\ K(wi) \in {1, Middles(case, wi) + 4} => LeadsGroup(case, wi)
         /\ StageOf(case, wi, pc[wi] + 1) = NextStage(case, wi, K(wi))
<1>1. Code(wi) = ListInStep(case, wi)
  BY CodeIs, ProgramInStep
<1>2. pc[wi] \in Nat
  BY DEF Basic
<1>3. Len(ListInStep(case, wi)) = Total(case, wi) /\ Total(case, wi) \in Nat
  BY ListType, MiddlesType
<1>4. Ended(wi) <=> pc[wi] > Total(case, wi)
  BY <1>1, <1>3 DEF Ended
<1>5. ~Ended(wi) => At(wi) = AtStage(case, wi, K(wi))
  <2> SUFFICES ASSUME ~Ended(wi) PROVE At(wi) = AtStage(case, wi, K(wi))
    OBVIOUS
  <2>1. pc[wi] \in 1..Total(case, wi)
    BY <1>2, <1>3, <1>4
  <2> QED
    BY <1>1, <2>1 DEF At, ListInStep, K
<1> QED
  BY <1>2, <1>4, <1>5, StageIs DEF K

\* Of each stage: the part of the program between barriers in which it is,
\* whether the wavefront is a member of the fbarrier, and how many times it
\* has arrived.
Phase(c, wi, k) ==
    CASE k <= 2 -> 0
      [] k \in (Middles(c, wi) + 4)..(Middles(c, wi) + 5) -> 5
      [] k > Middles(c, wi) + 5 -> 6
      [] k \in 3..(Middles(c, wi) + 3) ->
            CASE c.test = "join_leave" -> 1
              [] c.test = "join_leave_join" ->
                    IF k <= 3 THEN 1 ELSE IF k <= 7 THEN 2 ELSE IF k <= 9 THEN 3 ELSE 4
              [] c.test = "ldf" ->
                    IF k <= 4 THEN 1 ELSE IF k <= 6 THEN 2 ELSE IF k <= 8 THEN 3 ELSE 4
              [] OTHER ->
                    IF k <= 4 THEN 1 ELSE IF k <= Middles(c, wi) + 1 THEN 2 ELSE 3

Joined(c, wi, k) ==
    CASE c.test = "join_leave_join" -> k = 5 \/ k \in 7..10
      [] c.test = "join_leave" -> k % 2 = 0 /\ k \in 4..(2 * LOOP_COUNT + 2)
      [] OTHER -> k \in 4..(Middles(c, wi) + 2)

Rounds(c, wi, k) ==
    CASE c.test = "wait_race" ->
            IF k <= 5 THEN 0 ELSE IF k <= ITERATION_NUMBER + 5 THEN k - 5 ELSE ITERATION_NUMBER
      [] c.test = "ldf" -> IF k <= 5 THEN 0 ELSE IF k <= 7 THEN 1 ELSE 2
      [] c.test = "join_leave_join" -> IF k <= 8 THEN 0 ELSE 1
      [] c.test = "basic" -> IF k <= (IF IsOddWave(c, wi) THEN 6 ELSE 5) THEN 0 ELSE 1
      [] OTHER -> 0

Arrives == {FbarOp("wait"), FbarOp("arrive")}
Members == {FbarOp("join"), FbarOp("leave")}

\* What a stage has to do with the next one.
StageFollows(c, wi, k) ==
    LET i == AtStage(c, wi, k)  n == NextStage(c, wi, k)
    IN  /\ i = FbarOp("join") => ~Joined(c, wi, k) /\ Joined(c, wi, n)
        /\ i = FbarOp("leave") => Joined(c, wi, k) /\ ~Joined(c, wi, n)
        /\ i \in Arrives => Joined(c, wi, k)
        /\ i \notin Members => (Joined(c, wi, n) <=> Joined(c, wi, k))
        /\ Rounds(c, wi, n) = IF i \in Arrives THEN Rounds(c, wi, k) + 1 ELSE Rounds(c, wi, k)
        /\ i # BarrierOp => Phase(c, wi, n) = Phase(c, wi, k)
        /\ i = FbarOp("arrive") => AtStage(c, wi, n) = BarrierOp

\* And with a stage of another work-item in the same part of the program.
StagesAgree(c, wi, k, v, j) ==
    LET i == AtStage(c, wi, k)
    IN  Phase(c, wi, k) = Phase(c, v, j) =>
          /\ i = BarrierOp /\ AtStage(c, v, j) = BarrierOp =>
                /\ Rounds(c, wi, k) = Rounds(c, v, j)
                /\ Phase(c, wi, NextStage(c, wi, k)) = Phase(c, v, NextStage(c, v, j))
          /\ i \in Members => Rounds(c, wi, k) = Rounds(c, v, j)
          /\ i \in Arrives => Joined(c, v, j)
          /\ i = ReleaseOp => ~Joined(c, v, j)

\* The operations differ from each other.
Apart(o) == o \notin Arrives /\ o \notin Members /\ o # BarrierOp /\ o # ReleaseOp

LEMMA OpsDiffer ==
  /\ FbarOp("join") # FbarOp("leave") /\ FbarOp("wait") # FbarOp("arrive")
  /\ FbarOp("join") \notin Arrives /\ FbarOp("leave") \notin Arrives
  /\ FbarOp("wait") \notin Members /\ FbarOp("arrive") \notin Members
  /\ \A kind : FbarOp(kind) # BarrierOp /\ FbarOp(kind) # ReleaseOp
  /\ BarrierOp \notin Members /\ BarrierOp \notin Arrives /\ BarrierOp # ReleaseOp
  /\ ReleaseOp \notin Members /\ ReleaseOp \notin Arrives
  /\ Apart(InitOp) /\ \A a, n : Apart(StoreOp(a, n)) /\ Apart(AtomicStoreOp(a, n))
<1>1. \A kind : FbarOp(kind).op = "fbar" /\ FbarOp(kind).kind = kind
  BY DEF FbarOp
<1>2. /\ BarrierOp.op = "barrier" /\ InitOp.op = "initfbar" /\ ReleaseOp.op = "releasefbar"
      /\ \A a, n : StoreOp(a, n).op = "st" /\ AtomicStoreOp(a, n).op = "atomic"
  BY DEF BarrierOp, InitOp, ReleaseOp, StoreOp, AtomicStoreOp
<1> QED
  BY <1>1, <1>2 DEF Arrives, Members, Apart

\* The stages, as the operations of each test.
LEMMA StagesOf ==
  ASSUME NEW c, NEW wi, NEW k \in 1..Last(c, wi)
  PROVE  LET m == Middles(c, wi)  i == AtStage(c, wi, k)
         IN  /\ k = 1 => i = InitOp
             /\ k \in {2, m + 3, m + 5} => i = BarrierOp
             /\ k = m + 4 => i = ReleaseOp
             /\ k = m + 6 => i = StoreOp(<<"output", wi>>, ResultInStep(c))
             /\ k \in 3..(m + 2) => i = Middle(c, wi, k - 2)
             /\ k \in 1..(m + 6) /\ k \in Nat /\ m \in Nat /\ m >= 2
<1> DEFINE m == Middles(c, wi)  t == Tail1(c)
<1>1. m \in Nat /\ m >= 2 /\ t \in {0, 1} /\ Last(c, wi) = m + 5 + t
  BY MiddlesType DEF Last
<1>2. AtStage(c, wi, k) =
        CASE k = 1 -> InitOp
          [] k = m + 4 -> ReleaseOp
          [] k \in {2, m + 3, m + 5} -> BarrierOp
          [] k > m + 5 -> StoreOp(<<"output", wi>>, ResultInStep(c))
          [] OTHER -> Middle(c, wi, k - 2)
  BY DEF AtStage
<1> HIDE DEF m, t
<1>3. k \in Nat /\ k >= 1 /\ k <= m + 6
  BY <1>1
<1> QED
  BY <1>1, <1>2, <1>3 DEF m

LEMMA NextStageIs ==
  ASSUME NEW c, NEW wi, NEW k \in 1..Last(c, wi)
  PROVE  LET m == Middles(c, wi)  n == NextStage(c, wi, k)
         IN  IF k = m + 3 THEN n \in {m + 4, m + 5} ELSE n = k + 1
<1> DEFINE m == Middles(c, wi)
<1>1. m \in Nat
  BY MiddlesType
<1>2. k \in Nat
  BY MiddlesType DEF Last
<1> HIDE DEF m
<1> QED
  BY <1>1, <1>2 DEF NextStage, m

LEMMA MiddleStage ==
  ASSUME NEW c, NEW wi, NEW j \in 1..Middles(c, wi)
  PROVE  AtStage(c, wi, j + 2) = Middle(c, wi, j)
<1> DEFINE m == Middles(c, wi)  k == j + 2
<1>1. m \in Nat /\ Last(c, wi) \in Nat /\ Last(c, wi) >= m + 5
  BY MiddlesType DEF Last
<1> HIDE DEF m
<1>2. k \in 3..(m + 2) /\ k \in 1..Last(c, wi) /\ k - 2 = j
  BY <1>1 DEF m
<1> HIDE DEF k
<1>3. AtStage(c, wi, k) = Middle(c, wi, k - 2)
  BY <1>2, StagesOf DEF m
<1> QED
  BY <1>2, <1>3 DEF k

LEMMA LdfStages ==
  ASSUME NEW c, c.test = "ldf", NEW wi, NEW k \in 1..Last(c, wi)
  PROVE  LET i == AtStage(c, wi, k)  n == NextStage(c, wi, k)
         IN  /\ k \in 1..13 /\ k \in Nat /\ n \in {k + 1, k + 2} /\ (k # 10 => n = k + 1)
             /\ n \in Nat /\ n >= 1
             /\ k \in {1, 13} => Apart(i)
             /\ k \in {2, 4, 6, 8, 10, 12} => i = BarrierOp
             /\ k = 3 => i = FbarOp("join")
             /\ k = 5 => i = FbarOp("arrive")
             /\ k = 7 => i = FbarOp("wait")
             /\ k = 9 => i = FbarOp("leave")
             /\ k = 11 => i = ReleaseOp
             /\ k = 5 => AtStage(c, wi, n) = BarrierOp
<1> DEFINE i == AtStage(c, wi, k)  n == NextStage(c, wi, k)
           j == FbarOp("join")  l == FbarOp("leave")  w == FbarOp("wait")  a == FbarOp("arrive")
           b == BarrierOp  r == ReleaseOp
<1>0. Middles(c, wi) = 7
  BY DEF Middles
<1>1. k \in 1..13 /\ k \in Nat /\ n \in {k + 1, k + 2} /\ (k # 10 => n = k + 1)
  <2>1. k \in 1..(7 + 6) /\ k \in Nat
    BY <1>0, StagesOf
  <2>2. IF k = 7 + 3 THEN n \in {7 + 4, 7 + 5} ELSE n = k + 1
    BY <1>0, NextStageIs
  <2> HIDE DEF n
  <2> QED
    BY <2>1, <2>2
<1>2. /\ k \in {1, 13} => Apart(i)
      /\ k \in {2, 4, 6, 8, 10, 12} => i = b
      /\ k = 3 => i = j
      /\ k = 5 => i = a
      /\ k = 7 => i = w
      /\ k = 9 => i = l
      /\ k = 11 => i = r
  <2>1. /\ k = 1 => i = InitOp
        /\ k \in {2, 10, 12} => i = b
        /\ k = 11 => i = r
        /\ k = 13 => i = StoreOp(<<"output", wi>>, ResultInStep(c))
        /\ k \in 3..9 => i = LdfMiddle(k - 2)
    BY <1>0, StagesOf DEF Middle
  <2>2. k \in 3..9 => LdfMiddle(k - 2) =
          CASE k = 3 -> j [] k = 5 -> a [] k = 7 -> w [] k = 9 -> l [] OTHER -> b
    BY DEF LdfMiddle
  <2> HIDE DEF i, j, l, w, a, b, r
  <2> QED
    BY <1>1, <2>1, <2>2, OpsDiffer
<1>3. k = 5 => AtStage(c, wi, n) = b
  <2>1. 4 \in 1..Middles(c, wi) /\ 4 + 2 = 6
    BY <1>0
  <2>2. AtStage(c, wi, 6) = Middle(c, wi, 4)
    BY <2>1, MiddleStage
  <2>3. Middle(c, wi, 4) = b
    BY DEF Middle, LdfMiddle
  <2> QED
    BY <1>1, <2>2, <2>3
<1> QED
  BY <1>1, <1>2, <1>3

LEMMA LdfPhases ==
  ASSUME NEW c, c.test = "ldf", NEW wi, NEW q \in Nat
  PROVE  /\ Joined(c, wi, q) <=> q \in 4..9
         /\ Rounds(c, wi, q) = IF q <= 5 THEN 0 ELSE IF q <= 7 THEN 1 ELSE 2
         /\ Phase(c, wi, q) =
              IF q <= 2 THEN 0 ELSE IF q <= 4 THEN 1 ELSE IF q <= 6 THEN 2 ELSE IF q <= 8 THEN 3
              ELSE IF q <= 10 THEN 4 ELSE IF q <= 12 THEN 5 ELSE 6
<1>0. Middles(c, wi) = 7
  BY DEF Middles
<1> QED
  BY <1>0 DEF Joined, Rounds, Phase

LEMMA LdfInStep ==
  ASSUME NEW c, c.test = "ldf", NEW wi, NEW k \in 1..Last(c, wi)
  PROVE  /\ StageFollows(c, wi, k)
         /\ \A v : \A j \in 1..(Last(c, v) + 1) : StagesAgree(c, wi, k, v, j)
<1> DEFINE Sg(v, q) == AtStage(c, v, q)  N(v, q) == NextStage(c, v, q)
<1>1. StageFollows(c, wi, k)
  <2>1. N(wi, k) \in Nat /\ k \in Nat
    BY LdfStages
  <2> QED
    BY <2>1, LdfStages, LdfPhases, OpsDiffer DEF StageFollows, Arrives, Members, Apart
<1>2. ASSUME NEW v, NEW j \in 1..(Last(c, v) + 1), Phase(c, wi, k) = Phase(c, v, j)
      PROVE  StagesAgree(c, wi, k, v, j)
  <2>1. Last(c, v) = 13
    BY DEF Last, Middles, Tail1
  <2>2. j \in Nat /\ j \in 1..14 /\ (j # 14 => j \in 1..Last(c, v))
    BY <2>1
  <2>3. k \in Nat
    BY LdfStages
  <2>4. Sg(wi, k) \in Members => Rounds(c, wi, k) = Rounds(c, v, j)
    BY <1>2, <2>2, <2>3, LdfStages, LdfPhases, OpsDiffer DEF Members, Apart
  <2>5. Sg(wi, k) \in Arrives => Joined(c, v, j)
    BY <1>2, <2>2, <2>3, LdfStages, LdfPhases, OpsDiffer DEF Arrives, Apart
  <2>6. Sg(wi, k) = ReleaseOp => ~Joined(c, v, j)
    BY <1>2, <2>2, <2>3, LdfStages, LdfPhases, OpsDiffer DEF Apart
  <2>7. ASSUME Sg(wi, k) = BarrierOp, Sg(v, j) = BarrierOp
        PROVE  /\ Rounds(c, wi, k) = Rounds(c, v, j)
               /\ Phase(c, wi, N(wi, k)) = Phase(c, v, N(v, j))
    <3>0. AtStage(c, v, 14) # BarrierOp
      <4>1. AtStage(c, v, 14) = StoreOp(<<"output", v>>, ResultInStep(c))
        BY DEF AtStage, Middles
      <4> QED
        BY <4>1, OpsDiffer DEF Apart
    <3>1. j \in 1..Last(c, v)
      BY <2>2, <2>7, <3>0
    <3>2. k \in {2, 4, 6, 8, 10, 12}
      BY <2>7, LdfStages, OpsDiffer DEF Apart
    <3>3. j \in {2, 4, 6, 8, 10, 12}
      BY <2>7, <3>1, LdfStages, OpsDiffer DEF Apart
    <3>4. k = j
      BY <1>2, <2>2, <2>3, <3>2, <3>3, LdfPhases
    <3>5. /\ N(wi, k) \in Nat /\ N(wi, k) \in {k + 1, k + 2} /\ (k # 10 => N(wi, k) = k + 1)
          /\ N(v, j) \in Nat /\ N(v, j) \in {j + 1, j + 2} /\ (j # 10 => N(v, j) = j + 1)
      BY <3>1, LdfStages
    <3> HIDE DEF N
    <3> QED
      BY <2>2, <2>3, <3>2, <3>4, <3>5, LdfPhases
  <2> QED
    BY <2>4, <2>5, <2>6, <2>7 DEF StagesAgree
<1> QED
  BY <1>1, <1>2 DEF StagesAgree

LEMMA JoinLeaveJoinStages ==
  ASSUME NEW c, c.test = "join_leave_join", NEW wi, NEW k \in 1..Last(c, wi)
  PROVE  LET i == AtStage(c, wi, k)  n == NextStage(c, wi, k)
         IN  /\ k \in 1..14 /\ k \in Nat /\ n \in {k + 1, k + 2} /\ (k # 11 => n = k + 1)
             /\ n \in Nat /\ n >= 1
             /\ k \in {1, 14} => Apart(i)
             /\ k \in {2, 3, 7, 9, 11, 13} => i = BarrierOp
             /\ k \in {4, 6} => i = FbarOp("join")
             /\ k = 8 => i = FbarOp("wait")
             /\ k \in {5, 10} => i = FbarOp("leave")
             /\ k = 12 => i = ReleaseOp
<1> DEFINE i == AtStage(c, wi, k)  n == NextStage(c, wi, k)
           j == FbarOp("join")  l == FbarOp("leave")  w == FbarOp("wait")
           b == BarrierOp  r == ReleaseOp
<1>0. Middles(c, wi) = 8
  BY DEF Middles
<1>1. k \in 1..14 /\ k \in Nat /\ n \in {k + 1, k + 2} /\ (k # 11 => n = k + 1)
  <2>1. k \in 1..(8 + 6) /\ k \in Nat
    BY <1>0, StagesOf
  <2>2. IF k = 8 + 3 THEN n \in {8 + 4, 8 + 5} ELSE n = k + 1
    BY <1>0, NextStageIs
  <2> HIDE DEF n
  <2> QED
    BY <2>1, <2>2
<1>2. /\ k \in {1, 14} => Apart(i)
      /\ k \in {2, 3, 7, 9, 11, 13} => i = b
      /\ k \in {4, 6} => i = j
      /\ k = 8 => i = w
      /\ k \in {5, 10} => i = l
      /\ k = 12 => i = r
  <2>1. /\ k = 1 => i = InitOp
        /\ k \in {2, 11, 13} => i = b
        /\ k = 12 => i = r
        /\ k = 14 => i = StoreOp(<<"output", wi>>, ResultInStep(c))
        /\ k \in 3..10 => i = JoinLeaveJoinMiddle(k - 2)
    BY <1>0, StagesOf DEF Middle
  <2>2. k \in 3..10 => JoinLeaveJoinMiddle(k - 2) =
          CASE k \in {4, 6} -> j [] k \in {5, 10} -> l [] k = 8 -> w [] OTHER -> b
    BY DEF JoinLeaveJoinMiddle
  <2> HIDE DEF i, j, l, w, b, r
  <2> QED
    BY <1>1, <2>1, <2>2, OpsDiffer
<1> QED
  BY <1>1, <1>2

LEMMA JoinLeaveJoinPhases ==
  ASSUME NEW c, c.test = "join_leave_join", NEW wi, NEW q \in Nat
  PROVE  /\ Joined(c, wi, q) <=> q = 5 \/ q \in 7..10
         /\ Rounds(c, wi, q) = IF q <= 8 THEN 0 ELSE 1
         /\ Phase(c, wi, q) =
              IF q <= 2 THEN 0 ELSE IF q <= 3 THEN 1 ELSE IF q <= 7 THEN 2 ELSE IF q <= 9 THEN 3
              ELSE IF q <= 11 THEN 4 ELSE IF q <= 13 THEN 5 ELSE 6
<1>0. Middles(c, wi) = 8
  BY DEF Middles
<1> QED
  BY <1>0 DEF Joined, Rounds, Phase

LEMMA JoinLeaveJoinInStep ==
  ASSUME NEW c, c.test = "join_leave_join", NEW wi, NEW k \in 1..Last(c, wi)
  PROVE  /\ StageFollows(c, wi, k)
         /\ \A v : \A j \in 1..(Last(c, v) + 1) : StagesAgree(c, wi, k, v, j)
<1> DEFINE Sg(v, q) == AtStage(c, v, q)  N(v, q) == NextStage(c, v, q)
<1>1. StageFollows(c, wi, k)
  <2>1. N(wi, k) \in Nat /\ k \in Nat
    BY JoinLeaveJoinStages
  <2> QED
    BY <2>1, JoinLeaveJoinStages, JoinLeaveJoinPhases, OpsDiffer
       DEF StageFollows, Arrives, Members, Apart
<1>2. ASSUME NEW v, NEW j \in 1..(Last(c, v) + 1), Phase(c, wi, k) = Phase(c, v, j)
      PROVE  StagesAgree(c, wi, k, v, j)
  <2>1. Last(c, v) = 14
    BY DEF Last, Middles, Tail1
  <2>2. j \in Nat /\ j \in 1..15 /\ (j # 15 => j \in 1..Last(c, v))
    BY <2>1
  <2>3. k \in Nat
    BY JoinLeaveJoinStages
  <2>4. Sg(wi, k) \in Members => Rounds(c, wi, k) = Rounds(c, v, j)
    BY <1>2, <2>2, <2>3, JoinLeaveJoinStages, JoinLeaveJoinPhases, OpsDiffer DEF Members, Apart
  <2>5. Sg(wi, k) \in Arrives => Joined(c, v, j)
    BY <1>2, <2>2, <2>3, JoinLeaveJoinStages, JoinLeaveJoinPhases, OpsDiffer DEF Arrives, Apart
  <2>6. Sg(wi, k) = ReleaseOp => ~Joined(c, v, j)
    BY <1>2, <2>2, <2>3, JoinLeaveJoinStages, JoinLeaveJoinPhases, OpsDiffer DEF Apart
  <2>7. ASSUME Sg(wi, k) = BarrierOp, Sg(v, j) = BarrierOp
        PROVE  /\ Rounds(c, wi, k) = Rounds(c, v, j)
               /\ Phase(c, wi, N(wi, k)) = Phase(c, v, N(v, j))
    <3>0. AtStage(c, v, 15) # BarrierOp
      <4>1. AtStage(c, v, 15) = StoreOp(<<"output", v>>, ResultInStep(c))
        BY DEF AtStage, Middles
      <4> QED
        BY <4>1, OpsDiffer DEF Apart
    <3>1. j \in 1..Last(c, v)
      BY <2>2, <2>7, <3>0
    <3>2. k \in {2, 3, 7, 9, 11, 13}
      BY <2>7, JoinLeaveJoinStages, OpsDiffer DEF Apart
    <3>3. j \in {2, 3, 7, 9, 11, 13}
      BY <2>7, <3>1, JoinLeaveJoinStages, OpsDiffer DEF Apart
    <3>4. k = j
      BY <1>2, <2>2, <2>3, <3>2, <3>3, JoinLeaveJoinPhases
    <3>5. /\ N(wi, k) \in Nat /\ N(wi, k) \in {k + 1, k + 2} /\ (k # 11 => N(wi, k) = k + 1)
          /\ N(v, j) \in Nat /\ N(v, j) \in {j + 1, j + 2} /\ (j # 11 => N(v, j) = j + 1)
      BY <3>1, JoinLeaveJoinStages
    <3> HIDE DEF N
    <3> QED
      BY <2>2, <2>3, <3>2, <3>4, <3>5, JoinLeaveJoinPhases
  <2> QED
    BY <2>4, <2>5, <2>6, <2>7 DEF StagesAgree
<1> QED
  BY <1>1, <1>2 DEF StagesAgree

LEMMA WaitRaceStages ==
  ASSUME NEW c, c.test = "wait_race", NEW wi, NEW k \in 1..Last(c, wi)
  PROVE  LET i == AtStage(c, wi, k)  n == NextStage(c, wi, k)  I == ITERATION_NUMBER
         IN  /\ k \in 1..(I + 10) /\ k \in Nat /\ n \in {k + 1, k + 2} /\ (k # I + 7 => n = k + 1)
             /\ n \in Nat /\ n >= 1
             /\ k \in {1, I + 10} => Apart(i)
             /\ k \in {2, 4, I + 5, I + 7, I + 9} => i = BarrierOp
             /\ k = 3 => i = FbarOp("join")
             /\ k \in 5..(I + 4) => i = FbarOp("wait")
             /\ k = I + 6 => i = FbarOp("leave")
             /\ k = I + 8 => i = ReleaseOp
<1> DEFINE i == AtStage(c, wi, k)  n == NextStage(c, wi, k)  I == ITERATION_NUMBER
           j == FbarOp("join")  l == FbarOp("leave")  w == FbarOp("wait")
           b == BarrierOp  r == ReleaseOp
<1>0. Middles(c, wi) = I + 4 /\ I \in Nat /\ I >= 1
  BY NumbersAssumption DEF Middles
<1>a. (I + 4) + 3 = I + 7 /\ (I + 4) + 4 = I + 8 /\ (I + 4) + 5 = I + 9 /\ (I + 4) + 6 = I + 10
      /\ (I + 4) + 2 = I + 6
  BY <1>0
<1>1. k \in 1..(I + 10) /\ k \in Nat /\ n \in {k + 1, k + 2} /\ (k # I + 7 => n = k + 1)
  <2>1. k \in 1..(I + 10) /\ k \in Nat
    BY <1>0, <1>a, StagesOf
  <2>2. IF k = I + 7 THEN n \in {I + 8, I + 9} ELSE n = k + 1
    BY <1>0, <1>a, NextStageIs
  <2> HIDE DEF n
  <2> QED
    BY <1>0, <2>1, <2>2
<1>2. /\ k \in {1, I + 10} => Apart(i)
      /\ k \in {2, 4, I + 5, I + 7, I + 9} => i = b
      /\ k = 3 => i = j
      /\ k \in 5..(I + 4) => i = w
      /\ k = I + 6 => i = l
      /\ k = I + 8 => i = r
  <2>1. /\ k = 1 => i = InitOp
        /\ k \in {2, I + 7, I + 9} => i = b
        /\ k = I + 8 => i = r
        /\ k = I + 10 => i = StoreOp(<<"output", wi>>, ResultInStep(c))
        /\ k \in 3..(I + 6) => i = WaitRaceMiddle(k - 2)
    BY <1>0, <1>a, StagesOf DEF Middle
  <2>2. k \in 3..(I + 6) => WaitRaceMiddle(k - 2) =
          CASE k = 3 -> j [] k \in 5..(I + 4) -> w [] k = I + 6 -> l [] OTHER -> b
    <3>1. WaitRaceMiddle(k - 2) =
            CASE k - 2 = 1 -> j [] k - 2 \in 3..(I + 2) -> w [] k - 2 = I + 4 -> l [] OTHER -> b
      BY DEF WaitRaceMiddle
    <3> HIDE DEF i, j, l, w, b, r, I
    <3> QED
      BY <1>0, <1>1, <3>1
  <2> HIDE DEF i, j, l, w, b, r
  <2> QED
    BY <1>0, <1>1, <2>1, <2>2, OpsDiffer
<1> QED
  BY <1>1, <1>2

LEMMA WaitRacePhases ==
  ASSUME NEW c, c.test = "wait_race", NEW wi, NEW q \in Nat
  PROVE  LET I == ITERATION_NUMBER
         IN  /\ Joined(c, wi, q) <=> q \in 4..(I + 6)
             /\ Rounds(c, wi, q) = IF q <= 5 THEN 0 ELSE IF q <= I + 5 THEN q - 5 ELSE I
             /\ Phase(c, wi, q) =
                  IF q <= 2 THEN 0 ELSE IF q <= 4 THEN 1 ELSE IF q <= I + 5 THEN 2
                  ELSE IF q <= I + 7 THEN 3 ELSE IF q <= I + 9 THEN 5 ELSE 6
<1>0. Middles(c, wi) = ITERATION_NUMBER + 4 /\ ITERATION_NUMBER \in Nat /\ ITERATION_NUMBER >= 1
  BY NumbersAssumption DEF Middles
<1> QED
  BY <1>0 DEF Joined, Rounds, Phase

LEMMA WaitRaceInStep ==
  ASSUME NEW c, c.test = "wait_race", NEW wi, NEW k \in 1..Last(c, wi)
  PROVE  /\ StageFollows(c, wi, k)
         /\ \A v : \A j \in 1..(Last(c, v) + 1) : StagesAgree(c, wi, k, v, j)
<1> DEFINE Sg(v, q) == AtStage(c, v, q)  N(v, q) == NextStage(c, v, q)  I == ITERATION_NUMBER
<1>0. I \in Nat /\ I >= 1
  BY NumbersAssumption
<1>1. StageFollows(c, wi, k)
  <2>1. N(wi, k) \in Nat /\ k \in Nat
    BY WaitRaceStages
  <2> QED
    BY <1>0, <2>1, WaitRaceStages, WaitRacePhases, OpsDiffer
       DEF StageFollows, Arrives, Members, Apart
<1>2. ASSUME NEW v, NEW j \in 1..(Last(c, v) + 1), Phase(c, wi, k) = Phase(c, v, j)
      PROVE  StagesAgree(c, wi, k, v, j)
  <2>1. Last(c, v) = I + 10
    BY <1>0 DEF Last, Middles, Tail1
  <2>2. j \in Nat /\ j \in 1..(I + 11) /\ (j # I + 11 => j \in 1..Last(c, v))
    BY <1>0, <2>1
  <2>3. k \in Nat
    BY WaitRaceStages
  <2>4. Sg(wi, k) \in Members => Rounds(c, wi, k) = Rounds(c, v, j)
    BY <1>0, <1>2, <2>2, <2>3, WaitRaceStages, WaitRacePhases, OpsDiffer DEF Members, Apart
  <2>5. Sg(wi, k) \in Arrives => Joined(c, v, j)
    BY <1>0, <1>2, <2>2, <2>3, WaitRaceStages, WaitRacePhases, OpsDiffer DEF Arrives, Apart
  <2>6. Sg(wi, k) = ReleaseOp => ~Joined(c, v, j)
    BY <1>0, <1>2, <2>2, <2>3, WaitRaceStages, WaitRacePhases, OpsDiffer DEF Apart
  <2>7. ASSUME Sg(wi, k) = BarrierOp, Sg(v, j) = BarrierOp
        PROVE  /\ Rounds(c, wi, k) = Rounds(c, v, j)
               /\ Phase(c, wi, N(wi, k)) = Phase(c, v, N(v, j))
    <3>0. AtStage(c, v, I + 11) # BarrierOp
      <4>1. AtStage(c, v, I + 11) = StoreOp(<<"output", v>>, ResultInStep(c))
        BY <1>0 DEF AtStage, Middles
      <4> QED
        BY <4>1, OpsDiffer DEF Apart
    <3>1. j \in 1..Last(c, v)
      BY <2>2, <2>7, <3>0
    <3>2. k \in {2, 4, I + 5, I + 7, I + 9}
      BY <1>0, <2>7, WaitRaceStages, OpsDiffer DEF Apart
    <3>3. j \in {2, 4, I + 5, I + 7, I + 9}
      BY <1>0, <2>7, <3>1, WaitRaceStages, OpsDiffer DEF Apart
    <3>4. k = j
      BY <1>0, <1>2, <2>2, <2>3, <3>2, <3>3, WaitRacePhases
    <3>5. /\ N(wi, k) \in Nat /\ N(wi, k) \in {k + 1, k + 2} /\ (k # I + 7 => N(wi, k) = k + 1)
          /\ N(v, j) \in Nat /\ N(v, j) \in {j + 1, j + 2} /\ (j # I + 7 => N(v, j) = j + 1)
      BY <3>1, WaitRaceStages
    <3> HIDE DEF N
    <3> QED
      BY <1>0, <2>2, <2>3, <3>2, <3>4, <3>5, WaitRacePhases
  <2> QED
    BY <2>4, <2>5, <2>6, <2>7 DEF StagesAgree
<1> QED
  BY <1>1, <1>2 DEF StagesAgree

LEMMA JoinLeaveStages ==
  ASSUME NEW c, c.test = "join_leave", NEW wi, NEW k \in 1..Last(c, wi)
  PROVE  LET i == AtStage(c, wi, k)  n == NextStage(c, wi, k)  m == 2 * LOOP_COUNT
         IN  /\ k \in 1..(m + 6) /\ k \in Nat /\ n \in {k + 1, k + 2} /\ (k # m + 3 => n = k + 1)
             /\ n \in Nat /\ n >= 1
             /\ k \in {1, m + 6} => Apart(i)
             /\ k \in {2, m + 3, m + 5} => i = BarrierOp
             /\ k \in 3..(m + 2) => i = IF k % 2 = 1 THEN FbarOp("join") ELSE FbarOp("leave")
             /\ k = m + 4 => i = ReleaseOp
<1> DEFINE i == AtStage(c, wi, k)  n == NextStage(c, wi, k)  m == 2 * LOOP_COUNT
           j == FbarOp("join")  l == FbarOp("leave")
           b == BarrierOp  r == ReleaseOp
<1>0. Middles(c, wi) = m /\ m \in Nat /\ m >= 1
  BY NumbersAssumption DEF Middles
<1>1. k \in 1..(m + 6) /\ k \in Nat /\ n \in {k + 1, k + 2} /\ (k # m + 3 => n = k + 1)
  <2>1. k \in 1..(m + 6) /\ k \in Nat
    BY <1>0, StagesOf
  <2>2. IF k = m + 3 THEN n \in {m + 4, m + 5} ELSE n = k + 1
    BY <1>0, NextStageIs
  <2> HIDE DEF n, m
  <2> QED
    BY <1>0, <2>1, <2>2
<1>2. /\ k \in {1, m + 6} => Apart(i)
      /\ k \in {2, m + 3, m + 5} => i = b
      /\ k \in 3..(m + 2) => i = IF k % 2 = 1 THEN j ELSE l
      /\ k = m + 4 => i = r
  <2>1. /\ k = 1 => i = InitOp
        /\ k \in {2, m + 3, m + 5} => i = b
        /\ k = m + 4 => i = r
        /\ k = m + 6 => i = StoreOp(<<"output", wi>>, ResultInStep(c))
        /\ k \in 3..(m + 2) => i = JoinLeaveMiddle(k - 2)
    BY <1>0, StagesOf DEF Middle
  <2>2. k \in 3..(m + 2) => JoinLeaveMiddle(k - 2) = IF k % 2 = 1 THEN j ELSE l
    <3>1. JoinLeaveMiddle(k - 2) = IF (k - 2) % 2 = 1 THEN j ELSE l
      BY DEF JoinLeaveMiddle
    <3> HIDE DEF i, j, l, b, r, m
    <3>2. (k - 2) % 2 = k % 2
      BY <1>1
    <3> QED
      BY <3>1, <3>2
  <2> HIDE DEF i, j, l, b, r, m
  <2> QED
    BY <1>0, <1>1, <2>1, <2>2, OpsDiffer
<1> QED
  BY <1>1, <1>2

LEMMA JoinLeavePhases ==
  ASSUME NEW c, c.test = "join_leave", NEW wi, NEW q \in Nat
  PROVE  LET m == 2 * LOOP_COUNT
         IN  /\ Joined(c, wi, q) <=> q % 2 = 0 /\ q \in 4..(m + 2)
             /\ Rounds(c, wi, q) = 0
             /\ Phase(c, wi, q) =
                  IF q <= 2 THEN 0 ELSE IF q <= m + 3 THEN 1 ELSE IF q <= m + 5 THEN 5 ELSE 6
<1> DEFINE m == 2 * LOOP_COUNT
<1>0. Middles(c, wi) = m /\ m \in Nat /\ m >= 1
  BY NumbersAssumption DEF Middles
<1>1. Joined(c, wi, q) <=> q % 2 = 0 /\ q \in 4..(m + 2)
  BY DEF Joined
<1>2. Rounds(c, wi, q) = 0
  BY DEF Rounds
<1>3. Phase(c, wi, q) =
        CASE q <= 2 -> 0 [] q \in (m + 4)..(m + 5) -> 5 [] q > m + 5 -> 6
          [] q \in 3..(m + 3) -> 1
  BY <1>0 DEF Phase
<1> HIDE DEF m
<1> QED
  BY <1>0, <1>1, <1>2, <1>3 DEF m

LEMMA JoinLeaveInStep ==
  ASSUME NEW c, c.test = "join_leave", NEW wi, NEW k \in 1..Last(c, wi)
  PROVE  /\ StageFollows(c, wi, k)
         /\ \A v : \A j \in 1..(Last(c, v) + 1) : StagesAgree(c, wi, k, v, j)
<1> DEFINE Sg(v, q) == AtStage(c, v, q)  N(v, q) == NextStage(c, v, q)  m == 2 * LOOP_COUNT
<1>0. m \in Nat /\ m >= 2 /\ m % 2 = 0
  BY NumbersAssumption
<1>3. /\ k \in 1..(m + 6) /\ k \in Nat /\ N(wi, k) \in {k + 1, k + 2}
      /\ (k # m + 3 => N(wi, k) = k + 1) /\ N(wi, k) \in Nat
      /\ k \in {1, m + 6} => Apart(Sg(wi, k))
      /\ k \in {2, m + 3, m + 5} => Sg(wi, k) = BarrierOp
      /\ k \in 3..(m + 2) => Sg(wi, k) = IF k % 2 = 1 THEN FbarOp("join") ELSE FbarOp("leave")
      /\ k = m + 4 => Sg(wi, k) = ReleaseOp
  BY JoinLeaveStages
<1>4. \A v : \A q \in Nat :
        /\ Joined(c, v, q) <=> q % 2 = 0 /\ q \in 4..(m + 2)
        /\ Rounds(c, v, q) = 0
        /\ Phase(c, v, q) =
             IF q <= 2 THEN 0 ELSE IF q <= m + 3 THEN 1 ELSE IF q <= m + 5 THEN 5 ELSE 6
  BY JoinLeavePhases
<1>5. \A v : Last(c, v) = m + 6
  BY <1>0 DEF Last, Middles, Tail1
<1>6. \A v : AtStage(c, v, m + 7) # BarrierOp
  <2> SUFFICES ASSUME NEW v PROVE AtStage(c, v, m + 7) # BarrierOp
    OBVIOUS
  <2>1. AtStage(c, v, m + 7) = StoreOp(<<"output", v>>, ResultInStep(c))
    BY <1>0 DEF AtStage, Middles
  <2> QED
    BY <2>1, OpsDiffer DEF Apart
<1>7. \A v : \A q \in 1..(m + 6) : Sg(v, q) = BarrierOp =>
        q \in {2, m + 3, m + 5} /\ (q # m + 3 => N(v, q) = q + 1)
        /\ N(v, q) \in {q + 1, q + 2} /\ N(v, q) \in Nat
  <2> SUFFICES ASSUME NEW v, NEW q \in 1..(m + 6), Sg(v, q) = BarrierOp
               PROVE  /\ q \in {2, m + 3, m + 5} /\ (q # m + 3 => N(v, q) = q + 1)
                      /\ N(v, q) \in {q + 1, q + 2} /\ N(v, q) \in Nat
    OBVIOUS
  <2>1. q \in 1..Last(c, v)
    BY <1>5
  <2>2. /\ q \in Nat /\ N(v, q) \in {q + 1, q + 2} /\ (q # m + 3 => N(v, q) = q + 1)
        /\ N(v, q) \in Nat
        /\ q \in {1, m + 6} => Apart(Sg(v, q))
        /\ q \in 3..(m + 2) => Sg(v, q) = IF q % 2 = 1 THEN FbarOp("join") ELSE FbarOp("leave")
        /\ q = m + 4 => Sg(v, q) = ReleaseOp
    BY <2>1, JoinLeaveStages
  <2> HIDE DEF m, Sg, N
  <2>3. q \in {2, m + 3, m + 5}
    BY <1>0, <2>2, OpsDiffer DEF Apart, Sg
  <2> QED
    BY <2>2, <2>3
<1> HIDE DEF m
<1>8. k % 2 = 1 \/ k % 2 = 0
  BY <1>3
<1>9. (k + 1) % 2 = IF k % 2 = 1 THEN 0 ELSE 1
  BY <1>3
<1>1. StageFollows(c, wi, k)
  <2> DEFINE i == Sg(wi, k)  n == N(wi, k)
  <2> HIDE DEF Sg, N
  <2>1. i \notin Arrives
    BY <1>0, <1>3, OpsDiffer DEF Apart
  <2>2. i = FbarOp("join") => ~Joined(c, wi, k) /\ Joined(c, wi, n)
    <3> SUFFICES ASSUME i = FbarOp("join") PROVE ~Joined(c, wi, k) /\ Joined(c, wi, n)
      OBVIOUS
    <3>1. k \in 3..(m + 2) /\ k % 2 = 1
      BY <1>0, <1>3, OpsDiffer DEF Apart, Members
    <3>2. n = k + 1 /\ k # m + 2
      BY <1>0, <1>3, <3>1
    <3> QED
      BY <1>0, <1>3, <1>4, <1>9, <3>1, <3>2
  <2>3. i = FbarOp("leave") => Joined(c, wi, k) /\ ~Joined(c, wi, n)
    <3> SUFFICES ASSUME i = FbarOp("leave") PROVE Joined(c, wi, k) /\ ~Joined(c, wi, n)
      OBVIOUS
    <3>1. k \in 3..(m + 2) /\ k % 2 = 0
      BY <1>0, <1>3, <1>8, OpsDiffer DEF Apart, Members
    <3>2. n = k + 1 /\ k # 3
      BY <1>0, <1>3, <3>1
    <3> QED
      BY <1>0, <1>3, <1>4, <1>9, <3>1, <3>2
  <2>4. i \notin Members => (Joined(c, wi, n) <=> Joined(c, wi, k))
    <3> SUFFICES ASSUME i \notin Members PROVE Joined(c, wi, n) <=> Joined(c, wi, k)
      OBVIOUS
    <3>1. k \notin 3..(m + 2)
      BY <1>3 DEF Members
    <3> QED
      BY <1>0, <1>3, <1>4, <3>1
  <2>5. i # BarrierOp => Phase(c, wi, n) = Phase(c, wi, k)
    BY <1>0, <1>3, <1>4
  <2> QED
    BY <1>3, <1>4, <2>1, <2>2, <2>3, <2>4, <2>5 DEF StageFollows, Sg, N, Arrives
<1>2. ASSUME NEW v, NEW j \in 1..(Last(c, v) + 1), Phase(c, wi, k) = Phase(c, v, j)
      PROVE  StagesAgree(c, wi, k, v, j)
  <2>2. j \in Nat /\ j \in 1..(m + 7) /\ (j # m + 7 => j \in 1..(m + 6))
    BY <1>0, <1>5
  <2>4. Rounds(c, wi, k) = 0 /\ Rounds(c, v, j) = 0
    BY <1>3, <1>4, <2>2
  <2>5. Sg(wi, k) \notin Arrives
    BY <1>0, <1>3, OpsDiffer DEF Apart
  <2>6. Sg(wi, k) = ReleaseOp => ~Joined(c, v, j)
    <3> SUFFICES ASSUME Sg(wi, k) = ReleaseOp PROVE ~Joined(c, v, j)
      OBVIOUS
    <3> HIDE DEF Sg
    <3>1. k = m + 4
      BY <1>0, <1>3, OpsDiffer DEF Apart, Members
    <3> QED
      BY <1>0, <1>2, <1>3, <1>4, <2>2, <3>1
  <2>7. ASSUME Sg(wi, k) = BarrierOp, Sg(v, j) = BarrierOp
        PROVE  Phase(c, wi, N(wi, k)) = Phase(c, v, N(v, j))
    <3>1. j \in 1..(m + 6)
      BY <1>6, <2>2, <2>7
    <3> HIDE DEF N
    <3>2. k \in {2, m + 3, m + 5}
      BY <1>3, <1>7, <2>7
    <3>3. /\ j \in {2, m + 3, m + 5} /\ (j # m + 3 => N(v, j) = j + 1)
          /\ N(v, j) \in {j + 1, j + 2} /\ N(v, j) \in Nat
      BY <1>7, <2>7, <3>1
    <3>4. k = j
      BY <1>0, <1>2, <1>3, <1>4, <2>2, <3>2, <3>3
    <3> HIDE DEF Sg
    <3> QED
      BY <1>0, <1>3, <1>4, <2>2, <3>2, <3>3, <3>4
  <2> QED
    BY <2>4, <2>5, <2>6, <2>7 DEF StagesAgree
<1> QED
  BY <1>1, <1>2 DEF StagesAgree

\* The stage at which a work-item of FBarrierBasicTest waits.
WaitStage(c, wi) == IF IsOddWave(c, wi) THEN 6 ELSE 5

LEMMA BasicStages ==
  ASSUME NEW c, c.test = "basic", NEW wi, NEW k \in 1..Last(c, wi)
  PROVE  LET i == AtStage(c, wi, k)  n == NextStage(c, wi, k)  m == Middles(c, wi)
         IN  /\ k \in 1..(m + 5) /\ k \in Nat /\ n \in {k + 1, k + 2} /\ (k # m + 3 => n = k + 1)
             /\ n \in Nat /\ n >= 1
             /\ m \in {6, 7} /\ WaitStage(c, wi) \in {5, 6}
             /\ k = 1 => Apart(i)
             /\ k \in {2, 4, m + 1, m + 3, m + 5} => i = BarrierOp
             /\ k = 3 => i = FbarOp("join")
             /\ k = WaitStage(c, wi) => i = FbarOp("wait")
             /\ k \in 5..m /\ k # WaitStage(c, wi) => Apart(i)
             /\ k = m + 2 => i = FbarOp("leave")
             /\ k = m + 4 => i = ReleaseOp
<1> DEFINE i == AtStage(c, wi, k)  n == NextStage(c, wi, k)  m == Middles(c, wi)
           j == FbarOp("join")  l == FbarOp("leave")  w == FbarOp("wait")
           b == BarrierOp  r == ReleaseOp  ws == WaitStage(c, wi)
           s(z) == BasicMiddle(c, wi, z)
<1>0. m = (IF IsOddWave(c, wi) THEN 6 ELSE 7) /\ ws = (IF IsOddWave(c, wi) THEN 6 ELSE 5)
  BY DEF Middles, WaitStage
<1>1. k \in 1..(m + 5) /\ k \in Nat /\ n \in {k + 1, k + 2} /\ (k # m + 3 => n = k + 1)
  <2>1. k \in 1..(m + 5) /\ k \in Nat
    BY <1>0 DEF Last, Tail1
  <2>2. IF k = m + 3 THEN n \in {m + 4, m + 5} ELSE n = k + 1
    BY NextStageIs
  <2> HIDE DEF n, m
  <2> QED
    BY <1>0, <2>1, <2>2
<1>2. /\ k = 1 => Apart(i)
      /\ k \in {2, 4, m + 1, m + 3, m + 5} => i = b
      /\ k = 3 => i = j
      /\ k = ws => i = w
      /\ k \in 5..m /\ k # ws => Apart(i)
      /\ k = m + 2 => i = l
      /\ k = m + 4 => i = r
  <2>1. /\ k = 1 => i = InitOp
        /\ k \in {2, m + 3, m + 5} => i = b
        /\ k = m + 4 => i = r
        /\ k \in 3..(m + 2) => i = s(k - 2)
    BY StagesOf DEF Middle
  <2>2. k \in 3..(m + 2) =>
          /\ k = 3 => s(k - 2) = j
          /\ k \in {4, m + 1} => s(k - 2) = b
          /\ k = ws => s(k - 2) = w
          /\ k = m + 2 => s(k - 2) = l
          /\ k \in 5..m /\ k # ws => Apart(s(k - 2))
    <3> SUFFICES ASSUME k \in 3..(m + 2)
                 PROVE  /\ k = 3 => s(k - 2) = j
                        /\ k \in {4, m + 1} => s(k - 2) = b
                        /\ k = ws => s(k - 2) = w
                        /\ k = m + 2 => s(k - 2) = l
                        /\ k \in 5..m /\ k # ws => Apart(s(k - 2))
      OBVIOUS
    <3> DEFINE z == k - 2  o == IsOddWave(c, wi)
               a1 == AtomicStoreOp(<<"output", wi>>, VALUE1)
               a2 == AtomicStoreOp(<<"output", wi>>, VALUE2)
               a3 == AtomicStoreOp(<<"output", wi + c.wave>>, VALUE2)
    <3>0. Apart(a1) /\ Apart(a2) /\ Apart(a3)
      BY OpsDiffer
    <3>1. s(z) =
            CASE z = 1 -> j
              [] z = m -> l
              [] z = (IF o THEN 4 ELSE 3) -> w
              [] z = 3 /\ o -> a1
              [] z = 4 /\ ~o -> a2
              [] z = 5 /\ ~o -> a3
              [] OTHER -> b
      BY DEF BasicMiddle
    <3>2. z \in Nat /\ z \in 1..m /\ k = z + 2
      BY <1>0, <1>1
    <3> HIDE DEF z, o, a1, a2, a3, j, l, w, b, r, m, ws, s
    <3>3. m = (IF o THEN 6 ELSE 7) /\ ws = (IF o THEN 6 ELSE 5)
      BY <1>0 DEF o
    <3>4. CASE o
      BY <3>0, <3>1, <3>2, <3>3, <3>4 DEF z
    <3>5. CASE ~o
      BY <3>0, <3>1, <3>2, <3>3, <3>5 DEF z
    <3> QED
      BY <3>4, <3>5 DEF z
  <2>3. Apart(InitOp)
    BY OpsDiffer
  <2> HIDE DEF i, j, l, w, b, r, m, ws, s
  <2> QED
    BY <1>0, <1>1, <2>1, <2>2, <2>3
<1>3. m \in {6, 7} /\ ws \in {5, 6}
  BY <1>0
<1> HIDE DEF i, j, l, w, b, r, m, ws, n
<1>4. n \in Nat /\ n >= 1
  BY <1>1
<1> QED
  BY <1>1, <1>2, <1>3, <1>4 DEF i, j, l, w, b, r, m, ws, n

LEMMA BasicPhases ==
  ASSUME NEW c, c.test = "basic", NEW wi, NEW q \in Nat
  PROVE  LET m == Middles(c, wi)
         IN  /\ Joined(c, wi, q) <=> q \in 4..(m + 2)
             /\ Rounds(c, wi, q) = IF q <= WaitStage(c, wi) THEN 0 ELSE 1
             /\ Phase(c, wi, q) =
                  IF q <= 2 THEN 0 ELSE IF q <= 4 THEN 1 ELSE IF q <= m + 1 THEN 2
                  ELSE IF q <= m + 3 THEN 3 ELSE IF q <= m + 5 THEN 5 ELSE 6
<1> DEFINE m == Middles(c, wi)
<1>0. m \in {6, 7}
  BY DEF Middles
<1>1. Joined(c, wi, q) <=> q \in 4..(m + 2)
  BY DEF Joined
<1>2. Rounds(c, wi, q) = IF q <= WaitStage(c, wi) THEN 0 ELSE 1
  BY DEF Rounds, WaitStage
<1>3. Phase(c, wi, q) =
        CASE q <= 2 -> 0
          [] q \in (m + 4)..(m + 5) -> 5
          [] q > m + 5 -> 6
          [] q \in 3..(m + 3) ->
               IF q <= 4 THEN 1 ELSE IF q <= m + 1 THEN 2 ELSE 3
  BY DEF Phase
<1> HIDE DEF m
<1> QED
  BY <1>0, <1>1, <1>2, <1>3 DEF m

LEMMA BasicInStep ==
  ASSUME NEW c, c.test = "basic", NEW wi, NEW k \in 1..Last(c, wi)
  PROVE  /\ StageFollows(c, wi, k)
         /\ \A v : \A j \in 1..(Last(c, v) + 1) : StagesAgree(c, wi, k, v, j)
<1> DEFINE Sg(v, q) == AtStage(c, v, q)  N(v, q) == NextStage(c, v, q)  M(v) == Middles(c, v)
           W(v) == WaitStage(c, v)
<1>0. \A v : M(v) \in {6, 7} /\ W(v) = 12 - M(v)
  BY DEF Middles, WaitStage
<1>3. \A v : \A q \in 1..Last(c, v) :
        /\ q \in 1..(M(v) + 5) /\ q \in Nat /\ N(v, q) \in {q + 1, q + 2}
        /\ q # M(v) + 3 => N(v, q) = q + 1
        /\ N(v, q) \in Nat
        /\ q = 1 => Apart(Sg(v, q))
        /\ q \in {2, 4, M(v) + 1, M(v) + 3, M(v) + 5} => Sg(v, q) = BarrierOp
        /\ q = 3 => Sg(v, q) = FbarOp("join")
        /\ q = W(v) => Sg(v, q) = FbarOp("wait")
        /\ q \in 5..M(v) /\ q # W(v) => Apart(Sg(v, q))
        /\ q = M(v) + 2 => Sg(v, q) = FbarOp("leave")
        /\ q = M(v) + 4 => Sg(v, q) = ReleaseOp
  BY BasicStages
<1>4. \A v : \A q \in Nat :
        /\ Joined(c, v, q) <=> q \in 4..(M(v) + 2)
        /\ Rounds(c, v, q) = IF q <= W(v) THEN 0 ELSE 1
        /\ Phase(c, v, q) =
             IF q <= 2 THEN 0 ELSE IF q <= 4 THEN 1 ELSE IF q <= M(v) + 1 THEN 2
             ELSE IF q <= M(v) + 3 THEN 3 ELSE IF q <= M(v) + 5 THEN 5 ELSE 6
  BY BasicPhases
<1>5. \A v : Last(c, v) = M(v) + 5
  BY <1>0 DEF Last, Tail1
<1>6. \A v : AtStage(c, v, M(v) + 6) # BarrierOp
  <2> SUFFICES ASSUME NEW v PROVE AtStage(c, v, M(v) + 6) # BarrierOp
    OBVIOUS
  <2> DEFINE s == StoreOp(<<"output", v>>, ResultInStep(c))
  <2>1. AtStage(c, v, M(v) + 6) =
          CASE M(v) + 6 = 1 -> InitOp
            [] M(v) + 6 = M(v) + 4 -> ReleaseOp
            [] M(v) + 6 \in {2, M(v) + 3, M(v) + 5} -> BarrierOp
            [] M(v) + 6 > M(v) + 5 -> s
            [] OTHER -> Middle(c, v, (M(v) + 6) - 2)
    BY DEF AtStage
  <2>2. s # BarrierOp
    BY OpsDiffer DEF Apart
  <2> HIDE DEF s, M
  <2> QED
    BY <1>0, <2>1, <2>2
<1> HIDE DEF Sg, N, M, W
<1>1. StageFollows(c, wi, k)
  <2>1. N(wi, k) \in Nat /\ k \in Nat
    BY <1>3
  <2> DEFINE i == Sg(wi, k)  n == N(wi, k)  m == M(wi)  w == W(wi)
  <2>3. /\ i = FbarOp("join") => ~Joined(c, wi, k) /\ Joined(c, wi, n)
        /\ i = FbarOp("leave") => Joined(c, wi, k) /\ ~Joined(c, wi, n)
        /\ i # FbarOp("arrive")
        /\ i = FbarOp("wait") => Joined(c, wi, k)
        /\ i \notin Members => (Joined(c, wi, n) <=> Joined(c, wi, k))
        /\ Rounds(c, wi, n) = IF i = FbarOp("wait") THEN Rounds(c, wi, k) + 1 ELSE Rounds(c, wi, k)
        /\ i # BarrierOp => Phase(c, wi, n) = Phase(c, wi, k)
    BY <1>0, <1>3, <1>4, <2>1, OpsDiffer DEF Arrives, Members, Apart
  <2> QED
    BY <2>3 DEF StageFollows, Arrives, Sg, N
<1>2. ASSUME NEW v, NEW j \in 1..(Last(c, v) + 1), Phase(c, wi, k) = Phase(c, v, j)
      PROVE  StagesAgree(c, wi, k, v, j)
  <2>2. j \in Nat /\ j \in 1..(M(v) + 6) /\ (j # M(v) + 6 => j \in 1..Last(c, v))
    BY <1>0, <1>5
  <2>3. k \in Nat
    BY <1>3
  <2>4. Sg(wi, k) \in Members => Rounds(c, wi, k) = Rounds(c, v, j)
    BY <1>0, <1>2, <1>3, <1>4, <2>2, <2>3, OpsDiffer DEF Members, Apart
  <2>5. Sg(wi, k) \in Arrives => Joined(c, v, j)
    BY <1>0, <1>2, <1>3, <1>4, <2>2, <2>3, OpsDiffer DEF Arrives, Apart
  <2>6. Sg(wi, k) = ReleaseOp => ~Joined(c, v, j)
    BY <1>0, <1>2, <1>3, <1>4, <2>2, <2>3, OpsDiffer DEF Apart
  <2>7. ASSUME Sg(wi, k) = BarrierOp, Sg(v, j) = BarrierOp
        PROVE  /\ Rounds(c, wi, k) = Rounds(c, v, j)
               /\ Phase(c, wi, N(wi, k)) = Phase(c, v, N(v, j))
    <3>1. j \in 1..Last(c, v)
      BY <1>6, <2>2, <2>7 DEF Sg
    <3>2. k \in {2, 4, M(wi) + 1, M(wi) + 3, M(wi) + 5}
      BY <1>0, <1>3, <2>7, OpsDiffer DEF Apart, Members
    <3>3. j \in {2, 4, M(v) + 1, M(v) + 3, M(v) + 5}
      BY <1>0, <1>3, <2>7, <3>1, OpsDiffer DEF Apart, Members
    <3>4. \/ k = j /\ k \in {2, 4}
          \/ \E d \in {1, 3, 5} : k = M(wi) + d /\ j = M(v) + d
      BY <1>0, <1>2, <1>4, <2>2, <2>3, <3>2, <3>3
    <3>5. /\ N(wi, k) \in Nat /\ N(wi, k) \in {k + 1, k + 2} /\ (k # M(wi) + 3 => N(wi, k) = k + 1)
          /\ N(v, j) \in Nat /\ N(v, j) \in {j + 1, j + 2} /\ (j # M(v) + 3 => N(v, j) = j + 1)
      BY <1>3, <3>1
    <3>6. Rounds(c, wi, k) = Rounds(c, v, j)
      BY <1>0, <1>4, <2>2, <2>3, <3>4
    <3> QED
      BY <1>0, <1>4, <2>2, <2>3, <3>4, <3>5, <3>6
  <2> QED
    BY <2>4, <2>5, <2>6, <2>7 DEF StagesAgree, Sg, N
<1> QED
  BY <1>1, <1>2 DEF StagesAgree

LEMMA StagesInStep ==
  ASSUME NEW c, InStep(c), NEW wi, NEW k \in 1..Last(c, wi)
  PROVE  /\ StageFollows(c, wi, k)
         /\ \A v : \A j \in 1..(Last(c, v) + 1) : StagesAgree(c, wi, k, v, j)
BY LdfInStep, JoinLeaveJoinInStep, WaitRaceInStep, JoinLeaveInStep, BasicInStep DEF InStep
-----------------------------------------------------------------------------
\* What stands at which stage.
LEMMA MiddleKinds ==
  ASSUME NEW c, InStep(c), NEW wi, NEW j \in 1..Middles(c, wi)
  PROVE  \/ Middle(c, wi, j) \in Arrives \cup Members \cup {BarrierOp}
         \/ /\ c.test = "basic" /\ j \in 3..5
            /\ Middle(c, wi, j) \in {AtomicStoreOp(<<"output", wi>>, VALUE1),
                                     AtomicStoreOp(<<"output", wi>>, VALUE2),
                                     AtomicStoreOp(<<"output", wi + c.wave>>, VALUE2)}
<1>1. CASE c.test = "basic"
  <2>1. Middle(c, wi, j) = BasicMiddle(c, wi, j)
    BY <1>1 DEF Middle
  <2> QED
    BY <1>1, <2>1 DEF BasicMiddle, Arrives, Members
<1>2. CASE c.test = "wait_race"
  <2>1. Middle(c, wi, j) = WaitRaceMiddle(j)
    BY <1>2 DEF Middle
  <2> QED
    BY <2>1 DEF WaitRaceMiddle, Arrives, Members
<1>3. CASE c.test = "ldf"
  <2>1. Middle(c, wi, j) = LdfMiddle(j)
    BY <1>3 DEF Middle
  <2> QED
    BY <2>1 DEF LdfMiddle, Arrives, Members
<1>4. CASE c.test = "join_leave"
  <2>1. Middle(c, wi, j) = JoinLeaveMiddle(j)
    BY <1>4 DEF Middle
  <2> QED
    BY <2>1 DEF JoinLeaveMiddle, Arrives, Members
<1>5. CASE c.test = "join_leave_join"
  <2>1. Middle(c, wi, j) = JoinLeaveJoinMiddle(j)
    BY <1>5 DEF Middle
  <2> QED
    BY <2>1 DEF JoinLeaveJoinMiddle, Arrives, Members
<1> QED
  BY <1>1, <1>2, <1>3, <1>4, <1>5 DEF InStep

FbarKinds == {"join", "leave", "wait", "arrive"}

LEMMA StageCases ==
  ASSUME NEW c, InStep(c), NEW wi, NEW k \in 1..Last(c, wi), NEW i, i = AtStage(c, wi, k)
  PROVE  LET m == Middles(c, wi)
         IN  /\ \/ k = 1 /\ i = InitOp
                \/ k = m + 4 /\ i = ReleaseOp
                \/ k \in {2, m + 3, m + 5} /\ i = BarrierOp
                \/ k = m + 6 /\ i = StoreOp(<<"output", wi>>, ResultInStep(c))
                \/ k \in 3..(m + 2) /\ i \in Arrives \cup Members \cup {BarrierOp}
                \/ /\ k \in 3..(m + 2) /\ c.test = "basic" /\ k \in 5..7
                   /\ i \in {AtomicStoreOp(<<"output", wi>>, VALUE1),
                             AtomicStoreOp(<<"output", wi>>, VALUE2),
                             AtomicStoreOp(<<"output", wi + c.wave>>, VALUE2)}
             /\ k \in 1..(m + 6) /\ k \in Nat /\ m \in Nat /\ m >= 2
<1> DEFINE m == Middles(c, wi)
           s == StoreOp(<<"output", wi>>, ResultInStep(c))
           a1 == AtomicStoreOp(<<"output", wi>>, VALUE1)
           a2 == AtomicStoreOp(<<"output", wi>>, VALUE2)
           a3 == AtomicStoreOp(<<"output", wi + c.wave>>, VALUE2)
<1>1. /\ k = 1 => i = InitOp
      /\ k \in {2, m + 3, m + 5} => i = BarrierOp
      /\ k = m + 4 => i = ReleaseOp
      /\ k = m + 6 => i = s
      /\ k \in 3..(m + 2) => i = Middle(c, wi, k - 2)
      /\ k \in 1..(m + 6) /\ k \in Nat /\ m \in Nat /\ m >= 2
  BY StagesOf
<1>2. k \in 3..(m + 2) =>
         \/ i \in Arrives \cup Members \cup {BarrierOp}
         \/ c.test = "basic" /\ k \in 5..7 /\ i \in {a1, a2, a3}
  <2> SUFFICES ASSUME k \in 3..(m + 2)
               PROVE  \/ i \in Arrives \cup Members \cup {BarrierOp}
                      \/ c.test = "basic" /\ k \in 5..7 /\ i \in {a1, a2, a3}
    OBVIOUS
  <2> DEFINE j == k - 2
  <2>1. j \in 1..m /\ i = Middle(c, wi, j) /\ k = j + 2
    BY <1>1
  <2> HIDE DEF m, j
  <2>2. \/ i \in Arrives \cup Members \cup {BarrierOp}
        \/ c.test = "basic" /\ j \in 3..5 /\ i \in {a1, a2, a3}
    BY <2>1, MiddleKinds DEF m
  <2> QED
    BY <2>1, <2>2
<1> HIDE DEF m, s, a1, a2, a3
<1>5. \/ k = 1 \/ k \in {2, m + 3, m + 5} \/ k = m + 4 \/ k = m + 6 \/ k \in 3..(m + 2)
  BY <1>1
<1> QED
  BY <1>1, <1>2, <1>5 DEF m, s, a1, a2, a3

LEMMA OpOf ==
  /\ InitOp.op = "initfbar" /\ ReleaseOp.op = "releasefbar" /\ BarrierOp.op = "barrier"
  /\ \A a, n : StoreOp(a, n).op = "st" /\ AtomicStoreOp(a, n).op = "atomic"
  /\ \A x \in Arrives \cup Members :
        x.op = "fbar" /\ x.fb = "fb" /\ x.kind \in FbarKinds /\ x = FbarOp(x.kind)
<1>1. /\ InitOp.op = "initfbar" /\ ReleaseOp.op = "releasefbar" /\ BarrierOp.op = "barrier"
      /\ \A a, n : StoreOp(a, n).op = "st" /\ AtomicStoreOp(a, n).op = "atomic"
      /\ \A kind : FbarOp(kind).op = "fbar" /\ FbarOp(kind).fb = "fb" /\ FbarOp(kind).kind = kind
  BY DEF StoreOp, InitOp, ReleaseOp, BarrierOp, FbarOp, AtomicStoreOp
<1>2. \A x \in Arrives \cup Members :
         x.op = "fbar" /\ x.fb = "fb" /\ x.kind \in FbarKinds /\ x = FbarOp(x.kind)
  BY <1>1 DEF Arrives, Members, FbarKinds
<1> QED
  BY <1>1, <1>2

LEMMA StageOps ==
  ASSUME NEW c, InStep(c), NEW v, NEW k \in 1..Last(c, v), NEW i, i = AtStage(c, v, k)
  PROVE  /\ i.op \in {"initfbar", "releasefbar", "barrier", "fbar", "st", "atomic"}
         /\ i.op = "initfbar" => i = InitOp
         /\ i.op = "releasefbar" => i = ReleaseOp
         /\ i.op = "barrier" => i = BarrierOp
<1>1. \/ i \in Arrives \cup Members \cup {InitOp, ReleaseOp, BarrierOp}
      \/ \E a, n : i = StoreOp(a, n) \/ i = AtomicStoreOp(a, n)
  <2> DEFINE s == StoreOp(<<"output", v>>, ResultInStep(c))
             a1 == AtomicStoreOp(<<"output", v>>, VALUE1)
             a2 == AtomicStoreOp(<<"output", v>>, VALUE2)
             a3 == AtomicStoreOp(<<"output", v + c.wave>>, VALUE2)
  <2>1. \/ i \in Arrives \cup Members \cup {InitOp, ReleaseOp, BarrierOp}
        \/ i \in {s, a1, a2, a3}
    BY StageCases
  <2> QED
    BY <2>1
<1> QED
  BY <1>1, OpOf

LEMMA StageKinds ==
  ASSUME NEW c, InStep(c), NEW wi, NEW k \in 1..Last(c, wi)
  PROVE  LET i == AtStage(c, wi, k)  m == Middles(c, wi)
         IN  /\ i.op \in {"initfbar", "releasefbar", "barrier", "fbar", "st", "atomic"}
             /\ i.op = "initfbar" => k = 1 /\ i = InitOp
             /\ i.op = "releasefbar" => k = m + 4 /\ i = ReleaseOp
             /\ i.op = "barrier" => i = BarrierOp
             /\ i.op = "fbar" => /\ k \in 3..(m + 2) /\ i \in Arrives \cup Members
                                 /\ i.fb = "fb" /\ i.kind \in FbarKinds /\ i = FbarOp(i.kind)
             /\ i.op = "st" => k = m + 6 /\ i = StoreOp(<<"output", wi>>, ResultInStep(c))
             /\ i.op = "atomic" => /\ c.test = "basic" /\ k \in 5..7 /\ k \in 3..(m + 2)
                                   /\ i \in {AtomicStoreOp(<<"output", wi>>, VALUE1),
                                             AtomicStoreOp(<<"output", wi>>, VALUE2),
                                             AtomicStoreOp(<<"output", wi + c.wave>>, VALUE2)}
             /\ k = 1 => i.op = "initfbar"
             /\ k = m + 4 => i.op = "releasefbar"
             /\ k \in {2, m + 3, m + 5} => i.op = "barrier"
             /\ k = m + 6 => i.op = "st"
             /\ k \in 1..(m + 6) /\ k \in Nat /\ m \in Nat /\ m >= 2
<1> DEFINE i == AtStage(c, wi, k)  m == Middles(c, wi)
           s == StoreOp(<<"output", wi>>, ResultInStep(c))
           a1 == AtomicStoreOp(<<"output", wi>>, VALUE1)
           a2 == AtomicStoreOp(<<"output", wi>>, VALUE2)
           a3 == AtomicStoreOp(<<"output", wi + c.wave>>, VALUE2)
<1>1. /\ \/ k = 1 /\ i = InitOp
         \/ k = m + 4 /\ i = ReleaseOp
         \/ k \in {2, m + 3, m + 5} /\ i = BarrierOp
         \/ k = m + 6 /\ i = s
         \/ k \in 3..(m + 2) /\ i \in Arrives \cup Members \cup {BarrierOp}
         \/ k \in 3..(m + 2) /\ c.test = "basic" /\ k \in 5..7 /\ i \in {a1, a2, a3}
      /\ k \in 1..(m + 6) /\ k \in Nat /\ m \in Nat /\ m >= 2
  BY StageCases
<1>2. s.op = "st" /\ a1.op = "atomic" /\ a2.op = "atomic" /\ a3.op = "atomic"
  BY OpOf
<1> HIDE DEF i, m, s, a1, a2, a3
<1> QED
  BY <1>1, <1>2, OpOf DEF i, m, s, a1, a2, a3

\* Every group has one work-item that leads it.
LEMMA GroupLeader ==
  ASSUME NEW c \in Cases, NEW g \in Groups(c)
  PROVE  /\ \E v \in ItemsOfGroup(c, g) : LeadsGroup(c, v)
         /\ \A v, w \in ItemsOfGroup(c, g) : LeadsGroup(c, v) /\ LeadsGroup(c, w) => v = w
<1> DEFINE s == c.size  n == c.groups  l == c.last  x == g * s
<1>1. s \in Nat \ {0} /\ n \in Nat \ {0} /\ l \in 1..s /\ g \in Nat /\ g <= n - 1
  BY CasesAssumption DEF Groups
<1>2. GridSize(c) = (n - 1) * s + l
  BY DEF GridSize
<1>3. x \in Nat /\ x < GridSize(c)
  <2> HIDE DEF s, n, l
  <2>1. n - 1 - g \in Nat
    BY <1>1
  <2>2. (n - 1 - g) * s \in Nat /\ (n - 1 - g) * s = (n - 1) * s - g * s
    BY <1>1, <2>1
  <2>3. g * s \in Nat /\ (n - 1) * s \in Nat
    BY <1>1
  <2> QED
    BY <1>1, <1>2, <2>2, <2>3
<1>4. GridSize(c) \in Nat
  BY GeometryTypes
<1>5. x \in WorkItems(c)
  BY <1>3, <1>4 DEF WorkItems
<1>6. x \div s = g /\ x % s = 0
  <2>1. x = s * g + 0
    <3> HIDE DEF s
    <3> QED
      BY <1>1
  <2>2. x \in Int /\ g \in Int /\ 0 \in Int /\ 0 <= 0 /\ 0 < s
    BY <1>1, <1>3
  <2> HIDE DEF x, s
  <2> QED
    BY <1>1, <2>1, <2>2, RemainderIs
<1>7. x \in ItemsOfGroup(c, g) /\ LeadsGroup(c, x)
  BY <1>5, <1>6 DEF ItemsOfGroup, GroupOf, LeadsGroup, FlatId
<1>8. \A v \in ItemsOfGroup(c, g) : LeadsGroup(c, v) => v = x
  <2> SUFFICES ASSUME NEW v \in ItemsOfGroup(c, g), LeadsGroup(c, v) PROVE v = x
    OBVIOUS
  <2>1. v \in WorkItems(c) /\ GroupOf(c, v) = g /\ FlatId(c, v) = 0
    BY DEF ItemsOfGroup, LeadsGroup
  <2>2. v = g * c.size + 0
    BY <2>1, GeometryTypes
  <2> QED
    BY <1>3, <2>2
<1> QED
  BY <1>7, <1>8

\* The fbarrier of each group, and the elements of the output.
LEMMA FbarrierOfGroup ==
  ASSUME NEW c \in Cases, InStep(c), NEW g \in Groups(c)
  PROVE  <<g, "fb">> \in Groups(c) \X Fbarriers(c)
<1>1. PICK v \in ItemsOfGroup(c, g) : LeadsGroup(c, v)
  BY GroupLeader
<1>2. v \in WorkItems(c)
  BY DEF ItemsOfGroup
<1>3. 1 \in 1..Total(c, v)
  BY MiddlesType
<1>4. StageOf(c, v, 1) = 1 /\ AtStage(c, v, 1) = InitOp
  <2>1. 1 \in 1..Last(c, v)
    BY MiddlesType DEF Last
  <2>2. AtStage(c, v, 1) = InitOp
    BY <2>1, StagesOf
  <2> QED
    BY <1>1, <2>2 DEF StageOf
<1>5. 1 \in DOMAIN Program(c, v) /\ Program(c, v)[1] = InitOp
  <2>1. Program(c, v) = ListInStep(c, v)
    BY ProgramInStep
  <2>2. 1 \in DOMAIN ListInStep(c, v) /\ ListInStep(c, v)[1] = AtStage(c, v, 1)
    BY <1>3, <1>4 DEF ListInStep
  <2> QED
    BY <1>4, <2>1, <2>2
<1>6. InitOp \in Instructions(c)
  BY <1>2, <1>5 DEF Instructions, Range
<1>7. "fb" \in DOMAIN InitOp /\ InitOp.fb = "fb"
  BY DEF InitOp
<1>8. "fb" \in Fbarriers(c)
  BY <1>6, <1>7 DEF Fbarriers
<1> QED
  BY <1>8
-----------------------------------------------------------------------------
\* A group whose work-items are at the stages k, and its fbarrier: the work-
\* items are in the same part of the program, and have arrived as many times
\* as each other, once more those whose wavefront has arrived now; these wait,
\* or are at a barrier, as long as there is a member that has not arrived.
WavesOf(c, g) == {WaveOf(c, v) : v \in ItemsOfGroup(c, g)}
FbarriersOf(c, g) ==
    {b \in [init : BOOLEAN, members : SUBSET WavesOf(c, g),
            arrived : SUBSET WavesOf(c, g), waiting : SUBSET WavesOf(c, g)] :
       b.waiting \subseteq b.arrived}
StandsWith(c, b, v, k) ==
    /\ k \in 1..(Last(c, v) + 1)
    /\ k \in {1, Middles(c, v) + 4} => LeadsGroup(c, v)
    /\ LeadsGroup(c, v) => (b.init <=> k \in 2..(Middles(c, v) + 4))
    /\ WaveOf(c, v) \in b.members <=> Joined(c, v, k)
    /\ WaveOf(c, v) \in b.arrived \ b.waiting => AtStage(c, v, k) = BarrierOp
GroupIs(c, g, b, k) ==
    LET I == ItemsOfGroup(c, g)
    IN  /\ b \in FbarriersOf(c, g)
        /\ \A v \in I : StandsWith(c, b, v, k[v])
        /\ \A v, w \in I : Phase(c, v, k[v]) = Phase(c, w, k[w])
        /\ \E r \in Nat : \A v \in I :
              Rounds(c, v, k[v]) = IF WaveOf(c, v) \in b.arrived THEN r + 1 ELSE r
        /\ b.arrived # {} => ~(b.members \subseteq b.arrived)

LEMMA StageMoves ==
  ASSUME NEW c, NEW v, NEW k \in 1..Last(c, v)
  PROVE  /\ NextStage(c, v, k) \in 1..(Last(c, v) + 1)
         /\ LeadsGroup(c, v) => NextStage(c, v, k) = k + 1
<1> DEFINE m == Middles(c, v)
<1>1. m \in Nat /\ Last(c, v) \in Nat /\ Last(c, v) >= m + 5
  BY MiddlesType DEF Last
<1>2. NextStage(c, v, k) = IF k = m + 3 /\ ~LeadsGroup(c, v) THEN k + 2 ELSE k + 1
  BY DEF NextStage
<1> HIDE DEF m
<1> QED
  BY <1>1, <1>2

LEMMA PhaseRange ==
  ASSUME NEW c, InStep(c), NEW v, NEW k \in Nat, k >= 1
  PROVE  Phase(c, v, k) \in 1..4 <=> k \in 3..(Middles(c, v) + 3)
<1> DEFINE m == Middles(c, v)
           p == CASE c.test = "join_leave" -> 1
                  [] c.test = "join_leave_join" ->
                        IF k <= 3 THEN 1 ELSE IF k <= 7 THEN 2 ELSE IF k <= 9 THEN 3 ELSE 4
                  [] c.test = "ldf" ->
                        IF k <= 4 THEN 1 ELSE IF k <= 6 THEN 2 ELSE IF k <= 8 THEN 3 ELSE 4
                  [] OTHER ->
                        IF k <= 4 THEN 1 ELSE IF k <= m + 1 THEN 2 ELSE 3
<1>1. m \in Nat
  BY MiddlesType
<1>2. Phase(c, v, k) = CASE k <= 2 -> 0
                         [] k \in (m + 4)..(m + 5) -> 5
                         [] k > m + 5 -> 6
                         [] k \in 3..(m + 3) -> p
  BY DEF Phase
<1>3. p \in 1..4
  <2> HIDE DEF m
  <2>1. CASE c.test = "join_leave"
    BY <2>1
  <2>2. CASE c.test = "join_leave_join"
    BY <2>2
  <2>3. CASE c.test = "ldf"
    BY <2>3
  <2>4. CASE c.test \in {"basic", "wait_race"}
    BY <2>4
  <2> QED
    BY <2>1, <2>2, <2>3, <2>4 DEF InStep
<1> HIDE DEF m, p
<1> QED
  BY <1>1, <1>2, <1>3 DEF m

LEMMA AloneKinds ==
  ASSUME NEW c, InStep(c), NEW v, NEW k \in 1..Last(c, v), NEW i, i = AtStage(c, v, k),
         i.op \in {"initfbar", "releasefbar", "st", "atomic"}
  PROVE  /\ i \notin Arrives /\ i \notin Members /\ i # BarrierOp
         /\ i.op = "initfbar" <=> k = 1
         /\ i.op = "releasefbar" <=> k = Middles(c, v) + 4
         /\ i.op = "releasefbar" => i = ReleaseOp
         /\ k \notin {2, Middles(c, v) + 3, Middles(c, v) + 5}
         /\ Middles(c, v) \in Nat /\ Middles(c, v) >= 2 /\ k \in Nat
<1>1. /\ \A x \in Arrives \cup Members : x.op = "fbar"
      /\ BarrierOp.op = "barrier"
  BY DEF Arrives, Members, FbarOp, BarrierOp
<1>2. /\ i.op = "initfbar" <=> k = 1
      /\ i.op = "releasefbar" <=> k = Middles(c, v) + 4
      /\ i.op = "releasefbar" => i = ReleaseOp
      /\ k \in {2, Middles(c, v) + 3, Middles(c, v) + 5} => i.op = "barrier"
      /\ Middles(c, v) \in Nat /\ Middles(c, v) >= 2 /\ k \in Nat
  <2> DEFINE o == AtStage(c, v, k)  m == Middles(c, v)
  <2>1. /\ o.op = "initfbar" => k = 1
        /\ o.op = "releasefbar" => k = m + 4 /\ o = ReleaseOp
    BY StageKinds
  <2>2. /\ k = 1 => o = InitOp
        /\ k = m + 4 => o = ReleaseOp
        /\ k \in {2, m + 3, m + 5} => o = BarrierOp
    BY StagesOf
  <2>3. InitOp.op = "initfbar" /\ ReleaseOp.op = "releasefbar" /\ BarrierOp.op = "barrier"
    BY DEF InitOp, ReleaseOp, BarrierOp
  <2>4. m \in Nat /\ m >= 2 /\ k \in Nat
    BY StageKinds
  <2> HIDE DEF o, m
  <2> QED
    BY <2>1, <2>2, <2>3, <2>4 DEF o, m
<1> QED
  BY <1>1, <1>2

\* A step of one work-item of the group.
LEMMA GroupRuns ==
  ASSUME NEW c \in Cases, InStep(c), NEW g \in Groups(c), NEW b, NEW k, GroupIs(c, g, b, k),
         NEW u \in ItemsOfGroup(c, g), k[u] \in 1..Last(c, u), NEW i, i = AtStage(c, u, k[u]),
         i.op \in {"initfbar", "releasefbar", "st", "atomic"},
         NEW n, \A v \in ItemsOfGroup(c, g) :
                   n[v] = IF v = u THEN NextStage(c, u, k[u]) ELSE k[v],
         NEW b2 \in FbarriersOf(c, g),
         b2.members = b.members /\ b2.arrived = b.arrived /\ b2.waiting = b.waiting,
         b2.init <=> i.op = "initfbar" \/ (b.init /\ i.op # "releasefbar")
  PROVE  /\ GroupIs(c, g, b2, n)
         /\ i.op = "initfbar" => ~b.init
         /\ i.op = "releasefbar" => b.init /\ b.members = {}
<1> DEFINE I == ItemsOfGroup(c, g)  m == Middles(c, u)
<1>0. b \in FbarriersOf(c, g) /\ \A v \in I : StandsWith(c, b, v, k[v])
  BY DEF GroupIs
<1>1. /\ i \notin Arrives /\ i \notin Members /\ i # BarrierOp
      /\ i.op = "initfbar" <=> k[u] = 1
      /\ i.op = "releasefbar" <=> k[u] = m + 4
      /\ i.op = "releasefbar" => i = ReleaseOp
      /\ k[u] \notin {2, m + 3, m + 5}
      /\ m \in Nat /\ m >= 2 /\ k[u] \in Nat
  BY AloneKinds
<1>2. /\ StageFollows(c, u, k[u])
      /\ \A v : \A j \in 1..(Last(c, v) + 1) : StagesAgree(c, u, k[u], v, j)
  BY StagesInStep
<1>3. /\ Joined(c, u, n[u]) <=> Joined(c, u, k[u])
      /\ Rounds(c, u, n[u]) = Rounds(c, u, k[u])
      /\ Phase(c, u, n[u]) = Phase(c, u, k[u])
      /\ n[u] = NextStage(c, u, k[u])
      /\ \A v \in I : v # u => n[v] = k[v]
  BY <1>1, <1>2 DEF StageFollows
<1>4. \A v \in I : /\ Joined(c, v, n[v]) <=> Joined(c, v, k[v])
                   /\ Rounds(c, v, n[v]) = Rounds(c, v, k[v])
                   /\ Phase(c, v, n[v]) = Phase(c, v, k[v])
  BY <1>3
<1>5. /\ b2 \in FbarriersOf(c, g)
      /\ b2.members = b.members /\ b2.arrived = b.arrived /\ b2.waiting = b.waiting
      /\ b2.init <=> i.op = "initfbar" \/ (b.init /\ i.op # "releasefbar")
  OBVIOUS
<1>6. \A v \in I : v # u /\ LeadsGroup(c, u) => ~LeadsGroup(c, v)
  BY GroupLeader
<1>7. StandsWith(c, b, u, k[u])
  BY <1>0
<1>8. /\ i.op = "initfbar" => ~b.init /\ LeadsGroup(c, u)
      /\ i.op = "releasefbar" => b.init /\ LeadsGroup(c, u)
  BY <1>1, <1>7 DEF StandsWith
<1>9. ASSUME NEW v \in I PROVE StandsWith(c, b2, v, n[v])
  <2>1. StandsWith(c, b, v, k[v])
    BY <1>0
  <2>2. CASE v # u
    <3>1. n[v] = k[v]
      BY <1>3, <2>2
    <3>2. LeadsGroup(c, v) => (b2.init <=> b.init)
      BY <1>5, <1>6, <1>8, <2>2
    <3> QED
      BY <1>5, <2>1, <3>1, <3>2 DEF StandsWith
  <2>3. CASE v = u
    <3>1. n[u] \in 1..(Last(c, u) + 1) /\ (LeadsGroup(c, u) => n[u] = k[u] + 1)
      BY <1>3, StageMoves
    <3>2. n[u] \notin {1, m + 4}
      <4>1. n[u] = k[u] + 1
        BY <1>1, <1>3 DEF NextStage
      <4> QED
        BY <1>1, <4>1
    <3>3. LeadsGroup(c, u) => (b2.init <=> n[u] \in 2..(m + 4))
      <4>1. LeadsGroup(c, u) => (b.init <=> k[u] \in 2..(m + 4))
        BY <1>7 DEF StandsWith
      <4> QED
        BY <1>1, <1>5, <1>8, <3>1, <4>1
    <3>4. WaveOf(c, u) \notin b.arrived \ b.waiting
      BY <1>1, <1>7 DEF StandsWith
    <3>5. WaveOf(c, u) \in b.members <=> Joined(c, u, n[u])
      BY <1>3, <1>7 DEF StandsWith
    <3> QED
      BY <1>5, <2>3, <3>1, <3>2, <3>3, <3>4, <3>5 DEF StandsWith
  <2> QED
    BY <2>2, <2>3
<1>10. \A v, w \in I : Phase(c, v, n[v]) = Phase(c, w, n[w])
  BY <1>4 DEF GroupIs
<1>11. \E r \in Nat : \A v \in I :
          Rounds(c, v, n[v]) = IF WaveOf(c, v) \in b2.arrived THEN r + 1 ELSE r
  BY <1>4, <1>5 DEF GroupIs
<1>12. b2.arrived # {} => ~(b2.members \subseteq b2.arrived)
  BY <1>5 DEF GroupIs
<1>13. ASSUME i.op = "releasefbar" PROVE b.members = {}
  <2>1. \A v \in I : ~Joined(c, v, k[v])
    <3> SUFFICES ASSUME NEW v \in I PROVE ~Joined(c, v, k[v])
      OBVIOUS
    <3>1. k[v] \in 1..(Last(c, v) + 1)
      BY <1>0 DEF StandsWith
    <3>2. StagesAgree(c, u, k[u], v, k[v])
      BY <1>2, <3>1
    <3>3. Phase(c, u, k[u]) = Phase(c, v, k[v])
      BY DEF GroupIs
    <3> QED
      BY <1>1, <1>13, <3>2, <3>3 DEF StagesAgree
  <2>2. \A v \in I : WaveOf(c, v) \notin b.members
    BY <1>0, <2>1 DEF StandsWith
  <2>3. b.members \subseteq WavesOf(c, g)
    BY <1>0 DEF FbarriersOf
  <2> QED
    BY <2>2, <2>3 DEF WavesOf
<1>14. GroupIs(c, g, b2, n)
  BY <1>5, <1>9, <1>10, <1>11, <1>12 DEF GroupIs
<1> QED
  BY <1>8, <1>13, <1>14

\* A barrier of the group.
LEMMA GroupGathers ==
  ASSUME NEW c \in Cases, InStep(c), NEW g \in Groups(c), NEW b, NEW k, GroupIs(c, g, b, k),
         \A v \in ItemsOfGroup(c, g) :
            k[v] \in 1..Last(c, v) /\ AtStage(c, v, k[v]) = BarrierOp,
         NEW n, \A v \in ItemsOfGroup(c, g) : n[v] = NextStage(c, v, k[v])
  PROVE  GroupIs(c, g, b, n)
<1> DEFINE I == ItemsOfGroup(c, g)
<1>0. b \in FbarriersOf(c, g) /\ \A v \in I : StandsWith(c, b, v, k[v])
  BY DEF GroupIs
<1>1. /\ BarrierOp \notin Arrives /\ BarrierOp \notin Members
      /\ BarrierOp # InitOp /\ BarrierOp # ReleaseOp
  <2>1. BarrierOp # InitOp
    BY DEF BarrierOp, InitOp
  <2> QED
    BY <2>1, OpsDiffer
<1>2. ASSUME NEW v \in I
      PROVE  /\ Joined(c, v, n[v]) <=> Joined(c, v, k[v])
             /\ Rounds(c, v, n[v]) = Rounds(c, v, k[v])
             /\ \A w \in I : /\ Rounds(c, v, k[v]) = Rounds(c, w, k[w])
                             /\ Phase(c, v, n[v]) = Phase(c, w, n[w])
  <2>1. /\ StageFollows(c, v, k[v])
        /\ \A w : \A j \in 1..(Last(c, w) + 1) : StagesAgree(c, v, k[v], w, j)
    BY StagesInStep
  <2>2. ASSUME NEW w \in I
        PROVE  /\ Rounds(c, v, k[v]) = Rounds(c, w, k[w])
               /\ Phase(c, v, n[v]) = Phase(c, w, n[w])
    <3>1. k[w] \in 1..(Last(c, w) + 1)
      BY <1>0 DEF StandsWith
    <3>2. StagesAgree(c, v, k[v], w, k[w])
      BY <2>1, <3>1
    <3>3. Phase(c, v, k[v]) = Phase(c, w, k[w])
      BY DEF GroupIs
    <3> QED
      BY <3>2, <3>3 DEF StagesAgree
  <2>3. /\ Joined(c, v, n[v]) <=> Joined(c, v, k[v])
        /\ Rounds(c, v, n[v]) = Rounds(c, v, k[v])
    BY <1>1, <2>1 DEF StageFollows
  <2> QED
    BY <2>2, <2>3
<1>3. PICK r \in Nat : \A v \in I :
         Rounds(c, v, k[v]) = IF WaveOf(c, v) \in b.arrived THEN r + 1 ELSE r
  BY DEF GroupIs
<1>4. b.arrived = {}
  <2> SUFFICES ASSUME b.arrived # {} PROVE FALSE
    OBVIOUS
  <2>1. b.arrived \subseteq WavesOf(c, g) /\ b.members \subseteq WavesOf(c, g)
    BY <1>0 DEF FbarriersOf
  <2>2. PICK v \in I : WaveOf(c, v) \in b.arrived
    BY <2>1 DEF WavesOf
  <2>3. \A w \in I : WaveOf(c, w) \in b.arrived
    <3> SUFFICES ASSUME NEW w \in I, WaveOf(c, w) \notin b.arrived PROVE FALSE
      OBVIOUS
    <3>1. Rounds(c, v, k[v]) = r + 1 /\ Rounds(c, w, k[w]) = r
      BY <1>3, <2>2
    <3>2. Rounds(c, v, k[v]) = Rounds(c, w, k[w])
      BY <1>2
    <3> QED
      BY <3>1, <3>2
  <2>4. b.members \subseteq b.arrived
    BY <2>1, <2>3 DEF WavesOf
  <2> QED
    BY <2>4 DEF GroupIs
<1>5. ASSUME NEW v \in I PROVE StandsWith(c, b, v, n[v])
  <2> DEFINE m == Middles(c, v)
  <2>1. StandsWith(c, b, v, k[v])
    BY <1>0
  <2>2. /\ n[v] \in 1..(Last(c, v) + 1) /\ (LeadsGroup(c, v) => n[v] = k[v] + 1)
        /\ n[v] = NextStage(c, v, k[v]) /\ k[v] \in 1..Last(c, v)
    BY StageMoves
  <2>3. m \in Nat /\ m >= 2 /\ k[v] # 1 /\ k[v] # m + 4 /\ k[v] \in Nat
    <3>1. /\ k[v] = 1 => AtStage(c, v, k[v]) = InitOp
          /\ k[v] = m + 4 => AtStage(c, v, k[v]) = ReleaseOp
          /\ m \in Nat /\ m >= 2 /\ k[v] \in Nat
      BY StagesOf
    <3> QED
      BY <1>1, <3>1
  <2>4. n[v] \in {1, m + 4} => LeadsGroup(c, v)
    BY <2>2, <2>3 DEF NextStage
  <2>5. LeadsGroup(c, v) => (b.init <=> n[v] \in 2..(m + 4))
    <3>1. LeadsGroup(c, v) => (b.init <=> k[v] \in 2..(m + 4))
      BY <2>1 DEF StandsWith
    <3> HIDE DEF m
    <3> QED
      BY <2>2, <2>3, <3>1
  <2>6. WaveOf(c, v) \in b.members <=> Joined(c, v, n[v])
    BY <1>2, <2>1 DEF StandsWith
  <2> QED
    BY <1>4, <2>2, <2>4, <2>5, <2>6 DEF StandsWith
<1>6. \A v, w \in I : Phase(c, v, n[v]) = Phase(c, w, n[w])
  BY <1>2
<1>7. \E q \in Nat : \A v \in I :
          Rounds(c, v, n[v]) = IF WaveOf(c, v) \in b.arrived THEN q + 1 ELSE q
  BY <1>2, <1>3
<1> QED
  BY <1>0, <1>4, <1>5, <1>6, <1>7 DEF GroupIs

\* An operation of a wavefront of the group on the fbarrier.
LEMMA FbarKinds4 ==
  ASSUME NEW kind, NEW i, i = FbarOp(kind), kind \in FbarKinds
  PROVE  /\ i \in Arrives <=> kind \in {"wait", "arrive"}
         /\ i \in Members <=> kind \in {"join", "leave"}
         /\ i = FbarOp("join") <=> kind = "join"
         /\ i = FbarOp("leave") <=> kind = "leave"
         /\ i = FbarOp("arrive") <=> kind = "arrive"
         /\ i # BarrierOp /\ i # InitOp /\ i # ReleaseOp
<1>1. /\ i.kind = kind /\ i.op = "fbar" /\ \A q : FbarOp(q).kind = q
  BY DEF FbarOp
<1>2. BarrierOp.op = "barrier" /\ InitOp.op = "initfbar" /\ ReleaseOp.op = "releasefbar"
  BY DEF BarrierOp, InitOp, ReleaseOp
<1> QED
  BY <1>1, <1>2 DEF Arrives, Members, FbarKinds

LEMMA FbarStage ==
  ASSUME NEW c, InStep(c), NEW v, NEW k \in 1..Last(c, v), AtStage(c, v, k).op = "fbar"
  PROVE  LET i == AtStage(c, v, k)
         IN  k \in 3..(Middles(c, v) + 2) /\ i.kind \in FbarKinds /\ i = FbarOp(i.kind) /\ i.fb = "fb"
BY StageKinds

LEMMA GroupOnFbarrier ==
  ASSUME NEW c \in Cases, InStep(c), NEW g \in Groups(c), NEW b, NEW k, GroupIs(c, g, b, k),
         NEW w \in WavesOf(c, g), w \notin b.waiting, NEW i, i.op = "fbar",
         \A v \in ItemsOfGroup(c, g) :
            WaveOf(c, v) = w => k[v] \in 1..Last(c, v) /\ AtStage(c, v, k[v]) = i,
         NEW n, \A v \in ItemsOfGroup(c, g) :
                   n[v] = IF WaveOf(c, v) = w THEN NextStage(c, v, k[v]) ELSE k[v]
  PROVE  FbarrierDefined(b, i.kind, w) /\ GroupIs(c, g, Fbarrier(b, i.kind, w), n)
<1> DEFINE I == ItemsOfGroup(c, g)  W == {v \in I : WaveOf(c, v) = w}  b2 == Fbarrier(b, i.kind, w)
<1>0. b \in FbarriersOf(c, g) /\ \A v \in I : StandsWith(c, b, v, k[v])
  BY DEF GroupIs
<1>1. PICK u \in I : WaveOf(c, u) = w
  BY DEF WavesOf
<1>2. i.kind \in FbarKinds /\ i = FbarOp(i.kind)
  <2>1. k[u] \in 1..Last(c, u) /\ AtStage(c, u, k[u]) = i
    BY <1>1
  <2> QED
    BY <2>1, FbarStage
<1>3. /\ i \in Arrives <=> i.kind \in {"wait", "arrive"}
      /\ i \in Members <=> i.kind \in {"join", "leave"}
      /\ i = FbarOp("join") <=> i.kind = "join"
      /\ i = FbarOp("leave") <=> i.kind = "leave"
      /\ i = FbarOp("arrive") <=> i.kind = "arrive"
      /\ i # BarrierOp /\ i # InitOp /\ i # ReleaseOp
  BY <1>2, FbarKinds4
<1>4. ASSUME NEW v \in W
      PROVE  /\ StageFollows(c, v, k[v]) /\ n[v] = NextStage(c, v, k[v])
             /\ AtStage(c, v, k[v]) = i /\ k[v] \in 1..Last(c, v)
             /\ \A x \in I : StagesAgree(c, v, k[v], x, k[x]) /\ Phase(c, v, k[v]) = Phase(c, x, k[x])
             /\ k[v] \in 3..(Middles(c, v) + 2)
  <2>1. /\ StageFollows(c, v, k[v])
        /\ \A x : \A j \in 1..(Last(c, x) + 1) : StagesAgree(c, v, k[v], x, j)
    BY StagesInStep
  <2>2. \A x \in I : k[x] \in 1..(Last(c, x) + 1)
    BY <1>0 DEF StandsWith
  <2>3. \A x \in I : Phase(c, v, k[v]) = Phase(c, x, k[x])
    BY DEF GroupIs
  <2>4. k[v] \in 3..(Middles(c, v) + 2)
    <3>1. k[v] \in 1..Last(c, v) /\ AtStage(c, v, k[v]) = i
      OBVIOUS
    <3> QED
      BY <3>1, FbarStage
  <2> QED
    BY <2>1, <2>2, <2>3, <2>4
<1>5. \A v \in I : v \notin W => n[v] = k[v] /\ WaveOf(c, v) # w
  OBVIOUS
<1>6. u \in W
  BY <1>1
<1> HIDE DEF W
<1>7. w \notin b.arrived
  <2>1. WaveOf(c, u) \in b.arrived \ b.waiting => AtStage(c, u, k[u]) = BarrierOp
    BY <1>0 DEF StandsWith
  <2> QED
    BY <1>1, <1>3, <1>4, <1>6, <2>1
<1>8. w \in b.members <=> i.kind # "join"
  <2>1. WaveOf(c, u) \in b.members <=> Joined(c, u, k[u])
    BY <1>0 DEF StandsWith
  <2>2. StageFollows(c, u, k[u]) /\ AtStage(c, u, k[u]) = i
    BY <1>4, <1>6
  <2>3. i.kind = "join" => ~Joined(c, u, k[u])
    BY <1>3, <2>2 DEF StageFollows
  <2>4. i.kind # "join" => Joined(c, u, k[u])
    BY <1>2, <1>3, <2>2 DEF StageFollows, FbarKinds
  <2> QED
    BY <1>1, <2>1, <2>3, <2>4
<1>9. b.init
  <2>1. PICK v \in I : LeadsGroup(c, v)
    BY GroupLeader
  <2>2. k[u] \in 3..(Middles(c, u) + 2) /\ Middles(c, u) \in Nat /\ Middles(c, v) \in Nat
    BY <1>4, <1>6, MiddlesType
  <2>3. Phase(c, u, k[u]) \in 1..4
    BY <2>2, PhaseRange
  <2>4. Phase(c, v, k[v]) \in 1..4
    BY <1>4, <1>6, <2>3
  <2>5. StandsWith(c, b, v, k[v])
    BY <1>0
  <2>6. k[v] \in 1..(Last(c, v) + 1) /\ Last(c, v) \in Nat
    BY <2>5, MiddlesType DEF StandsWith, Last
  <2>7. k[v] \in 3..(Middles(c, v) + 3)
    BY <2>4, <2>6, PhaseRange
  <2>8. k[v] \in 2..(Middles(c, v) + 4)
    BY <2>2, <2>7
  <2> QED
    BY <2>1, <2>5, <2>8 DEF StandsWith
<1>10. FbarrierDefined(b, i.kind, w)
  BY <1>7, <1>8, <1>9 DEF FbarrierDefined
<1>11. PICK r \in Nat : \A v \in I :
          Rounds(c, v, k[v]) = IF WaveOf(c, v) \in b.arrived THEN r + 1 ELSE r
  BY DEF GroupIs
<1>12. /\ b \in [init : BOOLEAN, members : SUBSET WavesOf(c, g),
                 arrived : SUBSET WavesOf(c, g), waiting : SUBSET WavesOf(c, g)]
       /\ b.waiting \subseteq b.arrived
  BY <1>0 DEF FbarriersOf
\* Who leaves finds that nobody has arrived.
<1>13. i.kind = "leave" => b.arrived = {} /\ b.waiting = {}
  <2> SUFFICES ASSUME i.kind = "leave", b.arrived # {} PROVE FALSE
    BY <1>12
  <2>1. PICK x \in I : WaveOf(c, x) \in b.arrived
    BY <1>12 DEF WavesOf
  <2>2. Rounds(c, u, k[u]) = Rounds(c, x, k[x])
    BY <1>3, <1>4, <1>6 DEF StagesAgree
  <2>3. Rounds(c, u, k[u]) = r /\ Rounds(c, x, k[x]) = r + 1
    BY <1>1, <1>7, <1>11, <2>1
  <2>4. r + 1 # r
    OBVIOUS
  <2> QED
    BY <2>2, <2>3, <2>4
<1> DEFINE sat == i.kind \in {"wait", "arrive"} /\ b.members \subseteq b.arrived \cup {w}
<1>14. /\ b2 \in FbarriersOf(c, g) /\ b2.init = b.init
       /\ b2.members = IF i.kind = "join" THEN b.members \cup {w}
                       ELSE IF i.kind = "leave" THEN b.members \ {w} ELSE b.members
       /\ b2.arrived = IF sat THEN {} ELSE IF i.kind \in {"wait", "arrive"} THEN b.arrived \cup {w}
                       ELSE b.arrived
       /\ b2.waiting = IF sat THEN {} ELSE IF i.kind = "wait" THEN b.waiting \cup {w} ELSE b.waiting
  <2>1. CASE i.kind = "join"
    <3>1. b2 = [init |-> b.init, members |-> b.members \cup {w},
                arrived |-> b.arrived, waiting |-> b.waiting]
      BY <2>1 DEF Fbarrier
    <3> QED
      BY <1>12, <2>1, <3>1 DEF FbarriersOf
  <2>2. CASE i.kind = "leave"
    <3>1. b2 = [init |-> b.init, members |-> b.members \ {w}, arrived |-> {}, waiting |-> {}]
      BY <1>13, <2>2 DEF Fbarrier
    <3> QED
      BY <1>12, <1>13, <2>2, <3>1 DEF FbarriersOf
  <2>3. CASE i.kind \in {"wait", "arrive"}
    <3>1. b2 = [init |-> b.init, members |-> b.members,
                arrived |-> IF sat THEN {} ELSE b.arrived \cup {w},
                waiting |-> IF sat THEN {} ELSE IF i.kind = "wait" THEN b.waiting \cup {w}
                                                                   ELSE b.waiting]
      BY <2>3 DEF Fbarrier
    <3> QED
      BY <1>12, <2>3, <3>1 DEF FbarriersOf
  <2> QED
    BY <1>2, <2>1, <2>2, <2>3 DEF FbarKinds
<1> HIDE DEF b2
<1>15. ASSUME NEW v \in I PROVE StandsWith(c, b2, v, n[v])
  <2>1. StandsWith(c, b, v, k[v])
    BY <1>0
  <2>2. CASE v \notin W
    <3>1. n[v] = k[v] /\ WaveOf(c, v) # w
      BY <1>5, <2>2
    <3>2. WaveOf(c, v) \in b2.members <=> WaveOf(c, v) \in b.members
      BY <1>14, <3>1
    <3>3. WaveOf(c, v) \in b2.arrived \ b2.waiting => WaveOf(c, v) \in b.arrived \ b.waiting
      BY <1>14, <3>1
    <3> QED
      BY <1>14, <2>1, <3>1, <3>2, <3>3 DEF StandsWith
  <2>3. CASE v \in W
    <3> DEFINE m == Middles(c, v)
    <3>1. /\ StageFollows(c, v, k[v]) /\ n[v] = NextStage(c, v, k[v])
          /\ AtStage(c, v, k[v]) = i /\ k[v] \in 3..(m + 2) /\ WaveOf(c, v) = w
          /\ n[v] \in 1..(Last(c, v) + 1) /\ m \in Nat
      BY <1>4, <2>3, StageMoves, MiddlesType DEF W
    <3>2. n[v] = k[v] + 1
      BY <3>1 DEF NextStage
    <3>3. /\ n[v] \in {1, m + 4} => LeadsGroup(c, v)
          /\ LeadsGroup(c, v) => (b2.init <=> n[v] \in 2..(m + 4))
      BY <1>9, <1>14, <3>1, <3>2
    <3>4. WaveOf(c, v) \in b2.members <=> Joined(c, v, n[v])
      <4>1. CASE i.kind = "join"
        BY <1>3, <1>14, <3>1, <4>1 DEF StageFollows
      <4>2. CASE i.kind = "leave"
        BY <1>3, <1>14, <3>1, <4>2 DEF StageFollows
      <4>3. CASE i.kind \in {"wait", "arrive"}
        <5>1. Joined(c, v, n[v]) <=> Joined(c, v, k[v])
          BY <1>3, <3>1, <4>3 DEF StageFollows
        <5>2. Joined(c, v, k[v])
          BY <1>3, <3>1, <4>3 DEF StageFollows
        <5>3. w \in b2.members
          BY <1>8, <1>14, <4>3
        <5> QED
          BY <3>1, <5>1, <5>2, <5>3
      <4> QED
        BY <1>2, <4>1, <4>2, <4>3 DEF FbarKinds
    <3>5. WaveOf(c, v) \in b2.arrived \ b2.waiting => AtStage(c, v, n[v]) = BarrierOp
      <4> SUFFICES ASSUME w \in b2.arrived, w \notin b2.waiting PROVE AtStage(c, v, n[v]) = BarrierOp
        BY <3>1
      <4>1. i.kind = "arrive"
        BY <1>2, <1>7, <1>14 DEF FbarKinds
      <4> QED
        BY <1>3, <3>1, <4>1 DEF StageFollows
    <3> QED
      BY <3>1, <3>3, <3>4, <3>5 DEF StandsWith
  <2> QED
    BY <2>2, <2>3
<1>16. \A v \in I : Phase(c, v, n[v]) = Phase(c, v, k[v])
  BY <1>3, <1>4, <1>5 DEF StageFollows
<1>17. \A v, x \in I : Phase(c, v, n[v]) = Phase(c, x, n[x])
  <2>1. \A v, x \in I : Phase(c, v, k[v]) = Phase(c, x, k[x])
    BY DEF GroupIs
  <2> QED
    BY <1>16, <2>1
<1>18. \A v \in W : Rounds(c, v, k[v]) = r
  BY <1>7, <1>11 DEF W
<1>19. \E q \in Nat : \A v \in I :
          Rounds(c, v, n[v]) = IF WaveOf(c, v) \in b2.arrived THEN q + 1 ELSE q
  <2>1. CASE i.kind \in {"join", "leave"}
    <3>1. \A v \in I : Rounds(c, v, n[v]) = Rounds(c, v, k[v])
      BY <1>3, <1>4, <1>5, <2>1 DEF StageFollows
    <3>2. b2.arrived = b.arrived
      BY <1>14, <2>1
    <3> QED
      BY <1>11, <3>1, <3>2
  <2>2. CASE i.kind \in {"wait", "arrive"} /\ ~sat
    <3>1. \A v \in W : Rounds(c, v, n[v]) = r + 1 /\ WaveOf(c, v) \in b2.arrived
      BY <1>3, <1>4, <1>14, <1>18, <2>2 DEF StageFollows, W
    <3>2. ASSUME NEW v \in I, v \notin W
          PROVE  Rounds(c, v, n[v]) = IF WaveOf(c, v) \in b2.arrived THEN r + 1 ELSE r
      BY <1>5, <1>11, <1>14, <2>2, <3>2
    <3> QED
      BY <3>1, <3>2
  <2>3. CASE sat
    <3>1. \A v \in W : Rounds(c, v, n[v]) = r + 1
      BY <1>3, <1>4, <1>18, <2>3 DEF StageFollows
    <3>2. ASSUME NEW v \in I, v \notin W PROVE Rounds(c, v, n[v]) = r + 1
      <4>1. Joined(c, v, k[v])
        BY <1>3, <1>4, <1>6, <2>3 DEF StagesAgree
      <4>2. WaveOf(c, v) \in b.members
        BY <1>0, <4>1 DEF StandsWith
      <4>3. WaveOf(c, v) \in b.arrived
        BY <1>5, <2>3, <3>2, <4>2
      <4> QED
        BY <1>5, <1>11, <3>2, <4>3
    <3>3. b2.arrived = {} /\ r + 1 \in Nat
      BY <1>14, <2>3
    <3> QED
      BY <3>1, <3>2, <3>3
  <2> QED
    BY <1>2, <2>1, <2>2, <2>3 DEF FbarKinds
<1>20. b2.arrived # {} => ~(b2.members \subseteq b2.arrived)
  <2>1. b.arrived # {} => ~(b.members \subseteq b.arrived)
    BY DEF GroupIs
  <2> QED
    BY <1>2, <1>13, <1>14, <2>1 DEF FbarKinds
<1>21. GroupIs(c, g, b2, n)
  BY <1>14, <1>15, <1>17, <1>19, <1>20 DEF GroupIs
<1> QED
  BY <1>10, <1>21 DEF b2
-----------------------------------------------------------------------------
\* The inductive invariant.
Stages == [v \in WorkItems(case) |-> K(v)]
ResultsInStep ==
    case.test # "basic" =>
        \A v \in WorkItems(case) :
            K(v) > Last(case, v) => mem[<<"output", v>>] = ResultInStep(case)
InStepInv ==
    /\ \A v \in WorkItems(case) : pc[v] >= 1
    /\ \A g \in Groups(case) : GroupIs(case, g, fbar[<<g, "fb">>], Stages)
    /\ undef = FALSE
    /\ ResultsInStep

LEMMA GroupSame ==
  ASSUME NEW c, NEW g, NEW b, NEW k, GroupIs(c, g, b, k),
         NEW n, \A v \in ItemsOfGroup(c, g) : n[v] = k[v]
  PROVE  GroupIs(c, g, b, n)
BY DEF GroupIs

LEMMA ItemOfItsGroup ==
  ASSUME Basic, NEW v \in WorkItems(case)
  PROVE  /\ GroupOf(case, v) \in Groups(case)
         /\ v \in ItemsOfGroup(case, GroupOf(case, v))
BY GeometryTypes DEF Basic, ItemsOfGroup

LEMMA InStepAt ==
  ASSUME Basic, InStep(case), InStepInv, NEW v \in WorkItems(case), ~Ended(v)
  PROVE  /\ K(v) \in 1..Last(case, v) /\ Stages[v] = K(v)
         /\ At(v) = AtStage(case, v, K(v))
<1>1. pc[v] >= 1
  BY DEF InStepInv
<1>2. /\ K(v) \in Nat /\ K(v) >= 1 /\ ~(K(v) > Last(case, v))
      /\ At(v) = AtStage(case, v, K(v))
  BY <1>1, AtIs
<1>3. Last(case, v) \in Nat
  BY MiddlesType DEF Last
<1> QED
  BY <1>2, <1>3 DEF Stages

LEMMA InStepMoves ==
  ASSUME Basic, InStep(case), InStepInv, case' = case, NEW W,
         \A v \in WorkItems(case) : pc'[v] = IF v \in W THEN pc[v] + 1 ELSE pc[v]
  PROVE  /\ \A v \in WorkItems(case) :
               /\ K(v)' = IF v \in W THEN NextStage(case, v, K(v)) ELSE K(v)
               /\ Stages'[v] = K(v)' /\ Stages[v] = K(v)
               /\ pc'[v] >= 1
<1> SUFFICES ASSUME NEW v \in WorkItems(case)
             PROVE  /\ K(v)' = IF v \in W THEN NextStage(case, v, K(v)) ELSE K(v)
                    /\ Stages'[v] = K(v)' /\ Stages[v] = K(v)
                    /\ pc'[v] >= 1
  OBVIOUS
<1>1. pc[v] \in Nat /\ pc[v] >= 1
  BY DEF InStepInv, Basic
<1>2. StageOf(case, v, pc[v] + 1) = NextStage(case, v, K(v))
  BY <1>1, AtIs
<1>3. K(v)' = StageOf(case, v, pc'[v])
  BY DEF K
<1>4. K(v)' = IF v \in W THEN NextStage(case, v, K(v)) ELSE K(v)
  BY <1>2, <1>3 DEF K
<1>5. Stages'[v] = K(v)' /\ Stages[v] = K(v)
  BY DEF Stages
<1> QED
  BY <1>1, <1>4, <1>5

\* The store of a result.
LEMMA OutputOfItem ==
  ASSUME Basic, InStep(case), case.test # "basic", NEW v \in WorkItems(case)
  PROVE  <<"output", v>> \in DOMAIN mem
<1> DEFINE t == Total(case, v)  i == StoreOp(<<"output", v>>, ResultInStep(case))
<1>1. t \in Nat /\ t >= 5
  BY MiddlesType
<1>2. Tail1(case) = 1
  BY DEF Tail1
<1>3. ListInStep(case, v)[t] = i
  BY <1>2, ListElements
<1>4. Program(case, v) = ListInStep(case, v)
  BY ProgramInStep
<1>5. t \in DOMAIN Program(case, v)
  <2>1. t \in 1..t
    BY <1>1
  <2> QED
    BY <1>4, <2>1 DEF ListInStep
<1>6. "addr" \in DOMAIN i /\ i.addr = <<"output", v>> /\ i.addr[1] # "flag"
  BY DEF StoreOp
<1>7. Program(case, v)[t] = i
  BY <1>3, <1>4
<1>8. <<"output", v>> \in Addresses(case)
  BY <1>5, <1>6, <1>7, InMemory
<1> QED
  BY <1>8 DEF Basic

\* A work-item at its stage, and what its step does.
LEMMA RunsInStep ==
  ASSUME Basic, InStep(case), InStepInv, NEW u \in WorkItems(case), Runs(u)
  PROVE  LET i == AtStage(case, u, K(u))  gf == <<GroupOf(case, u), "fb">>
         IN  /\ K(u) \in 1..Last(case, u)
             /\ i.op \in {"initfbar", "releasefbar", "st", "atomic"}
             /\ i.op = "initfbar" =>
                   /\ undef' = fbar[gf].init /\ mem' = mem
                   /\ fbar' = [fbar EXCEPT ![gf].init = TRUE]
             /\ i.op = "releasefbar" =>
                   /\ undef' = (~fbar[gf].init \/ fbar[gf].members # {}) /\ mem' = mem
                   /\ fbar' = [fbar EXCEPT ![gf].init = FALSE]
             /\ i.op = "st" =>
                   /\ mem' = [mem EXCEPT ![<<"output", u>>] = ResultInStep(case)]
                   /\ UNCHANGED <<fbar, undef>> /\ K(u) = Last(case, u) /\ case.test # "basic"
             /\ i.op = "atomic" =>
                   /\ case.test = "basic" /\ UNCHANGED <<fbar, undef>>
<1> DEFINE i == AtStage(case, u, K(u))  gf == <<GroupOf(case, u), "fb">>
<1>1. /\ ~Ended(u)
      /\ At(u).op \in {"ld", "st", "atomic", "until", "initfbar", "releasefbar"}
  BY RunsOn
<1>2. K(u) \in 1..Last(case, u) /\ At(u) = i
  BY <1>1, InStepAt
<1>3. /\ i.op \in {"initfbar", "releasefbar", "barrier", "fbar", "st", "atomic"}
      /\ i.op = "initfbar" => i = InitOp
      /\ i.op = "releasefbar" => i = ReleaseOp
  BY <1>2, StageOps
<1>4. i.op \in {"initfbar", "releasefbar", "st", "atomic"}
  BY <1>1, <1>2, <1>3
<1>5. ASSUME i.op = "initfbar"
      PROVE  /\ undef' = fbar[gf].init /\ mem' = mem
             /\ fbar' = [fbar EXCEPT ![gf].init = TRUE]
  <2>1. InitFbarrier(u) /\ At(u).fb = "fb"
    BY <1>2, <1>3, <1>5 DEF Runs, Load, Store, DoAtomic, LeaveLoop, InitFbarrier, ReleaseFbarrier,
                            IsAt, InitOp
  <2> QED
    BY <2>1 DEF InitFbarrier
<1>6. ASSUME i.op = "releasefbar"
      PROVE  /\ undef' = (~fbar[gf].init \/ fbar[gf].members # {}) /\ mem' = mem
             /\ fbar' = [fbar EXCEPT ![gf].init = FALSE]
  <2>1. ReleaseFbarrier(u) /\ At(u).fb = "fb"
    BY <1>2, <1>3, <1>6 DEF Runs, Load, Store, DoAtomic, LeaveLoop, InitFbarrier, ReleaseFbarrier,
                            IsAt, ReleaseOp
  <2> QED
    BY <2>1 DEF ReleaseFbarrier
<1>7. ASSUME i.op = "st"
      PROVE  /\ mem' = [mem EXCEPT ![<<"output", u>>] = ResultInStep(case)]
             /\ UNCHANGED <<fbar, undef>> /\ K(u) = Last(case, u) /\ case.test # "basic"
  <2>1. K(u) = Middles(case, u) + 6 /\ i = StoreOp(<<"output", u>>, ResultInStep(case))
    BY <1>2, <1>7, StageKinds
  <2>2. /\ mem' = [mem EXCEPT ![<<"output", u>>] = Value(u, <<"imm", ResultInStep(case)>>)]
        /\ UNCHANGED <<case, regs, fbar, undef>>
    BY <1>2, <2>1, Stores DEF StoreOp
  <2>3. Value(u, <<"imm", ResultInStep(case)>>) = ResultInStep(case)
    BY DEF Value
  <2>4. Tail1(case) = 1 /\ K(u) = Last(case, u)
    <3>1. Middles(case, u) \in Nat /\ Tail1(case) \in {0, 1}
      BY MiddlesType
    <3> QED
      BY <1>2, <2>1, <3>1 DEF Last
  <2>5. mem' = [mem EXCEPT ![<<"output", u>>] = ResultInStep(case)]
    BY <2>2, <2>3
  <2>6. case.test # "basic"
    BY <2>4 DEF Tail1
  <2> QED
    BY <2>2, <2>4, <2>5, <2>6
<1>8. ASSUME i.op = "atomic"
      PROVE  case.test = "basic" /\ UNCHANGED <<fbar, undef>>
  <2>1. DoAtomic(u)
    BY <1>2, <1>8 DEF Runs, Load, Store, DoAtomic, LeaveLoop, InitFbarrier, ReleaseFbarrier, IsAt
  <2>2. case.test = "basic"
    BY <1>2, <1>8, StageKinds
  <2> QED
    BY <2>1, <2>2 DEF DoAtomic
<1> QED
  BY <1>2, <1>4, <1>5, <1>6, <1>7, <1>8

\* A step of one work-item.
LEMMA InStepRuns ==
  ASSUME Basic, InStep(case), InStepInv, case' = case, NEW u \in WorkItems(case), Runs(u)
  PROVE  InStepInv'
<1> DEFINE g == GroupOf(case, u)  gf == <<g, "fb">>  b == fbar[gf]
           i == AtStage(case, u, K(u))
           b2 == [b EXCEPT !.init = IF i.op = "initfbar" THEN TRUE
                                    ELSE IF i.op = "releasefbar" THEN FALSE ELSE b.init]
<1>0. case \in Cases /\ g \in Groups(case) /\ u \in ItemsOfGroup(case, g)
  BY ItemOfItsGroup DEF Basic
<1>1. /\ K(u) \in 1..Last(case, u)
      /\ i.op \in {"initfbar", "releasefbar", "st", "atomic"}
      /\ i.op = "initfbar" =>
            /\ undef' = b.init /\ mem' = mem
            /\ fbar' = [fbar EXCEPT ![gf].init = TRUE]
      /\ i.op = "releasefbar" =>
            /\ undef' = (~b.init \/ b.members # {}) /\ mem' = mem
            /\ fbar' = [fbar EXCEPT ![gf].init = FALSE]
      /\ i.op = "st" =>
            /\ mem' = [mem EXCEPT ![<<"output", u>>] = ResultInStep(case)]
            /\ UNCHANGED <<fbar, undef>> /\ K(u) = Last(case, u) /\ case.test # "basic"
      /\ i.op = "atomic" =>
            /\ case.test = "basic" /\ UNCHANGED <<fbar, undef>>
  BY RunsInStep
<1>2. \A v \in WorkItems(case) : pc'[v] = IF v \in {u} THEN pc[v] + 1 ELSE pc[v]
  BY RunsOn DEF Basic
<1>3. \A v \in WorkItems(case) :
         /\ K(v)' = IF v = u THEN NextStage(case, v, K(v)) ELSE K(v)
         /\ Stages'[v] = K(v)' /\ Stages[v] = K(v)
         /\ pc'[v] >= 1
  BY <1>2, InStepMoves
<1>4. \A h : \A v \in ItemsOfGroup(case, h) : v \in WorkItems(case) /\ GroupOf(case, v) = h
  BY DEF ItemsOfGroup
<1>5. GroupIs(case, g, b, Stages)
  BY <1>0 DEF InStepInv
<1>6. /\ GroupIs(case, g, b2, Stages')
      /\ i.op = "initfbar" => ~b.init
      /\ i.op = "releasefbar" => b.init /\ b.members = {}
  <2>1. PICK k, n : k = Stages /\ n = Stages'
    OBVIOUS
  <2>2. PICK j, x, h : j = i /\ x = b /\ h = g
    OBVIOUS
  <2>3. PICK y : y = b2
    OBVIOUS
  <2>4. /\ y \in FbarriersOf(case, h)
        /\ y.members = x.members /\ y.arrived = x.arrived /\ y.waiting = x.waiting
        /\ y.init <=> j.op = "initfbar" \/ (x.init /\ j.op # "releasefbar")
    <3>1. b \in FbarriersOf(case, g)
      BY <1>5 DEF GroupIs
    <3> HIDE DEF g, b, i
    <3> QED
      BY <2>2, <2>3, <3>1 DEF FbarriersOf
  <2>5. j = AtStage(case, u, k[u]) /\ k[u] \in 1..Last(case, u)
    BY <1>1, <1>3, <2>1, <2>2
  <2>6. \A v \in ItemsOfGroup(case, h) :
           n[v] = IF v = u THEN NextStage(case, u, k[u]) ELSE k[v]
    BY <1>3, <1>4, <2>1, <2>2
  <2>7. GroupIs(case, h, x, k) /\ h \in Groups(case) /\ u \in ItemsOfGroup(case, h)
    BY <1>0, <1>5, <2>1, <2>2
  <2>8. j.op \in {"initfbar", "releasefbar", "st", "atomic"}
    BY <1>1, <2>2
  <2>9. case \in Cases /\ InStep(case)
    BY <1>0
  <2> HIDE DEF g, b, i, b2
  <2>10. GroupIs(case, h, y, n)
    BY ONLY <2>4, <2>5, <2>6, <2>7, <2>8, <2>9, GroupRuns
  <2>11. /\ j.op = "initfbar" => ~x.init
         /\ j.op = "releasefbar" => x.init /\ x.members = {}
    BY ONLY <2>4, <2>5, <2>6, <2>7, <2>8, <2>9, GroupRuns
  <2> QED
    BY <2>1, <2>2, <2>3, <2>10, <2>11
<1>7. /\ b \in FbarriersOf(case, g)
      /\ fbar = [q \in Groups(case) \X Fbarriers(case) |-> fbar[q]]
      /\ \A h \in Groups(case) : <<h, "fb">> \in Groups(case) \X Fbarriers(case)
  BY <1>0, <1>5, FbarrierOfGroup DEF GroupIs, Basic
<1>8. undef' = FALSE
  <2>1. undef = FALSE
    BY DEF InStepInv
  <2>2. CASE i.op = "initfbar"
    <3>1. undef' = b.init /\ ~b.init
      BY <1>1, <1>6, <2>2
    <3>2. b.init \in BOOLEAN
      BY <1>7 DEF FbarriersOf
    <3> HIDE DEF b
    <3> QED
      BY <3>1, <3>2
  <2>3. CASE i.op = "releasefbar"
    <3>1. undef' = (~b.init \/ b.members # {}) /\ b.init /\ b.members = {}
      BY <1>1, <1>6, <2>3
    <3> HIDE DEF b
    <3> QED
      BY <3>1
  <2>4. CASE i.op \in {"st", "atomic"}
    BY <1>1, <2>1, <2>4
  <2> QED
    BY <1>1, <2>2, <2>3, <2>4
<1>9. fbar'[gf] = b2 /\ \A h \in Groups(case) : h # g => fbar'[<<h, "fb">>] = fbar[<<h, "fb">>]
  <2>1. CASE i.op = "initfbar"
    <3>1. fbar' = [fbar EXCEPT ![gf].init = TRUE] /\ b2 = [b EXCEPT !.init = TRUE]
      BY <1>1, <2>1
    <3> HIDE DEF b2
    <3> QED
      BY <1>0, <1>7, <3>1
  <2>2. CASE i.op = "releasefbar"
    <3>1. fbar' = [fbar EXCEPT ![gf].init = FALSE] /\ b2 = [b EXCEPT !.init = FALSE]
      BY <1>1, <2>2
    <3> HIDE DEF b2
    <3> QED
      BY <1>0, <1>7, <3>1
  <2>3. CASE i.op \in {"st", "atomic"}
    <3>1. fbar' = fbar /\ b2 = [b EXCEPT !.init = b.init]
      BY <1>1, <2>3
    <3>2. b2 = b
      BY <1>7, <3>1 DEF FbarriersOf
    <3> QED
      BY <3>1, <3>2
  <2> QED
    BY <1>1, <2>1, <2>2, <2>3
<1> HIDE DEF b2
<1>10. ASSUME NEW h \in Groups(case) PROVE GroupIs(case, h, fbar'[<<h, "fb">>], Stages')
  <2>1. CASE h = g
    BY <1>6, <1>9, <2>1
  <2>2. CASE h # g
    <3>1. \A v \in ItemsOfGroup(case, h) : Stages'[v] = Stages[v]
      BY <1>0, <1>3, <1>4, <2>2
    <3>2. GroupIs(case, h, fbar[<<h, "fb">>], Stages)
      BY DEF InStepInv
    <3> QED
      BY <1>9, <2>2, <3>1, <3>2, GroupSame
  <2> QED
    BY <2>1, <2>2
<1>11. ResultsInStep'
  <2> SUFFICES ASSUME case.test # "basic", NEW v \in WorkItems(case), K(v)' > Last(case, v)
               PROVE  mem'[<<"output", v>>] = ResultInStep(case)
    BY DEF ResultsInStep
  <2>0. <<"output", v>> \in DOMAIN mem
    BY OutputOfItem
  <2>1. CASE v # u
    <3>1. K(v) > Last(case, v)
      BY <1>3, <2>1
    <3>2. mem[<<"output", v>>] = ResultInStep(case)
      BY <3>1 DEF InStepInv, ResultsInStep
    <3> QED
      BY <1>1, <2>0, <2>1, <3>2
  <2>2. CASE v = u
    <3>1. i.op = "st"
      <4> DEFINE m == Middles(case, u)
      <4>1. K(u) = Last(case, u)
        <5>1. NextStage(case, u, K(u)) > Last(case, u)
          BY <1>3, <2>2
        <5>2. m \in Nat /\ Last(case, u) \in Nat /\ Last(case, u) = m + 6
          BY MiddlesType DEF Last, Tail1
        <5> HIDE DEF m
        <5> QED
          BY <1>1, <5>1, <5>2 DEF NextStage, m
      <4>2. K(u) = m + 6
        <5>1. Tail1(case) = 1 /\ m \in Nat
          BY MiddlesType DEF Tail1
        <5> QED
          BY <4>1, <5>1 DEF Last
      <4>3. i = StoreOp(<<"output", u>>, ResultInStep(case))
        BY <1>1, <4>2, StagesOf
      <4> QED
        BY <4>3 DEF StoreOp
    <3> QED
      BY <1>1, <2>0, <2>2, <3>1
  <2> QED
    BY <2>1, <2>2
<1> QED
  BY <1>3, <1>8, <1>10, <1>11 DEF InStepInv
\* A step that stores nothing.
LEMMA ResultsStay ==
  ASSUME Basic, InStep(case), InStepInv, case' = case, mem' = mem, NEW W,
         \A v \in WorkItems(case) : K(v)' = IF v \in W THEN NextStage(case, v, K(v)) ELSE K(v),
         \A v \in WorkItems(case) :
            v \in W => K(v) \in 1..Last(case, v) /\ AtStage(case, v, K(v)).op # "st"
  PROVE  ResultsInStep'
<1> SUFFICES ASSUME case.test # "basic", NEW v \in WorkItems(case), K(v)' > Last(case, v)
             PROVE  mem[<<"output", v>>] = ResultInStep(case)
  BY DEF ResultsInStep
<1>1. CASE v \notin W
  <2>1. K(v) > Last(case, v)
    BY <1>1
  <2> QED
    BY <2>1 DEF InStepInv, ResultsInStep
<1>2. CASE v \in W
  <2> DEFINE m == Middles(case, v)  k == K(v)
  <2>1. k \in 1..Last(case, v) /\ AtStage(case, v, k).op # "st" /\ NextStage(case, v, k) > Last(case, v)
    BY <1>2
  <2>2. m \in Nat /\ Last(case, v) = m + 6
    BY MiddlesType DEF Last, Tail1
  <2>3. k # m + 6
    <3>1. k = m + 6 => AtStage(case, v, k) = StoreOp(<<"output", v>>, ResultInStep(case))
      BY <2>1, StagesOf
    <3>2. StoreOp(<<"output", v>>, ResultInStep(case)).op = "st"
      BY OpOf
    <3> HIDE DEF k, m
    <3> QED
      BY <2>1, <3>1, <3>2
  <2> HIDE DEF m, k
  <2>4. FALSE
    BY <2>1, <2>2, <2>3 DEF NextStage, m
  <2> QED
    BY <2>4
<1> QED
  BY <1>1, <1>2

\* A barrier.
LEMMA InStepBarrier ==
  ASSUME Basic, InStep(case), InStepInv, case' = case, NEW g \in Groups(case), DoBarrier(g)
  PROVE  InStepInv'
<1> DEFINE I == ItemsOfGroup(case, g)
<1>0. case \in Cases
  BY DEF Basic
<1>1. /\ \A v \in WorkItems(case) :
            pc'[v] = IF GroupOf(case, v) = g THEN pc[v] + 1 ELSE pc[v]
      /\ \A v \in WorkItems(case) :
            GroupOf(case, v) = g => ~Ended(v) /\ At(v).op = "barrier"
      /\ UNCHANGED <<case, regs, mem, fbar, undef>>
  BY Gathers
<1>2. \A h : \A v \in ItemsOfGroup(case, h) : v \in WorkItems(case) /\ GroupOf(case, v) = h
  BY DEF ItemsOfGroup
<1>3. \A v \in WorkItems(case) : v \in I <=> GroupOf(case, v) = g
  BY DEF ItemsOfGroup
<1>4. \A v \in WorkItems(case) : pc'[v] = IF v \in I THEN pc[v] + 1 ELSE pc[v]
  BY <1>1, <1>3
<1>5. \A v \in WorkItems(case) :
         /\ K(v)' = IF v \in I THEN NextStage(case, v, K(v)) ELSE K(v)
         /\ Stages'[v] = K(v)' /\ Stages[v] = K(v)
         /\ pc'[v] >= 1
  BY <1>4, InStepMoves
<1>6. \A v \in I : K(v) \in 1..Last(case, v) /\ AtStage(case, v, K(v)) = BarrierOp
  <2> SUFFICES ASSUME NEW v \in I
               PROVE  K(v) \in 1..Last(case, v) /\ AtStage(case, v, K(v)) = BarrierOp
    OBVIOUS
  <2>1. v \in WorkItems(case) /\ ~Ended(v) /\ At(v).op = "barrier"
    BY <1>1, <1>2
  <2>2. K(v) \in 1..Last(case, v) /\ At(v) = AtStage(case, v, K(v))
    BY <2>1, InStepAt
  <2>3. AtStage(case, v, K(v)) = BarrierOp
    BY <2>1, <2>2, StageOps
  <2> QED
    BY <2>2, <2>3
<1>7. GroupIs(case, g, fbar[<<g, "fb">>], Stages')
  <2>1. PICK k, n : k = Stages /\ n = Stages'
    OBVIOUS
  <2>2. GroupIs(case, g, fbar[<<g, "fb">>], k)
    BY <2>1 DEF InStepInv
  <2>3. PICK b : b = fbar[<<g, "fb">>]
    OBVIOUS
  <2>4. \A v \in ItemsOfGroup(case, g) : k[v] \in 1..Last(case, v) /\ AtStage(case, v, k[v]) = BarrierOp
    BY <1>2, <1>5, <1>6, <2>1
  <2>5. \A v \in ItemsOfGroup(case, g) : n[v] = NextStage(case, v, k[v])
    BY <1>2, <1>5, <2>1
  <2>6. GroupIs(case, g, b, k)
    BY <2>2, <2>3
  <2>7. GroupIs(case, g, b, n)
    BY <1>0, <2>4, <2>5, <2>6, GroupGathers
  <2> QED
    BY <2>1, <2>3, <2>7
<1>8. ASSUME NEW h \in Groups(case) PROVE GroupIs(case, h, fbar'[<<h, "fb">>], Stages')
  <2>1. CASE h = g
    BY <1>1, <1>7, <2>1
  <2>2. CASE h # g
    <3>1. \A v \in ItemsOfGroup(case, h) : Stages'[v] = Stages[v]
      BY <1>2, <1>3, <1>5, <2>2
    <3>2. GroupIs(case, h, fbar[<<h, "fb">>], Stages)
      BY DEF InStepInv
    <3> QED
      BY <1>1, <3>1, <3>2, GroupSame
  <2> QED
    BY <2>1, <2>2
<1>9. ResultsInStep'
  <2>1. BarrierOp.op # "st"
    BY DEF BarrierOp
  <2>2. \A v \in WorkItems(case) :
           v \in I => K(v) \in 1..Last(case, v) /\ AtStage(case, v, K(v)).op # "st"
    BY <1>6, <2>1
  <2>3. \A v \in WorkItems(case) : K(v)' = IF v \in I THEN NextStage(case, v, K(v)) ELSE K(v)
    BY <1>5
  <2> HIDE DEF I
  <2> QED
    BY <1>1, <2>2, <2>3, ResultsStay
<1>10. undef' = FALSE
  BY <1>1 DEF InStepInv
<1> QED
  BY <1>5, <1>8, <1>9, <1>10 DEF InStepInv
\* No kernel of these tests has a barrier of wavefronts.
LEMMA InStepWaveBarrier ==
  ASSUME Basic, InStep(case), InStepInv, NEW w \in AllWaves(case), DoWaveBarrier(w)
  PROVE  FALSE
<1>1. PICK v \in WorkItems(case) : WaveOf(case, v) = w
  BY DEF AllWaves
<1>2. IsAt(v, "wavebarrier")
  BY <1>1 DEF DoWaveBarrier, ItemsOfWave
<1>3. ~Ended(v) /\ At(v).op = "wavebarrier"
  BY <1>2 DEF IsAt, CanRun
<1>4. K(v) \in 1..Last(case, v) /\ At(v) = AtStage(case, v, K(v))
  BY <1>3, InStepAt
<1> QED
  BY <1>3, <1>4, StageOps

\* An operation on the fbarrier.
LEMMA WaveOnFbarrier ==
  ASSUME NEW w \in AllWaves(case), DoFbarrier(w)
  PROVE  LET i == At(CHOOSE v \in ItemsOfWave(case, w) : TRUE)  gf == <<w[1], i.fb>>
         IN  /\ \A v \in ItemsOfWave(case, w) : IsAt(v, "fbar") /\ At(v) = i
             /\ undef' = ~FbarrierDefined(fbar[gf], i.kind, w)
             /\ fbar' = [fbar EXCEPT ![gf] = Fbarrier(fbar[gf], i.kind, w)]
             /\ GoOn(ItemsOfWave(case, w))
             /\ UNCHANGED <<case, regs, mem>>
BY DEF DoFbarrier

LEMMA InStepFbarrier ==
  ASSUME Basic, InStep(case), InStepInv, case' = case, NEW w \in AllWaves(case), DoFbarrier(w)
  PROVE  InStepInv'
<1>1. PICK u \in WorkItems(case) : WaveOf(case, u) = w
  BY DEF AllWaves
<1>2. PICK g : g = GroupOf(case, u)
  OBVIOUS
<1>3. case \in Cases /\ g \in Groups(case) /\ w[1] = g
  BY <1>1, <1>2, ItemOfItsGroup DEF Basic, WaveOf
<1>4. PICK i : i = At(CHOOSE v \in ItemsOfWave(case, w) : TRUE)
  OBVIOUS
<1>5. /\ \A v \in ItemsOfWave(case, w) : IsAt(v, "fbar") /\ At(v) = i
      /\ undef' = ~FbarrierDefined(fbar[<<g, i.fb>>], i.kind, w)
      /\ fbar' = [fbar EXCEPT ![<<g, i.fb>>] = Fbarrier(fbar[<<g, i.fb>>], i.kind, w)]
      /\ GoOn(ItemsOfWave(case, w))
      /\ UNCHANGED <<case, regs, mem>>
  BY <1>3, <1>4, WaveOnFbarrier
<1>6. \A v : v \in ItemsOfWave(case, w) <=> v \in WorkItems(case) /\ WaveOf(case, v) = w
  BY DEF ItemsOfWave
<1>7. \A v \in WorkItems(case) : WaveOf(case, v) = w => GroupOf(case, v) = g
  BY <1>3 DEF WaveOf
<1>8. \A h : \A v : v \in ItemsOfGroup(case, h) <=> v \in WorkItems(case) /\ GroupOf(case, v) = h
  BY DEF ItemsOfGroup
<1>9. \A v \in WorkItems(case) :
         pc'[v] = IF v \in ItemsOfWave(case, w) THEN pc[v] + 1 ELSE pc[v]
  BY <1>5, Moves
<1>10. \A v \in WorkItems(case) :
          /\ K(v)' = IF v \in ItemsOfWave(case, w) THEN NextStage(case, v, K(v)) ELSE K(v)
          /\ Stages'[v] = K(v)' /\ Stages[v] = K(v)
          /\ pc'[v] >= 1
  BY <1>9, InStepMoves
<1>11. \A v \in ItemsOfWave(case, w) :
          /\ K(v) \in 1..Last(case, v) /\ AtStage(case, v, K(v)) = i /\ i.op = "fbar"
          /\ ~Blocked(v)
  <2> SUFFICES ASSUME NEW v \in ItemsOfWave(case, w)
               PROVE  /\ K(v) \in 1..Last(case, v) /\ AtStage(case, v, K(v)) = i /\ i.op = "fbar"
                      /\ ~Blocked(v)
    OBVIOUS
  <2>1. ~Ended(v) /\ ~Blocked(v) /\ At(v).op = "fbar" /\ At(v) = i /\ v \in WorkItems(case)
    BY <1>5, <1>6 DEF IsAt, CanRun
  <2> QED
    BY <2>1, InStepAt
<1>12. i.fb = "fb" /\ i.op = "fbar"
  <2>1. /\ K(u) \in 1..Last(case, u) /\ AtStage(case, u, K(u)) = i /\ i.op = "fbar"
    BY <1>1, <1>6, <1>11
  <2> QED
    BY <2>1, FbarStage
<1>13. PICK b : b = fbar[<<g, "fb">>]
  OBVIOUS
<1>14. <<g, "fb">> \in DOMAIN fbar
  BY <1>3, FbarrierOfGroup DEF Basic
<1>15. w \notin b.waiting
  BY <1>1, <1>6, <1>11, <1>13, <1>14 DEF Blocked
<1>16. FbarrierDefined(b, i.kind, w) /\ GroupIs(case, g, Fbarrier(b, i.kind, w), Stages')
  <2>1. PICK k, n : k = Stages /\ n = Stages'
    OBVIOUS
  <2>2. GroupIs(case, g, b, k)
    BY <1>3, <1>13, <2>1 DEF InStepInv
  <2>3. w \in WavesOf(case, g)
    BY <1>1, <1>2, <1>8 DEF WavesOf
  <2>4. \A v \in ItemsOfGroup(case, g) :
           WaveOf(case, v) = w => k[v] \in 1..Last(case, v) /\ AtStage(case, v, k[v]) = i
    BY <1>6, <1>8, <1>10, <1>11, <2>1
  <2>5. \A v \in ItemsOfGroup(case, g) :
           n[v] = IF WaveOf(case, v) = w THEN NextStage(case, v, k[v]) ELSE k[v]
    BY <1>6, <1>8, <1>10, <2>1
  <2>6. FbarrierDefined(b, i.kind, w)
    BY <1>3, <1>12, <1>15, <2>2, <2>3, <2>4, <2>5, GroupOnFbarrier
  <2>7. GroupIs(case, g, Fbarrier(b, i.kind, w), n)
    BY <1>3, <1>12, <1>15, <2>2, <2>3, <2>4, <2>5, GroupOnFbarrier
  <2> QED
    BY <2>1, <2>6, <2>7
<1>17. undef' = FALSE
  BY <1>5, <1>12, <1>13, <1>16
<1>18. fbar'[<<g, "fb">>] = Fbarrier(b, i.kind, w)
  BY <1>5, <1>12, <1>13, <1>14
<1>19. \A h \in Groups(case) : h # g => fbar'[<<h, "fb">>] = fbar[<<h, "fb">>]
  <2> SUFFICES ASSUME NEW h \in Groups(case), h # g PROVE fbar'[<<h, "fb">>] = fbar[<<h, "fb">>]
    OBVIOUS
  <2>1. <<h, "fb">> \in DOMAIN fbar
    BY <1>3, FbarrierOfGroup DEF Basic
  <2> QED
    BY <1>5, <1>12, <2>1
<1>20. ASSUME NEW h \in Groups(case) PROVE GroupIs(case, h, fbar'[<<h, "fb">>], Stages')
  <2>1. CASE h = g
    BY <1>16, <1>18, <2>1
  <2>2. CASE h # g
    <3>1. \A v \in ItemsOfGroup(case, h) : Stages'[v] = Stages[v]
      BY <1>6, <1>7, <1>8, <1>10, <2>2
    <3>2. GroupIs(case, h, fbar[<<h, "fb">>], Stages)
      BY DEF InStepInv
    <3> QED
      BY <1>19, <2>2, <3>1, <3>2, GroupSame
  <2> QED
    BY <2>1, <2>2
<1>21. ResultsInStep'
  <2>1. \A v \in WorkItems(case) :
           v \in ItemsOfWave(case, w) => K(v) \in 1..Last(case, v) /\ AtStage(case, v, K(v)).op # "st"
    BY <1>11
  <2>2. \A v \in WorkItems(case) :
           K(v)' = IF v \in ItemsOfWave(case, w) THEN NextStage(case, v, K(v)) ELSE K(v)
    BY <1>10
  <2>3. PICK W : W = ItemsOfWave(case, w)
    OBVIOUS
  <2>4. mem' = mem
    BY <1>5
  <2> QED
    BY <2>1, <2>2, <2>3, <2>4, ResultsStay
<1> QED
  BY <1>10, <1>17, <1>20, <1>21 DEF InStepInv
\* Any step.
LEMMA InStepKept ==
  ASSUME Basic, InStep(case), InStepInv, [Next]_vars
  PROVE  InStepInv'
<1>0. case' = case
  BY BasicKept
<1>1. CASE UNCHANGED vars
  <2>1. Stages' = Stages /\ \A v \in WorkItems(case) : K(v)' = K(v)
    BY <1>1 DEF vars, Stages, K
  <2> QED
    BY <1>1, <2>1 DEF vars, InStepInv, ResultsInStep
<1>2. CASE \E u \in WorkItems(case) : Runs(u)
  BY <1>0, <1>2, InStepRuns
<1>3. CASE \E g \in Groups(case) : DoBarrier(g)
  BY <1>0, <1>3, InStepBarrier
<1>4. CASE \E w \in AllWaves(case) : DoWaveBarrier(w)
  BY <1>4, InStepWaveBarrier
<1>5. CASE \E w \in AllWaves(case) : DoFbarrier(w)
  BY <1>0, <1>5, InStepFbarrier
<1> QED
  BY <1>1, <1>2, <1>3, <1>4, <1>5, Alone

\* The first state.
LEMMA FirstStages ==
  ASSUME NEW c, InStep(c), NEW v
  PROVE  LET k == StageOf(c, v, 1)
         IN  /\ StandsWith(c, NoFbarrier, v, k) /\ k <= Last(c, v)
             /\ Phase(c, v, k) = 0 /\ Rounds(c, v, k) = 0
<1> DEFINE m == Middles(c, v)  k == StageOf(c, v, 1)
<1>1. m \in Nat /\ m >= 2 /\ Last(c, v) \in Nat /\ Last(c, v) >= m + 5
  BY MiddlesType DEF Last
<1>2. k = IF LeadsGroup(c, v) THEN 1 ELSE 2
  <2>1. 1 <= m + 2
    BY <1>1
  <2> HIDE DEF m
  <2> QED
    BY <2>1 DEF StageOf, m
<1> HIDE DEF m, k
<1>3. k \in {1, 2} /\ k \in Nat /\ k \in 1..(Last(c, v) + 1) /\ k <= Last(c, v)
  BY <1>1, <1>2
<1>4. k \in {1, m + 4} => LeadsGroup(c, v)
  BY <1>1, <1>2
<1>5. LeadsGroup(c, v) => k \notin 2..(m + 4)
  BY <1>1, <1>2
<1>6. ~Joined(c, v, k)
  BY <1>3 DEF Joined
<1>7. Rounds(c, v, k) = 0
  BY <1>3 DEF Rounds
<1>8. Phase(c, v, k) = 0
  BY <1>1, <1>3 DEF Phase, m
<1>9. StandsWith(c, NoFbarrier, v, k)
  BY <1>3, <1>4, <1>5, <1>6 DEF StandsWith, NoFbarrier, m
<1> QED
  BY <1>3, <1>7, <1>8, <1>9 DEF k

LEMMA InStepDispatched ==
  ASSUME Init, InStep(case)
  PROVE  InStepInv
<1>0. Basic /\ case \in Cases
  BY Dispatched DEF Basic
<1>1. \A v \in WorkItems(case) : pc[v] = 1 /\ K(v) = StageOf(case, v, 1)
  BY DEF Init, K
<1>2. \A v \in WorkItems(case) :
         /\ Stages[v] = K(v) /\ StandsWith(case, NoFbarrier, v, K(v)) /\ K(v) <= Last(case, v)
         /\ Phase(case, v, K(v)) = 0 /\ Rounds(case, v, K(v)) = 0
  BY <1>1, FirstStages DEF Stages
<1>3. ASSUME NEW g \in Groups(case) PROVE GroupIs(case, g, fbar[<<g, "fb">>], Stages)
  <2>1. fbar[<<g, "fb">>] = NoFbarrier
    BY <1>0, FbarrierOfGroup DEF Init
  <2>2. NoFbarrier \in FbarriersOf(case, g) /\ NoFbarrier.arrived = {}
    BY DEF FbarriersOf, NoFbarrier
  <2>3. \A v \in ItemsOfGroup(case, g) : v \in WorkItems(case)
    BY DEF ItemsOfGroup
  <2>4. PICK b, k : b = NoFbarrier /\ k = Stages
    OBVIOUS
  <2>5. \A v \in ItemsOfGroup(case, g) :
           StandsWith(case, b, v, k[v]) /\ Phase(case, v, k[v]) = 0 /\ Rounds(case, v, k[v]) = 0
    BY <1>2, <2>3, <2>4
  <2>6. b.arrived = {} /\ b \in FbarriersOf(case, g)
    BY <2>2, <2>4
  <2>7. \E r \in Nat : \A v \in ItemsOfGroup(case, g) :
           Rounds(case, v, k[v]) = IF WaveOf(case, v) \in b.arrived THEN r + 1 ELSE r
    BY <2>5, <2>6
  <2>8. GroupIs(case, g, b, k)
    BY <2>5, <2>6, <2>7 DEF GroupIs
  <2> QED
    BY <2>1, <2>4, <2>8
<1>4. ResultsInStep
  <2> SUFFICES ASSUME NEW v \in WorkItems(case) PROVE ~(K(v) > Last(case, v))
    BY DEF ResultsInStep
  <2>1. K(v) <= Last(case, v) /\ K(v) \in 1..(Last(case, v) + 1) /\ Last(case, v) \in Nat
    BY <1>2, MiddlesType DEF StandsWith, Last
  <2> QED
    BY <2>1
<1>5. undef = FALSE /\ \A v \in WorkItems(case) : pc[v] >= 1
  BY <1>1 DEF Init
<1> QED
  BY <1>3, <1>4, <1>5 DEF InStepInv
\* What is true of the accesses: only the store of a result is not atomic, and
\* a test with such a store has no atomic operation.
LEMMA AccessesInStep ==
  ASSUME Basic, InStep(case), InStepInv, NEW v \in WorkItems(case), ~Ended(v),
         At(v).op \in {"ld", "st", "atomic", "until"}
  PROVE  IF case.test = "basic" THEN At(v).op = "atomic"
         ELSE At(v).op = "st" /\ Location(v) = <<"output", v>>
<1> DEFINE i == AtStage(case, v, K(v))
<1>1. K(v) \in 1..Last(case, v) /\ At(v) = i
  BY InStepAt
<1>2. i.op \in {"st", "atomic"}
  BY <1>1, StageOps
<1>3. i.op = "atomic" => case.test = "basic"
  BY <1>1, StageKinds
<1>4. i.op = "st" => K(v) = Middles(case, v) + 6 /\ i = StoreOp(<<"output", v>>, ResultInStep(case))
  BY <1>1, StageKinds
<1>5. case.test = "basic" => i.op # "st"
  <2> SUFFICES ASSUME case.test = "basic", i.op = "st" PROVE FALSE
    OBVIOUS
  <2>1. Middles(case, v) \in Nat /\ Last(case, v) = Middles(case, v) + 5
    BY MiddlesType DEF Last, Tail1
  <2>2. K(v) = Middles(case, v) + 6
    BY <1>4
  <2> QED
    BY <1>1, <2>1, <2>2
<1>6. i.op = "st" => Location(v) = <<"output", v>>
  <2> SUFFICES ASSUME i.op = "st" PROVE Location(v) = <<"output", v>>
    OBVIOUS
  <2>1. At(v).addr = <<"output", v>>
    BY <1>1, <1>4 DEF StoreOp
  <2> QED
    BY <2>1 DEF Location, Address
<1> HIDE DEF i
<1> QED
  BY <1>1, <1>2, <1>3, <1>5, <1>6

LEMMA InStepRaces ==
  ASSUME Basic, InStep(case), InStepInv
  PROVE  NoRace
<1> SUFFICES ASSUME NEW v \in WorkItems(case), NEW w \in WorkItems(case), v # w,
                    Accesses(v, {"ld", "st"}), Accesses(w, {"ld", "st", "atomic", "until"}),
                    Location(v) = Location(w)
             PROVE  FALSE
  BY DEF NoRace
<1>1. ~Ended(v) /\ ~Ended(w) /\ At(v).op \in {"ld", "st"} /\ At(w).op \in {"ld", "st", "atomic", "until"}
  BY DEF Accesses, CanRun
<1>2. case.test # "basic" /\ Location(v) = <<"output", v>>
  BY <1>1, AccessesInStep
<1>3. Location(w) = <<"output", w>>
  BY <1>1, <1>2, AccessesInStep
<1>4. <<"output", v>> # <<"output", w>>
  OBVIOUS
<1> QED
  BY <1>2, <1>3, <1>4

\* Every element of the output is the result of a work-item.
LEMMA OutputsInStep ==
  ASSUME NEW c, InStep(c), c.test # "basic", NEW a \in Addresses(c)
  PROVE  \E v \in WorkItems(c) : a = <<"output", v>>
<1>1. PICK v \in WorkItems(c) :
         \E n \in DOMAIN Program(c, v) : a = Program(c, v)[n].addr /\ "addr" \in DOMAIN Program(c, v)[n]
  BY DEF Addresses, Instructions, Range
<1>2. PICK n \in 1..Total(c, v) :
         a = AtStage(c, v, StageOf(c, v, n)).addr /\ "addr" \in DOMAIN AtStage(c, v, StageOf(c, v, n))
  <2>1. Program(c, v) = ListInStep(c, v)
    BY ProgramInStep
  <2> QED
    BY <1>1, <2>1 DEF ListInStep
<1>3. PICK k : k = StageOf(c, v, n)
  OBVIOUS
<1>4. k \in 1..Last(c, v)
  <2>1. Total(c, v) \in Nat /\ n \in Nat /\ n >= 1 /\ ~(n > Total(c, v))
    BY MiddlesType
  <2>2. k \in Nat /\ k >= 1 /\ ~(k > Last(c, v))
    BY <1>3, <2>1, StageIs
  <2>3. Last(c, v) \in Nat
    BY MiddlesType DEF Last
  <2> QED
    BY <2>2, <2>3
<1>5. PICK i : i = AtStage(c, v, k)
  OBVIOUS
<1>6. a = i.addr /\ "addr" \in DOMAIN i
  BY <1>2, <1>3, <1>5
<1>7. /\ i.op \in {"initfbar", "releasefbar", "barrier", "fbar", "st", "atomic"}
      /\ i.op = "initfbar" => i = InitOp
      /\ i.op = "releasefbar" => i = ReleaseOp
      /\ i.op = "barrier" => i = BarrierOp
  BY <1>4, <1>5, StageOps
<1>8. i.op = "fbar" => i = FbarOp(i.kind)
  BY <1>4, <1>5, FbarStage
<1>9. i.op # "atomic"
  BY <1>4, <1>5, StageKinds
<1>10. i.op = "st" => i = StoreOp(<<"output", v>>, ResultInStep(c))
  <2>1. \/ i \in {InitOp, ReleaseOp, BarrierOp} \cup Arrives \cup Members
        \/ i = StoreOp(<<"output", v>>, ResultInStep(c))
    BY <1>4, <1>5, StageCases
  <2> QED
    BY <2>1, OpOf
<1>11. /\ "addr" \notin DOMAIN InitOp /\ "addr" \notin DOMAIN ReleaseOp /\ "addr" \notin DOMAIN BarrierOp
       /\ \A kind : "addr" \notin DOMAIN FbarOp(kind)
  BY DEF InitOp, ReleaseOp, BarrierOp, FbarOp
<1>12. i = StoreOp(<<"output", v>>, ResultInStep(c))
  BY <1>6, <1>7, <1>8, <1>9, <1>10, <1>11
<1>13. i.addr = <<"output", v>>
  BY <1>12 DEF StoreOp
<1> QED
  BY <1>6, <1>13

LEMMA InStepResults ==
  ASSUME Basic, InStep(case), case.test # "basic", InStepInv
  PROVE  ResultsExpected
<1> SUFFICES ASSUME AllEnded, NEW a \in DOMAIN Expected(case)
             PROVE  mem[a] = Expected(case)[a]
  BY DEF ResultsExpected
<1>1. a \in Addresses(case) /\ a[1] = "output"
  BY DEF Expected, Basic
<1>2. PICK v \in WorkItems(case) : a = <<"output", v>>
  BY <1>1, OutputsInStep
<1>3. Expected(case)[a] = ResultInStep(case)
  <2>1. CASE case.test = "join_leave"
    BY <1>1, <2>1 DEF Expected, ResultInStep
  <2>2. CASE case.test \in {"wait_race", "ldf", "join_leave_join"}
    BY <1>1, <2>2 DEF Expected, ResultInStep
  <2> QED
    BY <2>1, <2>2 DEF InStep
<1>4. Ended(v) /\ pc[v] >= 1
  BY DEF AllEnded, InStepInv
<1>5. K(v) > Last(case, v)
  BY <1>4, AtIs
<1>6. mem[<<"output", v>>] = ResultInStep(case)
  BY <1>5 DEF InStepInv, ResultsInStep
<1> QED
  BY <1>2, <1>3, <1>6
-----------------------------------------------------------------------------
(* FBarrierBasicTest.  Its geometry: full groups of an even number of full   *)
(* wavefronts (IsValid, and the assertion in Init).                          *)
EvenWaves(c) == c.last = c.size /\ c.size % (2 * c.wave) = 0

LEMMA ProductGrows ==
  ASSUME NEW x \in Nat, NEW y \in Nat, NEW z \in Nat, x <= y
  PROVE  z * x <= z * y
<1>1. y - x \in Nat
  OBVIOUS
<1>2. z * (y - x) \in Nat /\ z * (y - x) = z * y - z * x
  BY <1>1
<1> QED
  BY <1>2

\* A place in a group of another place in the same group.
PlacedAt(c, v, x, d, l) ==
    /\ x \in Int /\ d \in Int /\ l \in Int /\ 0 <= l /\ l < c.wave
    /\ 0 <= c.wave * d + l /\ c.wave * d + l < c.size
    /\ x = GroupOf(c, v) * c.size + (c.wave * d + l)

LEMMA PlaceIs ==
  ASSUME NEW c \in Cases, NEW v \in WorkItems(c), NEW x, NEW d, NEW l, PlacedAt(c, v, x, d, l)
  PROVE  GroupOf(c, x) = GroupOf(c, v) /\ FlatId(c, x) = c.wave * d + l /\ WaveInGroup(c, x) = d
<1> DEFINE s == c.size  w == c.wave  g == GroupOf(c, v)  f == w * d + l
<1>0. /\ x \in Int /\ d \in Int /\ l \in Int /\ 0 <= l /\ l < w
      /\ 0 <= f /\ f < s /\ x = g * s + f
  BY DEF PlacedAt
<1>1. s \in Nat \ {0} /\ w \in Nat \ {0} /\ g \in Int
  BY CasesAssumption, GeometryTypes DEF Groups
<1>2. f \in Int
  <2> HIDE DEF w
  <2> QED
    BY <1>0, <1>1
<1>3. x = s * g + f /\ 0 <= f /\ f < s
  <2> HIDE DEF f, s, g
  <2>1. g * s = s * g
    BY <1>1
  <2> QED
    BY <1>0, <2>1
<1>4. x \div s = g /\ x % s = f
  <2> HIDE DEF f, s, g
  <2> QED
    BY <1>0, <1>1, <1>2, <1>3, RemainderIs
<1>5. f \div w = d
  <2>1. f = w * d + l
    OBVIOUS
  <2> HIDE DEF f, w
  <2> QED
    BY <1>0, <1>1, <1>2, <2>1, RemainderIs
<1> QED
  BY <1>4, <1>5 DEF GroupOf, FlatId, WaveInGroup

LEMMA WaveAfter ==
  ASSUME NEW c \in Cases, EvenWaves(c), NEW v \in WorkItems(c)
  PROVE  /\ ~IsOddWave(c, v) =>
               /\ v + c.wave \in WorkItems(c) /\ IsOddWave(c, v + c.wave)
               /\ GroupOf(c, v + c.wave) = GroupOf(c, v)
         /\ IsOddWave(c, v) =>
               /\ v - c.wave \in WorkItems(c) /\ ~IsOddWave(c, v - c.wave)
               /\ (v - c.wave) + c.wave = v
<1> DEFINE s == c.size  w == c.wave  n == c.groups  g == GroupOf(c, v)  f == FlatId(c, v)
           d == WaveInGroup(c, v)  l == LaneId(c, v)  ww == 2 * w  h == s \div ww  q == d \div 2
<1>1. /\ s \in Nat \ {0} /\ w \in Nat \ {0} /\ n \in Nat \ {0}
      /\ g \in Nat /\ g <= n - 1 /\ f \in Nat /\ f < s /\ v = g * s + f /\ v \in Nat /\ v < GridSize(c)
  BY CasesAssumption, GeometryTypes DEF Groups
<1>2. d \in Nat /\ l \in Nat /\ l < w /\ f = w * d + l
  <2>1. d = f \div w /\ l = f % w
    BY DEF WaveInGroup, LaneId
  <2> HIDE DEF f, w, d, l
  <2>2. d \in Nat
    BY <1>1, <2>1, Quotient
  <2>3. l \in Int /\ 0 <= l /\ l < w /\ f = w * d + l
    BY <1>1, <2>1, DivMod
  <2> QED
    BY <2>2, <2>3
<1>3. h \in Nat /\ s = ww * h /\ ww \in Nat \ {0}
  <2>1. ww \in Nat \ {0} /\ s % ww = 0
    BY <1>1 DEF EvenWaves
  <2> HIDE DEF s, ww
  <2>2. h \in Nat /\ s = ww * h + (s % ww)
    <3>1. h \in Nat
      BY <1>1, <2>1, Quotient
    <3>2. s \in Int
      BY <1>1
    <3> QED
      BY <2>1, <3>1, <3>2, DivMod
  <2>3. ww * h \in Nat
    BY <2>1, <2>2
  <2> HIDE DEF h
  <2> QED
    BY <2>1, <2>2, <2>3
<1>4. q \in Nat /\ (d % 2 = 0 => d = 2 * q) /\ d % 2 \in {0, 1}
  <2> HIDE DEF d
  <2>1. d % 2 \in Int /\ 0 <= d % 2 /\ d % 2 < 2 /\ d = 2 * q + (d % 2) /\ q \in Nat
    BY <1>2, DivMod, Quotient
  <2> HIDE DEF q
  <2> QED
    BY <2>1
<1>5. IsOddWave(c, v) <=> d % 2 = 1
  BY DEF IsOddWave
<1>6. GridSize(c) = (n - 1) * s + s
  BY DEF GridSize, EvenWaves
<1>7. /\ g * s \in Nat /\ (n - 1) * s \in Nat /\ g * s <= (n - 1) * s
  <2> HIDE DEF s, n, g
  <2>1. s * g <= s * (n - 1)
    BY <1>1, ProductGrows
  <2> QED
    BY <1>1, <2>1
<1>8. WorkItems(c) = 0..(GridSize(c) - 1) /\ GridSize(c) \in Nat
  BY GeometryTypes DEF WorkItems
<1>9. ASSUME ~IsOddWave(c, v)
      PROVE  /\ v + w \in WorkItems(c) /\ IsOddWave(c, v + w)
             /\ GroupOf(c, v + w) = GroupOf(c, v)
  <2>1. d = 2 * q
    BY <1>4, <1>5, <1>9
  <2>2. w * d = ww * q
    <3> HIDE DEF w, d, q
    <3> QED
      BY <1>1, <1>4, <2>1
  <2>3. f = ww * q + l
    BY <1>2, <2>2
  <2>4. ww * q \in Nat /\ ww * h \in Nat
    <3> HIDE DEF ww, q, h
    <3> QED
      BY <1>3, <1>4
  <2>5. q < h
    <3> SUFFICES ASSUME h <= q PROVE FALSE
      <4> HIDE DEF q, h
      <4> QED
        BY <1>3, <1>4
    <3> HIDE DEF ww, q, h, s, f, l
    <3>1. ww * h <= ww * q
      BY <1>3, <1>4, ProductGrows
    <3> QED
      BY <1>1, <1>2, <1>3, <2>3, <2>4, <3>1
  <2>6. ww * (q + 1) <= s /\ ww * (q + 1) = ww * q + ww
    <3> HIDE DEF ww, q, h, s
    <3>1. q + 1 <= h /\ q + 1 \in Nat
      BY <1>3, <1>4, <2>5
    <3>2. ww * (q + 1) <= ww * h
      BY <1>3, <3>1, ProductGrows
    <3> QED
      BY <1>3, <1>4, <3>2
  <2>7. f + w < s /\ f + w \in Nat
    <3> HIDE DEF q, h, s, f, l, w
    <3>1. ww = 2 * w
      OBVIOUS
    <3> HIDE DEF ww
    <3> QED
      BY <1>1, <1>2, <2>3, <2>4, <2>6, <3>1
  <2>8. f + w = w * (d + 1) + l
    <3> HIDE DEF f, w, d, l
    <3> QED
      BY <1>1, <1>2
  <2>9. v + w = g * s + (w * (d + 1) + l) /\ v + w \in Int
    <3> HIDE DEF f, w, d, l, g, s
    <3>1. v + w = (g * s + f) + w
      BY <1>1
    <3>2. g * s \in Int
      BY <1>1
    <3>3. v + w = g * s + (f + w)
      BY <1>1, <3>1, <3>2
    <3> QED
      BY <1>1, <2>8, <3>3
  <2>10. GroupOf(c, v + w) = g /\ WaveInGroup(c, v + w) = d + 1
    <3>1. 0 <= w * (d + 1) + l /\ w * (d + 1) + l < s /\ d + 1 \in Int /\ l \in Int /\ 0 <= l /\ l < w
      BY <1>2, <2>7, <2>8
    <3>2. PICK x \in Int : x = v + w
      BY <2>9
    <3>3. PICK e \in Int, y \in Int : e = d + 1 /\ y = l
      BY <3>1
    <3>4. x = g * s + (w * e + y) /\ 0 <= w * e + y /\ w * e + y < s /\ 0 <= y /\ y < w
      BY <2>9, <3>1, <3>2, <3>3
    <3>6. PlacedAt(c, v, x, e, y)
      BY <3>4 DEF PlacedAt
    <3> HIDE DEF d, l
    <3>5. GroupOf(c, x) = g /\ WaveInGroup(c, x) = e
      BY <3>6, PlaceIs
    <3> QED
      BY <3>2, <3>3, <3>5
  <2>11. (d + 1) % 2 = 1
    <3> HIDE DEF d, q
    <3> QED
      BY <1>4, <2>1
  <2>12. v + w \in WorkItems(c)
    <3>1. v + w < GridSize(c)
      <4> HIDE DEF f, w, d, l, g, s, n
      <4> QED
        BY <1>1, <1>6, <1>7, <2>7
    <3> HIDE DEF w
    <3> QED
      BY <1>1, <1>8, <3>1
  <2> QED
    BY <2>10, <2>11, <2>12 DEF IsOddWave
<1>10. ASSUME IsOddWave(c, v)
       PROVE  v - w \in WorkItems(c) /\ ~IsOddWave(c, v - w) /\ (v - w) + w = v
  <2>1. d % 2 = 1 /\ d # 0 /\ d - 1 \in Nat
    <3>1. d % 2 = 1
      BY <1>5, <1>10
    <3> HIDE DEF d
    <3> QED
      BY <1>2, <3>1
  <2>2. f - w = w * (d - 1) + l /\ f - w \in Nat /\ f - w < s
    <3> HIDE DEF f, w, d, l, s
    <3>1. w * (d - 1) \in Nat /\ w * (d - 1) = w * d - w
      BY <1>1, <1>2, <2>1
    <3> QED
      BY <1>1, <1>2, <3>1
  <2>3. v - w = g * s + (w * (d - 1) + l) /\ v - w \in Nat
    <3> HIDE DEF f, w, d, l, g, s
    <3>1. v - w = (g * s + f) - w
      BY <1>1
    <3>2. g * s \in Nat
      BY <1>1
    <3>3. v - w = g * s + (f - w)
      BY <1>1, <3>1, <3>2
    <3> QED
      BY <2>2, <3>2, <3>3
  <2>4. WaveInGroup(c, v - w) = d - 1
    <3>1. 0 <= w * (d - 1) + l /\ w * (d - 1) + l < s /\ d - 1 \in Int /\ l \in Int /\ 0 <= l /\ l < w
      BY <1>2, <2>1, <2>2
    <3>2. PICK x \in Int : x = v - w
      BY <2>3
    <3>3. PICK e \in Int, y \in Int : e = d - 1 /\ y = l
      BY <3>1
    <3>4. x = g * s + (w * e + y) /\ 0 <= w * e + y /\ w * e + y < s /\ 0 <= y /\ y < w
      BY <2>3, <3>1, <3>2, <3>3
    <3>6. PlacedAt(c, v, x, e, y)
      BY <3>4 DEF PlacedAt
    <3> HIDE DEF d, l
    <3>5. WaveInGroup(c, x) = e
      BY <3>6, PlaceIs
    <3> QED
      BY <3>2, <3>3, <3>5
  <2>5. (d - 1) % 2 # 1
    <3> HIDE DEF d
    <3> QED
      BY <1>2, <2>1
  <2>6. v - w \in WorkItems(c) /\ (v - w) + w = v
    <3> HIDE DEF w
    <3> QED
      BY <1>1, <1>8, <2>3
  <2> QED
    BY <2>4, <2>5, <2>6 DEF IsOddWave
<1> QED
  BY <1>9, <1>10
\* What a work-item stores: an odd wavefront before it waits, an even one after.
LEMMA BasicKinds ==
  ASSUME NEW c, c.test = "basic", NEW v, NEW k \in 1..Last(c, v), NEW i, i = AtStage(c, v, k)
  PROVE  /\ i.op = "atomic" =>
               \/ IsOddWave(c, v) /\ k = 5 /\ i = AtomicStoreOp(<<"output", v>>, VALUE1)
               \/ ~IsOddWave(c, v) /\ k = 6 /\ i = AtomicStoreOp(<<"output", v>>, VALUE2)
               \/ ~IsOddWave(c, v) /\ k = 7 /\ i = AtomicStoreOp(<<"output", v + c.wave>>, VALUE2)
         /\ ~IsOddWave(c, v) /\ k \in {6, 7} => i.op = "atomic"
         /\ k \in {6, 7} => NextStage(c, v, k) = k + 1
<1> DEFINE m == Middles(c, v)  o == IsOddWave(c, v)
           a1 == AtomicStoreOp(<<"output", v>>, VALUE1)
           a2 == AtomicStoreOp(<<"output", v>>, VALUE2)
           a3 == AtomicStoreOp(<<"output", v + c.wave>>, VALUE2)
<1>0. m = (IF o THEN 6 ELSE 7) /\ m \in Nat
  BY DEF Middles
<1>1. a1.op = "atomic" /\ a2.op = "atomic" /\ a3.op = "atomic"
  BY OpOf
<1>2. /\ k \in Nat /\ k \in 1..(m + 6)
      /\ k = 1 => i = InitOp
      /\ k \in {2, m + 3, m + 5} => i = BarrierOp
      /\ k = m + 4 => i = ReleaseOp
      /\ k \in 3..(m + 2) => i = Middle(c, v, k - 2)
  BY StagesOf
<1>3. k # m + 6
  BY <1>0 DEF Last, Tail1
<1>4. Middle(c, v, k - 2) = BasicMiddle(c, v, k - 2)
  BY DEF Middle
<1>5. BasicMiddle(c, v, k - 2) =
        CASE k - 2 = 1 -> FbarOp("join")
          [] k - 2 = m -> FbarOp("leave")
          [] k - 2 = (IF o THEN 4 ELSE 3) -> FbarOp("wait")
          [] k - 2 = 3 /\ o -> a1
          [] k - 2 = 4 /\ ~o -> a2
          [] k - 2 = 5 /\ ~o -> a3
          [] OTHER -> BarrierOp
  BY DEF BasicMiddle
<1>6. \A kind : FbarOp(kind).op = "fbar"
  BY DEF FbarOp
<1> DEFINE j1 == FbarOp("join")  j2 == FbarOp("leave")  j3 == FbarOp("wait")
<1>7. j1.op = "fbar" /\ j2.op = "fbar" /\ j3.op = "fbar"
  BY <1>6
<1>8. k \in {6, 7} => NextStage(c, v, k) = k + 1
  BY <1>0, <1>2 DEF NextStage
<1> HIDE DEF a1, a2, a3, o, m, j1, j2, j3
<1>9. k \in 3..(m + 2) =>
        /\ i.op = "atomic" => \/ o /\ k = 5 /\ i = a1
                              \/ ~o /\ k = 6 /\ i = a2
                              \/ ~o /\ k = 7 /\ i = a3
        /\ ~o /\ k \in {6, 7} => i.op = "atomic"
  <2> SUFFICES ASSUME k \in 3..(m + 2)
               PROVE  /\ i.op = "atomic" => \/ o /\ k = 5 /\ i = a1
                                            \/ ~o /\ k = 6 /\ i = a2
                                            \/ ~o /\ k = 7 /\ i = a3
                      /\ ~o /\ k \in {6, 7} => i.op = "atomic"
    OBVIOUS
  <2>1. BarrierOp.op = "barrier"
    BY DEF BarrierOp
  <2>2. i = BasicMiddle(c, v, k - 2)
    BY <1>2, <1>4
  <2>3. CASE o
    <3>1. m = 6 /\ k \in {3, 4, 5, 6, 7, 8}
      BY <1>0, <1>2, <2>3
    <3>2. /\ k = 3 => i = j1
          /\ k = 8 => i = j2
          /\ k = 6 => i = j3
          /\ k = 5 => i = a1
          /\ k \in {4, 7} => i = BarrierOp
      BY <1>5, <2>2, <2>3, <3>1 DEF a1, a2, a3, o, m, j1, j2, j3
    <3>3. CASE k \in {3, 4, 6, 7, 8}
      <4>1. i.op # "atomic"
        BY <1>7, <2>1, <3>2, <3>3
      <4> QED
        BY <2>3, <4>1
    <3>4. CASE k = 5
      <4>1. i = a1
        BY <3>2, <3>4
      <4> QED
        BY <2>3, <3>4, <4>1
    <3> QED
      BY <3>1, <3>3, <3>4
  <2>4. CASE ~o
    <3>1. m = 7 /\ k \in {3, 4, 5, 6, 7, 8, 9}
      BY <1>0, <1>2, <2>4
    <3>2. /\ k = 3 => i = j1
          /\ k = 9 => i = j2
          /\ k = 5 => i = j3
          /\ k = 6 => i = a2
          /\ k = 7 => i = a3
          /\ k \in {4, 8} => i = BarrierOp
      BY <1>5, <2>2, <2>4, <3>1 DEF a1, a2, a3, o, m, j1, j2, j3
    <3>3. CASE k \in {3, 4, 5, 8, 9}
      <4>1. i.op # "atomic"
        BY <1>7, <2>1, <3>2, <3>3
      <4> QED
        BY <3>3, <4>1
    <3>4. CASE k = 6
      <4>1. i = a2 /\ i.op = "atomic"
        BY <1>1, <3>2, <3>4
      <4> QED
        BY <2>4, <3>4, <4>1
    <3>5. CASE k = 7
      <4>1. i = a3 /\ i.op = "atomic"
        BY <1>1, <3>2, <3>5
      <4> QED
        BY <2>4, <3>5, <4>1
    <3> QED
      BY <3>1, <3>3, <3>4, <3>5
  <2> QED
    BY <2>3, <2>4
<1>10. k \notin 3..(m + 2) => i.op # "atomic" /\ k \notin {6, 7}
  <2>1. InitOp.op # "atomic" /\ BarrierOp.op # "atomic" /\ ReleaseOp.op # "atomic"
    BY DEF InitOp, BarrierOp, ReleaseOp
  <2>2. m \in {6, 7}
    BY <1>0
  <2> QED
    BY <1>2, <1>3, <2>1, <2>2
<1> QED
  BY <1>8, <1>9, <1>10 DEF a1, a2, a3, o

\* Who is past its wait knows that the others have stored.
LEMMA WaitedFor ==
  ASSUME NEW c \in Cases, c.test = "basic", NEW g \in Groups(c), NEW b, NEW k, GroupIs(c, g, b, k),
         NEW v \in ItemsOfGroup(c, g), NEW u \in ItemsOfGroup(c, g),
         k[v] \in {6, 7}, k[v] \in 1..Last(c, v), ~IsOddWave(c, v), IsOddWave(c, u),
         WaveOf(c, v) \notin b.waiting
  PROVE  k[u] > 6
<1>1. AtStage(c, v, k[v]) # BarrierOp
  <2>1. AtStage(c, v, k[v]).op = "atomic"
    BY BasicKinds
  <2> QED
    BY <2>1 DEF BarrierOp
<1>2. StandsWith(c, b, v, k[v]) /\ StandsWith(c, b, u, k[u])
  BY DEF GroupIs
<1>3. WaveOf(c, v) \notin b.arrived
  BY <1>1, <1>2 DEF StandsWith
<1>4. PICK r \in Nat : \A x \in ItemsOfGroup(c, g) :
         Rounds(c, x, k[x]) = IF WaveOf(c, x) \in b.arrived THEN r + 1 ELSE r
  BY DEF GroupIs
<1>5. k[v] \in Nat /\ k[u] \in Nat
  BY <1>2, MiddlesType DEF StandsWith, Last
<1>6. Rounds(c, v, k[v]) = 1
  BY <1>5, BasicPhases DEF WaitStage
<1>7. r = 1
  BY <1>3, <1>4, <1>6
<1>8. Rounds(c, u, k[u]) # 0
  BY <1>4, <1>7
<1>9. Rounds(c, u, k[u]) = IF k[u] <= 6 THEN 0 ELSE 1
  BY <1>5, BasicPhases DEF WaitStage
<1> QED
  BY <1>5, <1>8, <1>9
-----------------------------------------------------------------------------
(* What a work-item of an even wavefront has stored stays: in the next       *)
(* wavefront the one that it overwrites has stored before.                   *)
InPairs(c) == c.test = "basic" /\ EvenWaves(c)

Holds(a) == a \in DOMAIN mem /\ mem[a] = VALUE2
StoredBy(v, x) ==
    /\ K(v) > 6 => Holds(<<"output", v>>)
    /\ K(v) > 7 => Holds(<<"output", x>>) /\ K(x) > 6
BasicInv ==
    \A v, x \in WorkItems(case) :
        ~IsOddWave(case, v) /\ x = v + case.wave => StoredBy(v, x)

LEMMA Partners ==
  ASSUME NEW c \in Cases, InPairs(c), NEW v \in WorkItems(c)
  PROVE  /\ ~IsOddWave(c, v) =>
               \E x \in WorkItems(c) :
                  x = v + c.wave /\ IsOddWave(c, x) /\ GroupOf(c, x) = GroupOf(c, v)
         /\ IsOddWave(c, v) =>
               \E x \in WorkItems(c) : v = x + c.wave /\ ~IsOddWave(c, x)
<1>1. EvenWaves(c)
  BY DEF InPairs
<1>2. /\ ~IsOddWave(c, v) =>
            /\ v + c.wave \in WorkItems(c) /\ IsOddWave(c, v + c.wave)
            /\ GroupOf(c, v + c.wave) = GroupOf(c, v)
      /\ IsOddWave(c, v) =>
            /\ v - c.wave \in WorkItems(c) /\ ~IsOddWave(c, v - c.wave)
            /\ (v - c.wave) + c.wave = v
  BY <1>1, WaveAfter
<1> QED
  BY <1>2

LEMMA StageGrows ==
  ASSUME NEW c, c.test = "basic", NEW v, NEW k \in 1..Last(c, v), NEW n, n = NextStage(c, v, k)
  PROVE  n \in Nat /\ k \in Nat /\ n > k /\ (n > 6 => k >= 6) /\ (n > 7 => k >= 7)
<1> DEFINE m == Middles(c, v)
<1>1. m \in {6, 7} /\ k \in Nat
  BY DEF Middles, Last, Tail1
<1>2. n = IF k = m + 3 /\ ~LeadsGroup(c, v) THEN k + 2 ELSE k + 1
  BY DEF NextStage
<1> HIDE DEF m
<1> QED
  BY <1>1, <1>2

\* A step that stores nothing.
LEMMA PairsStay ==
  ASSUME Basic, InPairs(case), InStepInv, BasicInv, case' = case, mem' = mem, NEW W,
         \A v \in WorkItems(case) : K(v)' = IF v \in W THEN NextStage(case, v, K(v)) ELSE K(v),
         \A v \in WorkItems(case) :
            v \in W => K(v) \in 1..Last(case, v) /\ AtStage(case, v, K(v)).op # "atomic"
  PROVE  BasicInv'
<1> SUFFICES ASSUME NEW v \in WorkItems(case), NEW x \in WorkItems(case),
                    ~IsOddWave(case, v), x = v + case.wave
             PROVE  StoredBy(v, x)'
  BY DEF BasicInv
<1>1. case.test = "basic"
  BY DEF InPairs
<1>2. StoredBy(v, x)
  BY DEF BasicInv
<1>3. /\ K(v)' > 6 => K(v) > 6
      /\ K(v)' > 7 => K(v) > 7
  <2>1. CASE v \notin W
    BY <2>1
  <2>2. CASE v \in W
    <3>1. K(v) \in 1..Last(case, v) /\ AtStage(case, v, K(v)).op # "atomic"
      BY <2>2
    <3>2. PICK k : k = K(v)
      OBVIOUS
    <3>3. PICK n : n = NextStage(case, v, k)
      OBVIOUS
    <3>4. k \notin {6, 7}
      BY <1>1, <3>1, <3>2, BasicKinds
    <3>5. n \in Nat /\ k \in Nat /\ (n > 6 => k >= 6) /\ (n > 7 => k >= 7)
      BY <1>1, <3>1, <3>2, <3>3, StageGrows
    <3>6. K(v)' = n
      BY <2>2, <3>2, <3>3
    <3> QED
      BY <3>2, <3>4, <3>5, <3>6
  <2> QED
    BY <2>1, <2>2
<1>4. K(x) > 6 => K(x)' > 6
  <2>1. CASE x \notin W
    BY <2>1
  <2>2. CASE x \in W
    <3>1. K(x) \in 1..Last(case, x)
      BY <2>2
    <3>2. PICK k : k = K(x)
      OBVIOUS
    <3>3. PICK n : n = NextStage(case, x, k)
      OBVIOUS
    <3>4. n \in Nat /\ k \in Nat /\ n > k
      BY <1>1, <3>1, <3>2, <3>3, StageGrows
    <3>5. K(x)' = n
      BY <2>2, <3>2, <3>3
    <3> QED
      BY <3>2, <3>4, <3>5
  <2> QED
    BY <2>1, <2>2
<1> QED
  BY <1>2, <1>3, <1>4 DEF StoredBy, Holds

\* An atomic store.
LEMMA StoresAtomic ==
  ASSUME Basic, InStep(case), InStepInv, NEW u \in WorkItems(case), Runs(u),
         NEW a, NEW n, a[1] # "flag", AtStage(case, u, K(u)) = AtomicStoreOp(a, n)
  PROVE  /\ a \in DOMAIN mem /\ mem' = [mem EXCEPT ![a] = n]
         /\ u \in WorkItems(case) /\ ~Blocked(u)
<1>1. ~Ended(u)
  BY RunsOn
<1>2. At(u) = AtomicStoreOp(a, n)
  BY <1>1, InStepAt
<1>3. mem' = [mem EXCEPT ![a] = n]
  BY <1>2, AtomicStores DEF AtomicStoreOp
<1>4. pc[u] \in DOMAIN Program(case, u) /\ Program(case, u)[pc[u]] = AtomicStoreOp(a, n)
  <2>1. Code(u) = ListInStep(case, u) /\ Program(case, u) = ListInStep(case, u)
    BY CodeIs, ProgramInStep
  <2>2. Len(ListInStep(case, u)) = Total(case, u) /\ Total(case, u) \in Nat
    BY ListType, MiddlesType
  <2>3. pc[u] \in Nat /\ pc[u] >= 1
    BY DEF Basic, InStepInv
  <2>4. pc[u] \in 1..Total(case, u)
    BY <1>1, <2>1, <2>2, <2>3 DEF Ended
  <2>5. pc[u] \in DOMAIN ListInStep(case, u)
    BY <2>4 DEF ListInStep
  <2> QED
    BY <1>2, <2>1, <2>5 DEF At
<1>5. AtomicStoreOp(a, n).addr = a /\ "addr" \in DOMAIN AtomicStoreOp(a, n)
  BY DEF AtomicStoreOp
<1>6. a \in Addresses(case)
  BY <1>4, <1>5, InMemory
<1>7. a \in DOMAIN mem
  BY <1>6 DEF Basic
<1>8. ~Blocked(u)
  BY DEF Runs, Load, Store, DoAtomic, LeaveLoop, InitFbarrier, ReleaseFbarrier, IsAt, CanRun
<1> QED
  BY <1>3, <1>7, <1>8

\* A store, in terms of the stages before and after it.
LEMMA PairsStore ==
  ASSUME Basic, InPairs(case), InStepInv, BasicInv, case' = case,
         NEW u \in WorkItems(case), Runs(u), K(u) \in 1..Last(case, u),
         AtStage(case, u, K(u)).op = "atomic",
         \A v \in WorkItems(case) : K(v)' = IF v = u THEN NextStage(case, v, K(v)) ELSE K(v)
  PROVE  BasicInv'
<1> SUFFICES ASSUME NEW v \in WorkItems(case), NEW x \in WorkItems(case),
                    ~IsOddWave(case, v), x = v + case.wave
             PROVE  StoredBy(v, x)'
  BY DEF BasicInv
<1>1. case.test = "basic" /\ InStep(case) /\ case \in Cases
  BY DEF InPairs, InStep, Basic
<1>2. StoredBy(v, x)
  BY DEF BasicInv
<1>3. IsOddWave(case, x) /\ GroupOf(case, x) = GroupOf(case, v) /\ v # x
  BY <1>1, Partners
<1>4. \/ IsOddWave(case, u) /\ K(u) = 5 /\ AtStage(case, u, K(u)) = AtomicStoreOp(<<"output", u>>, VALUE1)
      \/ ~IsOddWave(case, u) /\ K(u) = 6 /\ AtStage(case, u, K(u)) = AtomicStoreOp(<<"output", u>>, VALUE2)
      \/ /\ ~IsOddWave(case, u) /\ K(u) = 7
         /\ AtStage(case, u, K(u)) = AtomicStoreOp(<<"output", u + case.wave>>, VALUE2)
  BY <1>1, BasicKinds
<1>5. K(u) \in {6, 7} => NextStage(case, u, K(u)) = K(u) + 1
  BY <1>1, BasicKinds
<1>6. CASE IsOddWave(case, u) /\ K(u) = 5
  <2>1. AtStage(case, u, K(u)) = AtomicStoreOp(<<"output", u>>, VALUE1)
    BY <1>4, <1>6
  <2>2. mem' = [mem EXCEPT ![<<"output", u>>] = VALUE1]
    BY <1>1, <2>1, StoresAtomic
  <2>3. v # u /\ K(v)' = K(v) /\ <<"output", v>> # <<"output", u>>
    BY <1>6
  <2>4. K(x) > 6 => x # u /\ K(x)' = K(x) /\ <<"output", x>> # <<"output", u>>
    BY <1>6
  <2> QED
    BY <1>2, <2>2, <2>3, <2>4 DEF StoredBy, Holds
<1>7. CASE ~IsOddWave(case, u) /\ K(u) = 6
  <2>1. AtStage(case, u, K(u)) = AtomicStoreOp(<<"output", u>>, VALUE2)
    BY <1>4, <1>7
  <2>2. <<"output", u>> \in DOMAIN mem /\ mem' = [mem EXCEPT ![<<"output", u>>] = VALUE2]
    BY <1>1, <2>1, StoresAtomic
  <2>3. x # u /\ K(x)' = K(x) /\ <<"output", x>> # <<"output", u>>
    BY <1>3, <1>7
  <2>4. CASE v = u
    <3>1. K(v)' = 7
      BY <1>5, <1>7, <2>4
    <3> QED
      BY <2>2, <2>4, <3>1 DEF StoredBy, Holds
  <2>5. CASE v # u
    <3>1. K(v)' = K(v) /\ <<"output", v>> # <<"output", u>>
      BY <2>5
    <3> QED
      BY <1>2, <2>2, <2>3, <3>1 DEF StoredBy, Holds
  <2> QED
    BY <2>4, <2>5
<1>8. CASE ~IsOddWave(case, u) /\ K(u) = 7
  <2>1. PICK y \in WorkItems(case) :
           y = u + case.wave /\ IsOddWave(case, y) /\ GroupOf(case, y) = GroupOf(case, u)
    BY <1>1, <1>8, Partners
  <2>2. AtStage(case, u, K(u)) = AtomicStoreOp(<<"output", y>>, VALUE2)
    BY <1>4, <1>8, <2>1
  <2>3. /\ <<"output", y>> \in DOMAIN mem /\ mem' = [mem EXCEPT ![<<"output", y>>] = VALUE2]
        /\ ~Blocked(u)
    BY <1>1, <2>2, StoresAtomic
  <2>4. x # u /\ K(x)' = K(x)
    BY <1>3, <1>8
  <2>5. v # y /\ <<"output", v>> # <<"output", y>>
    BY <2>1
  <2>6. CASE v = u
    <3>1. K(v)' = 8 /\ x = y
      BY <1>5, <1>8, <2>1, <2>6
    <3>2. Holds(<<"output", v>>)
      BY <1>2, <1>8, <2>6 DEF StoredBy
    <3>3. K(x) > 6
      <4>1. PICK g : g = GroupOf(case, u)
        OBVIOUS
      <4>2. g \in Groups(case) /\ u \in ItemsOfGroup(case, g) /\ x \in ItemsOfGroup(case, g)
        BY <2>1, <3>1, <4>1, ItemOfItsGroup
      <4>3. PICK b : b = fbar[<<g, "fb">>]
        OBVIOUS
      <4>4. GroupIs(case, g, b, Stages)
        BY <4>2, <4>3 DEF InStepInv
      <4>5. WaveOf(case, u) \notin b.waiting
        <5>1. <<g, "fb">> \in DOMAIN fbar
          BY <1>1, <4>2, FbarrierOfGroup DEF Basic
        <5> QED
          BY <2>3, <4>3, <5>1 DEF Blocked
      <4>6. Stages[u] = K(u) /\ Stages[x] = K(x)
        BY DEF Stages
      <4>7. PICK k : k = Stages
        OBVIOUS
      <4>8. k[u] = K(u) /\ k[x] = K(x) /\ k[u] = 7 /\ k[u] \in 1..Last(case, u)
        BY <1>8, <4>6, <4>7
      <4>9. k[x] > 6
        BY <1>1, <1>3, <1>8, <4>2, <4>4, <4>5, <4>7, <4>8, WaitedFor
      <4> QED
        BY <4>8, <4>9
    <3> QED
      BY <2>3, <2>4, <2>5, <3>1, <3>2, <3>3 DEF StoredBy, Holds
  <2>7. CASE v # u
    <3>1. K(v)' = K(v)
      BY <2>7
    <3> QED
      BY <1>2, <2>3, <2>4, <2>5, <3>1 DEF StoredBy, Holds
  <2> QED
    BY <2>6, <2>7
<1> QED
  BY <1>4, <1>6, <1>7, <1>8

\* Any step.
LEMMA PairsKept ==
  ASSUME Basic, InPairs(case), InStepInv, BasicInv, [Next]_vars
  PROVE  BasicInv'
<1>0. case' = case /\ InStep(case) /\ case.test = "basic"
  BY BasicKept DEF InPairs, InStep
<1>1. CASE UNCHANGED vars
  <2>1. \A v \in WorkItems(case) : K(v)' = K(v)
    BY <1>1 DEF vars, K
  <2> QED
    BY <1>1, <2>1 DEF vars, BasicInv, StoredBy, Holds
<1>2. ASSUME NEW u \in WorkItems(case), Runs(u) PROVE BasicInv'
  <2>1. \A v \in WorkItems(case) : pc'[v] = IF v \in {u} THEN pc[v] + 1 ELSE pc[v]
    BY <1>2, RunsOn DEF Basic
  <2>2. \A v \in WorkItems(case) : K(v)' = IF v \in {u} THEN NextStage(case, v, K(v)) ELSE K(v)
    BY <1>0, <2>1, InStepMoves
  <2>3. PICK i : i = AtStage(case, u, K(u))
    OBVIOUS
  <2>4. /\ K(u) \in 1..Last(case, u)
        /\ i.op \in {"initfbar", "releasefbar", "st", "atomic"}
        /\ i.op \in {"initfbar", "releasefbar"} => mem' = mem
        /\ i.op # "st"
    BY <1>0, <1>2, <2>3, RunsInStep
  <2>5. CASE i.op = "atomic"
    BY <1>0, <1>2, <2>2, <2>3, <2>4, <2>5, PairsStore
  <2>6. CASE i.op # "atomic"
    <3>1. mem' = mem
      BY <2>4, <2>6
    <3>2. \A v \in WorkItems(case) :
             v \in {u} => K(v) \in 1..Last(case, v) /\ AtStage(case, v, K(v)).op # "atomic"
      BY <2>3, <2>4, <2>6
    <3> QED
      BY <1>0, <2>2, <3>1, <3>2, PairsStay
  <2> QED
    BY <2>5, <2>6
<1>3. ASSUME NEW g \in Groups(case), DoBarrier(g) PROVE BasicInv'
  <2>1. /\ \A v \in WorkItems(case) :
              pc'[v] = IF GroupOf(case, v) = g THEN pc[v] + 1 ELSE pc[v]
        /\ \A v \in WorkItems(case) :
              GroupOf(case, v) = g => ~Ended(v) /\ At(v).op = "barrier"
        /\ UNCHANGED <<case, regs, mem, fbar, undef>>
    BY <1>3, Gathers
  <2>2. PICK W : W = ItemsOfGroup(case, g)
    OBVIOUS
  <2>3. \A v \in WorkItems(case) : v \in W <=> GroupOf(case, v) = g
    BY <2>2 DEF ItemsOfGroup
  <2>4. \A v \in WorkItems(case) : pc'[v] = IF v \in W THEN pc[v] + 1 ELSE pc[v]
    BY <2>1, <2>3
  <2>5. \A v \in WorkItems(case) : K(v)' = IF v \in W THEN NextStage(case, v, K(v)) ELSE K(v)
    BY <1>0, <2>4, InStepMoves
  <2>6. \A v \in WorkItems(case) :
           v \in W => K(v) \in 1..Last(case, v) /\ AtStage(case, v, K(v)).op # "atomic"
    <3> SUFFICES ASSUME NEW v \in WorkItems(case), v \in W
                 PROVE  K(v) \in 1..Last(case, v) /\ AtStage(case, v, K(v)).op # "atomic"
      OBVIOUS
    <3>1. ~Ended(v) /\ At(v).op = "barrier"
      BY <2>1, <2>3
    <3> QED
      BY <1>0, <3>1, InStepAt
  <2> QED
    BY <1>0, <2>1, <2>5, <2>6, PairsStay
<1>4. ASSUME NEW w \in AllWaves(case), DoFbarrier(w) PROVE BasicInv'
  <2>1. PICK W : W = ItemsOfWave(case, w)
    OBVIOUS
  <2>2. (\A v \in W : IsAt(v, "fbar")) /\ GoOn(W) /\ mem' = mem
    BY <1>4, <2>1 DEF DoFbarrier
  <2>3. \A v \in WorkItems(case) : pc'[v] = IF v \in W THEN pc[v] + 1 ELSE pc[v]
    BY <2>2, Moves
  <2>4. \A v \in WorkItems(case) : K(v)' = IF v \in W THEN NextStage(case, v, K(v)) ELSE K(v)
    BY <1>0, <2>3, InStepMoves
  <2>5. \A v \in WorkItems(case) :
           v \in W => K(v) \in 1..Last(case, v) /\ AtStage(case, v, K(v)).op # "atomic"
    <3> SUFFICES ASSUME NEW v \in WorkItems(case), v \in W
                 PROVE  K(v) \in 1..Last(case, v) /\ AtStage(case, v, K(v)).op # "atomic"
      OBVIOUS
    <3>1. ~Ended(v) /\ At(v).op = "fbar"
      BY <2>2 DEF IsAt, CanRun
    <3> QED
      BY <1>0, <3>1, InStepAt
  <2> QED
    BY <1>0, <2>2, <2>4, <2>5, PairsStay
<1>5. ASSUME NEW w \in AllWaves(case), DoWaveBarrier(w) PROVE BasicInv'
  BY <1>0, <1>5, InStepWaveBarrier
<1> QED
  BY <1>1, <1>2, <1>3, <1>4, <1>5, Alone

\* The first state.
LEMMA PairsDispatched ==
  ASSUME Init, InPairs(case)
  PROVE  BasicInv
<1>1. \A v \in WorkItems(case) : K(v) \in {1, 2}
  <2> SUFFICES ASSUME NEW v \in WorkItems(case) PROVE K(v) \in {1, 2}
    OBVIOUS
  <2>1. K(v) = StageOf(case, v, 1)
    BY DEF Init, K
  <2>2. Middles(case, v) \in Nat
    BY MiddlesType
  <2> QED
    BY <2>1, <2>2 DEF StageOf
<1> QED
  BY <1>1 DEF BasicInv, StoredBy

\* Every element of the output is of a work-item.
LEMMA OutputsInPairs ==
  ASSUME NEW c \in Cases, InPairs(c), NEW a \in Addresses(c)
  PROVE  \E v \in WorkItems(c) : a = <<"output", v>>
<1>0. c.test = "basic" /\ InStep(c)
  BY DEF InPairs, InStep
<1>1. PICK v \in WorkItems(c) :
         \E n \in DOMAIN Program(c, v) : a = Program(c, v)[n].addr /\ "addr" \in DOMAIN Program(c, v)[n]
  BY DEF Addresses, Instructions, Range
<1>2. PICK n \in 1..Total(c, v) :
         a = AtStage(c, v, StageOf(c, v, n)).addr /\ "addr" \in DOMAIN AtStage(c, v, StageOf(c, v, n))
  <2>1. Program(c, v) = ListInStep(c, v)
    BY <1>0, ProgramInStep
  <2> QED
    BY <1>1, <2>1 DEF ListInStep
<1>3. PICK k : k = StageOf(c, v, n)
  OBVIOUS
<1>4. k \in 1..Last(c, v)
  <2>1. Total(c, v) \in Nat /\ n \in Nat /\ n >= 1 /\ ~(n > Total(c, v))
    BY MiddlesType
  <2>2. k \in Nat /\ k >= 1 /\ ~(k > Last(c, v))
    BY <1>3, <2>1, StageIs
  <2>3. Last(c, v) \in Nat
    BY MiddlesType DEF Last
  <2> QED
    BY <2>2, <2>3
<1>5. PICK i : i = AtStage(c, v, k)
  OBVIOUS
<1>6. a = i.addr /\ "addr" \in DOMAIN i
  BY <1>2, <1>3, <1>5
<1>7. /\ i.op \in {"initfbar", "releasefbar", "barrier", "fbar", "st", "atomic"}
      /\ i.op = "initfbar" => i = InitOp
      /\ i.op = "releasefbar" => i = ReleaseOp
      /\ i.op = "barrier" => i = BarrierOp
  BY <1>0, <1>4, <1>5, StageOps
<1>8. i.op = "fbar" => i = FbarOp(i.kind)
  BY <1>0, <1>4, <1>5, FbarStage
<1>9. i.op # "st"
  <2>1. Middles(c, v) \in Nat /\ Last(c, v) = Middles(c, v) + 5
    BY <1>0, MiddlesType DEF Last, Tail1
  <2>2. i.op = "st" => k = Middles(c, v) + 6
    BY <1>0, <1>4, <1>5, StageKinds
  <2> QED
    BY <1>4, <2>1, <2>2
<1>10. /\ "addr" \notin DOMAIN InitOp /\ "addr" \notin DOMAIN ReleaseOp /\ "addr" \notin DOMAIN BarrierOp
       /\ \A kind : "addr" \notin DOMAIN FbarOp(kind)
  BY DEF InitOp, ReleaseOp, BarrierOp, FbarOp
<1>11. i.op = "atomic"
  BY <1>6, <1>7, <1>8, <1>9, <1>10
<1>12. \A b, n2 : AtomicStoreOp(b, n2).addr = b
  BY DEF AtomicStoreOp
<1>13. \/ i = AtomicStoreOp(<<"output", v>>, VALUE1) \/ i = AtomicStoreOp(<<"output", v>>, VALUE2)
       \/ ~IsOddWave(c, v) /\ i = AtomicStoreOp(<<"output", v + c.wave>>, VALUE2)
  BY <1>0, <1>4, <1>5, <1>11, BasicKinds
<1>14. \/ a = <<"output", v>>
       \/ ~IsOddWave(c, v) /\ a = <<"output", v + c.wave>>
  BY <1>6, <1>12, <1>13
<1> QED
  BY <1>14, Partners

LEMMA PairsResults ==
  ASSUME Basic, InPairs(case), InStepInv, BasicInv
  PROVE  ResultsExpected
<1> SUFFICES ASSUME AllEnded, NEW a \in DOMAIN Expected(case)
             PROVE  mem[a] = Expected(case)[a]
  BY DEF ResultsExpected
<1>0. case.test = "basic" /\ InStep(case) /\ case \in Cases
  BY DEF InPairs, InStep, Basic
<1>1. a \in Addresses(case) /\ a[1] = "output"
  BY DEF Expected, Basic
<1>2. PICK y \in WorkItems(case) : a = <<"output", y>>
  BY <1>0, <1>1, OutputsInPairs
<1>3. Expected(case)[a] = VALUE2
  BY <1>0 DEF Expected
<1>4. ASSUME NEW v \in WorkItems(case) PROVE K(v) > 7
  <2>1. Ended(v) /\ pc[v] >= 1
    BY DEF AllEnded, InStepInv
  <2>2. K(v) > Last(case, v) /\ K(v) \in Nat
    BY <1>0, <2>1, AtIs
  <2>3. Last(case, v) \in {11, 12}
    BY <1>0 DEF Last, Tail1, Middles
  <2> QED
    BY <2>2, <2>3
<1>5. CASE ~IsOddWave(case, y)
  <2>1. PICK x \in WorkItems(case) : x = y + case.wave
    BY <1>0, <1>5, Partners
  <2>2. StoredBy(y, x)
    BY <1>5, <2>1 DEF BasicInv
  <2>3. K(y) > 6
    <3>1. K(y) > 7 /\ K(y) \in Nat
      BY <1>0, <1>4, AtIs DEF InStepInv
    <3> QED
      BY <3>1
  <2> QED
    BY <1>2, <1>3, <2>2, <2>3 DEF StoredBy, Holds
<1>6. CASE IsOddWave(case, y)
  <2>1. PICK v \in WorkItems(case) : y = v + case.wave /\ ~IsOddWave(case, v)
    BY <1>0, <1>6, Partners
  <2>2. StoredBy(v, y) /\ K(v) > 7
    BY <1>4, <2>1 DEF BasicInv
  <2> QED
    BY <1>2, <1>3, <2>2 DEF StoredBy, Holds
<1> QED
  BY <1>5, <1>6
-----------------------------------------------------------------------------
(* The theorems.                                                            *)
\* The flags of a fence test start with a value that no work-item waits for.
FlagIsAwaited(c) ==
    \/ c.test = "fence_array" /\ c.flag \notin WorkItems(c)
    \/ c.test \in {"fence", "fence_compound"} /\ FenceIsValid(c) /\ c.flag # 1

\* The inductive invariant: of each test its own.
TestsInv ==
    /\ Basic
    /\ FlagIsAwaited(case) =>
          /\ case.test = "fence_array" => ArrayInv
          /\ case.test = "fence" => FenceInv
          /\ case.test = "fence_compound" => CompoundInv
    /\ IsCounting(case) => BarrierInv
    /\ InStep(case) => InStepInv
    /\ InPairs(case) => BasicInv

LEMMA TestsDispatched == Init => TestsInv
<1> SUFFICES ASSUME Init PROVE TestsInv
  OBVIOUS
<1>1. Basic
  BY Dispatched
<1>2. ASSUME FlagIsAwaited(case), case.test = "fence_array" PROVE ArrayInv
  BY <1>2, ArrayDispatched
<1>3. ASSUME FlagIsAwaited(case), case.test = "fence" PROVE FenceInv
  BY <1>3, FenceDispatched DEF FlagIsAwaited
<1>4. ASSUME FlagIsAwaited(case), case.test = "fence_compound" PROVE CompoundInv
  BY <1>4, CompoundDispatched DEF FlagIsAwaited
<1>5. ASSUME IsCounting(case) PROVE BarrierInv
  BY <1>5, BarrierDispatched
<1>6. ASSUME InStep(case) PROVE InStepInv
  BY <1>6, InStepDispatched
<1>7. ASSUME InPairs(case) PROVE BasicInv
  BY <1>7, PairsDispatched
<1> QED
  BY <1>1, <1>2, <1>3, <1>4, <1>5, <1>6, <1>7 DEF TestsInv

LEMMA TestsKept == TestsInv /\ [Next]_vars => TestsInv'
<1> SUFFICES ASSUME TestsInv, [Next]_vars PROVE TestsInv'
  OBVIOUS
<1>1. Basic /\ Basic' /\ case' = case
  BY BasicKept DEF TestsInv
<1>2. ASSUME FlagIsAwaited(case), case.test = "fence_array" PROVE ArrayInv'
  BY <1>1, <1>2, ArrayKept DEF TestsInv, FlagIsAwaited
<1>3. ASSUME FlagIsAwaited(case), case.test = "fence" PROVE FenceInv'
  BY <1>1, <1>3, FenceKept DEF TestsInv, FlagIsAwaited
<1>4. ASSUME FlagIsAwaited(case), case.test = "fence_compound" PROVE CompoundInv'
  BY <1>1, <1>4, CompoundKept DEF TestsInv, FlagIsAwaited
<1>5. ASSUME IsCounting(case) PROVE BarrierInv'
  BY <1>1, <1>5, BarrierKept DEF TestsInv
<1>6. ASSUME InStep(case) PROVE InStepInv'
  BY <1>1, <1>6, InStepKept DEF TestsInv
<1>7. ASSUME InPairs(case) PROVE BasicInv'
  <2>1. InStep(case)
    BY <1>7 DEF InPairs, InStep
  <2> QED
    BY <1>1, <1>7, <2>1, PairsKept DEF TestsInv
<1>8. /\ FlagIsAwaited(case)' = FlagIsAwaited(case) /\ IsCounting(case)' = IsCounting(case)
      /\ InStep(case)' = InStep(case) /\ InPairs(case)' = InPairs(case)
  BY <1>1
<1> QED
  BY <1>1, <1>2, <1>3, <1>4, <1>5, <1>6, <1>7, <1>8 DEF TestsInv

LEMMA TestsInvariant == Spec => []TestsInv
BY TestsDispatched, TestsKept, PTL DEF Spec

(* A conforming agent passes the tests of memory fences, in any geometry in  *)
(* which they are generated: what the last wavefront, or each work-item, has *)
(* stored is what the work-items that saw the flag load and return           *)
(* (MemoryFenceTest, MemoryFenceCompoundTest, MemoryFenceArrayTest).         *)
THEOREM FencesExpected == Spec => [](FlagIsAwaited(case) => ResultsExpected)
<1>1. TestsInv => (FlagIsAwaited(case) => ResultsExpected)
  <2> SUFFICES ASSUME TestsInv, FlagIsAwaited(case) PROVE ResultsExpected
    OBVIOUS
  <2>1. CASE case.test = "fence_array"
    BY <2>1, ArrayResults DEF TestsInv
  <2>2. CASE case.test = "fence"
    BY <2>2, FenceResults DEF TestsInv, FlagIsAwaited
  <2>3. CASE case.test = "fence_compound"
    BY <2>3, CompoundResults DEF TestsInv, FlagIsAwaited
  <2> QED
    BY <2>1, <2>2, <2>3 DEF FlagIsAwaited
<1> QED
  BY <1>1, TestsInvariant, PTL

(* The tests of memory fences have no race: between two accesses of the data *)
(* that are not atomic, one of them a store of something new, there is a     *)
(* flag that the reader has seen.                                            *)
THEOREM FencesRaceFree == Spec => [](FlagIsAwaited(case) => NoRace)
<1>1. TestsInv => (FlagIsAwaited(case) => NoRace)
  <2> SUFFICES ASSUME TestsInv, FlagIsAwaited(case) PROVE NoRace
    OBVIOUS
  <2>1. CASE case.test = "fence_array"
    BY <2>1, ArrayRaces DEF TestsInv
  <2>2. CASE case.test = "fence"
    BY <2>2, FenceRaces DEF TestsInv, FlagIsAwaited
  <2>3. CASE case.test = "fence_compound"
    BY <2>3, CompoundRaces DEF TestsInv, FlagIsAwaited
  <2> QED
    BY <2>1, <2>2, <2>3 DEF FlagIsAwaited
<1> QED
  BY <1>1, TestsInvariant, PTL

(* A conforming agent passes BarrierTest with the operations that count or   *)
(* choose, for work-groups of any number of work-items: what every work-item *)
(* loads after the barrier is the value that ExpectedResult computes.        *)
THEOREM BarrierCounts == Spec => [](IsCounting(case) => ResultsExpected)
<1>1. TestsInv => (IsCounting(case) => ResultsExpected)
  BY BarrierResults DEF TestsInv
<1> QED
  BY <1>1, TestsInvariant, PTL

(* BarrierTest has no race: the variable is only accessed atomically, and a  *)
(* result by its own work-item.                                              *)
THEOREM BarrierRaceFree == Spec => [](IsCounting(case) => NoRace)
<1>1. TestsInv => (IsCounting(case) => NoRace)
  BY BarrierRaces DEF TestsInv
<1> QED
  BY <1>1, TestsInvariant, PTL

(* The tests of fbarriers in which every wavefront takes the same part use   *)
(* the fbarrier as the language allows, with any number of groups, work-items*)
(* and wavefronts, and of iterations (FBarrierBasicTest, LdfTest,            *)
(* FBarrierWaitRaceTest, FBarrierJoinLeaveTest, FBarrierJoinLeaveJoinTest):  *)
(* it is initialised once and released without members, a wavefront joins    *)
(* and leaves in turn, and arrives as a member that has not arrived.         *)
THEOREM FbarriersUsed == Spec => [](InStep(case) => FbarriersDefined)
<1>1. TestsInv => (InStep(case) => FbarriersDefined)
  BY DEF TestsInv, InStepInv, FbarriersDefined
<1> QED
  BY <1>1, TestsInvariant, PTL

(* These tests have no race.                                                 *)
THEOREM FbarriersRaceFree == Spec => [](InStep(case) => NoRace)
<1>1. TestsInv => (InStep(case) => NoRace)
  BY InStepRaces DEF TestsInv
<1> QED
  BY <1>1, TestsInvariant, PTL

(* A conforming agent passes these tests.  FBarrierBasicTest, in which a     *)
(* wavefront overwrites what another has stored before both met at the       *)
(* fbarrier, is made for full groups of an even number of full wavefronts.   *)
THEOREM FbarriersExpected ==
  Spec => [](InStep(case) /\ (case.test = "basic" => EvenWaves(case)) => ResultsExpected)
<1>1. TestsInv => (InStep(case) /\ (case.test = "basic" => EvenWaves(case)) => ResultsExpected)
  <2> SUFFICES ASSUME TestsInv, InStep(case), case.test = "basic" => EvenWaves(case)
               PROVE  ResultsExpected
    OBVIOUS
  <2>1. CASE case.test = "basic"
    BY <2>1, PairsResults DEF TestsInv, InPairs
  <2>2. CASE case.test # "basic"
    BY <2>2, InStepResults DEF TestsInv
  <2> QED
    BY <2>1, <2>2
<1> QED
  BY <1>1, TestsInvariant, PTL
=============================================================================
