------------------------ MODULE RuntimeObjects_proofs ------------------------
(***************************************************************************)
(* GivenBackOnce and LosesOneBlock for every kernel, agent and number of   *)
(* tests.  Data says of a context, a heap, a queue and a next handle what  *)
(* the steps keep: ids are never used twice, and what objects and the      *)
(* runtime own exists.  The lemmas of the first part each take one way in  *)
(* which the code changes them.                                            *)
(***************************************************************************)
EXTENDS RuntimeObjects, NaturalNumbers, TLAPS

Own(c) == UNION {ToSet(c[k]) : k \in DOMAIN c}
Left(c, h, q) == h \ (Own(c) \cup q)

Data(c, h, q, n) ==
    /\ n \in Nat
    /\ \A k \in DOMAIN c : c[k] \in Seq(Handles)
    /\ h \subseteq Handles /\ q \subseteq h
    /\ \A x \in h : x.id < n
    /\ \A y \in q : y.of = {}
    /\ Own(c) \subseteq h
    /\ \A x \in Own(c), y \in q : x.id # y.id
    /\ \A k, l \in DOMAIN c : \A i \in DOMAIN c[k], j \in DOMAIN c[l] :
          c[k][i].id = c[l][j].id => <<k, i>> = <<l, j>>

Inv ==
    /\ Data(context, heap, queue, next)
    /\ tests \in Nat /\ failed \subseteq 0..tests
    /\ pc = "test" => tests \notin failed
    /\ pc = "init" => heap = {} /\ DOMAIN context = {}
    /\ LosesOneBlock /\ \A x \in Lost : x.of = {}

(* What an object holds it owns.                                            *)
LEMMA OwnParts ==
    ASSUME NEW c
    PROVE  /\ \A k \in DOMAIN c : \A i \in DOMAIN c[k] : c[k][i] \in Own(c)
           /\ \A x \in Own(c) : \E k \in DOMAIN c : \E i \in DOMAIN c[k] : x = c[k][i]
  BY DEF Own, ToSet

(* QueueNoError: the queue stays, goes, or gives way to a new one.          *)
LEMMA Requeued ==
    ASSUME NEW c, NEW h, NEW q, NEW n, NEW r, NEW m \in Nat, Data(c, h, q, n), n <= m,
           \A y \in r : y \in q \/ (y \in Handles /\ y.id \in n..(m - 1) /\ y.of = {})
    PROVE  /\ Data(c, (h \ q) \cup r, r, m)
           /\ Left(c, (h \ q) \cup r, r) \subseteq Left(c, h, q)
<1> DEFINE h2 == (h \ q) \cup r
<1>1. n \in Nat /\ h \subseteq Handles /\ q \subseteq h /\ Own(c) \subseteq h
  BY DEF Data
<1>2. h2 \subseteq Handles /\ r \subseteq h2
  BY <1>1
<1>3. \A x \in h : x.id \in Nat /\ x.id < n
  BY <1>1 DEF Data, Handles
<1>4. \A x \in h2 : x.id < m
  BY <1>1, <1>3
<1>5. \A x \in Own(c) : x \notin q
  BY DEF Data
<1>6. Own(c) \subseteq h2
  BY <1>1, <1>5
<1>7. \A x \in Own(c), y \in r : x.id # y.id
  BY <1>1, <1>3 DEF Data
<1>9. \A y \in r : y.of = {}
  BY DEF Data
<1>8. Data(c, h2, r, m)
  BY <1>2, <1>4, <1>6, <1>7, <1>9 DEF Data
<1> QED BY <1>8 DEF Left

(* Context::Move: the new parts replace what the key held.                  *)
New(parts, h, m) ==
    /\ parts \in Seq(Handles)
    /\ \A i \in DOMAIN parts : parts[i].id < m /\ \A x \in h : x.id # parts[i].id
    /\ \A i, j \in DOMAIN parts : parts[i].id = parts[j].id => i = j
Places(d, c, key, parts) ==
    /\ DOMAIN d = DOMAIN c \cup {key} /\ d[key] = parts
    /\ \A k \in DOMAIN c : k # key => d[k] = c[k]
Held(c, key) == IF key \in DOMAIN c THEN ToSet(c[key]) ELSE {}

LEMMA Placed ==
    ASSUME NEW c, NEW h, NEW q, NEW n, NEW m \in Nat, Data(c, h, q, n), n <= m,
           NEW key, NEW parts, New(parts, h, m), NEW d, Places(d, c, key, parts)
    PROVE  /\ Data(d, (h \ Held(c, key)) \cup ToSet(parts), q, m)
           /\ Left(d, (h \ Held(c, key)) \cup ToSet(parts), q) \subseteq Left(c, h, q)
<1> DEFINE old == Held(c, key)  h2 == (h \ old) \cup ToSet(parts)
<1> USE DEF New, Places, Held
<1>1. n \in Nat /\ h \subseteq Handles /\ q \subseteq h /\ Own(c) \subseteq h
  BY DEF Data
<1>2. /\ DOMAIN d = DOMAIN c \cup {key} /\ d[key] = parts
      /\ \A k \in DOMAIN c : k # key => d[k] = c[k]
  OBVIOUS
<1>3. \A x \in ToSet(parts) : x \in Handles /\ x.id < m /\ \A y \in h : y.id # x.id
  <2> SUFFICES ASSUME NEW i \in DOMAIN parts PROVE parts[i] \in Handles
    BY DEF ToSet
  <2> QED OBVIOUS
<1>4. \A x \in h : x.id \in Nat /\ x.id < n
  BY <1>1 DEF Data, Handles
<1>5. old \subseteq Own(c)
  BY DEF Own
<1>6. \A x \in Own(d) : x \in ToSet(parts) \/ (x \in Own(c) /\ x \notin old)
  <2> SUFFICES ASSUME NEW x \in Own(d), x \notin ToSet(parts)
               PROVE  x \in Own(c) /\ x \notin old
    OBVIOUS
  <2>0. PICK k \in DOMAIN d : \E i \in DOMAIN d[k] : x = d[k][i]
    BY OwnParts
  <2>1. PICK i \in DOMAIN d[k] : x = d[k][i]
    BY <2>0
  <2>2. k # key /\ k \in DOMAIN c /\ d[k] = c[k]
    BY <1>2, <2>1 DEF ToSet
  <2>3. x \in Own(c)
    BY <2>1, <2>2, OwnParts
  <2>4. ASSUME x \in old PROVE FALSE
    <3>1. PICK j \in DOMAIN c[key] : key \in DOMAIN c /\ c[key][j] = x
      BY <2>4 DEF ToSet
    <3> QED BY <2>1, <2>2, <3>1 DEF Data
  <2> QED BY <2>3, <2>4
<1>7. \A x \in Own(c) : x \in Own(d) \/ x \in old
  <2> SUFFICES ASSUME NEW k \in DOMAIN c, NEW i \in DOMAIN c[k], k # key
               PROVE  c[k][i] \in Own(d)
    BY OwnParts DEF ToSet
  <2> QED BY <1>2, OwnParts
<1>8. ToSet(parts) \subseteq Own(d)
  BY <1>2, OwnParts DEF ToSet
<1>9. h2 \subseteq Handles /\ q \subseteq h2 /\ Own(d) \subseteq h2
  <2>1. q \cap old = {}
    BY <1>5 DEF Data
  <2> QED BY <1>1, <1>3, <1>6, <2>1
<1>10. \A x \in h2 : x.id < m
  BY <1>1, <1>3, <1>4
<1>11. \A x \in Own(d), y \in q : x.id # y.id
  BY <1>1, <1>3, <1>6 DEF Data
<1>12. \A k, l \in DOMAIN d : \A i \in DOMAIN d[k], j \in DOMAIN d[l] :
          d[k][i].id = d[l][j].id => <<k, i>> = <<l, j>>
  <2> SUFFICES ASSUME NEW k \in DOMAIN d, NEW l \in DOMAIN d,
                      NEW i \in DOMAIN d[k], NEW j \in DOMAIN d[l],
                      d[k][i].id = d[l][j].id
               PROVE  <<k, i>> = <<l, j>>
    OBVIOUS
  <2>1. CASE k = key /\ l = key
    BY <1>2, <2>1
  <2>2. CASE k = key /\ l # key
    BY <1>1, <1>2, <1>3, <2>2, OwnParts DEF ToSet
  <2>3. CASE k # key /\ l = key
    BY <1>1, <1>2, <1>3, <2>3, OwnParts DEF ToSet
  <2>4. CASE k # key /\ l # key
    BY <1>2, <2>4 DEF Data
  <2> QED BY <2>1, <2>2, <2>3, <2>4
<1>13. \A k \in DOMAIN d : d[k] \in Seq(Handles)
  BY <1>2 DEF Data
<1>14. Data(d, h2, q, m)
  BY <1>9, <1>10, <1>11, <1>12, <1>13 DEF Data
<1>15. Left(d, h2, q) \subseteq Left(c, h, q)
  BY <1>7, <1>8 DEF Left
<1> QED BY <1>14, <1>15

(* A block that nothing owns.                                               *)
LEMMA LeftBehind ==
    ASSUME NEW c, NEW h, NEW q, NEW n, NEW m \in Nat, Data(c, h, q, n), n <= m,
           NEW x \in Handles, x.id < m
    PROVE  /\ Data(c, h \cup {x}, q, m)
           /\ Left(c, h \cup {x}, q) \subseteq Left(c, h, q) \cup {x}
<1>1. \A y \in h : y.id \in Nat /\ y.id < n /\ n \in Nat
  BY DEF Data, Handles
<1>2. \A y \in h \cup {x} : y.id < m
  BY <1>1
<1> QED BY <1>2 DEF Data, Left

(* The parts of an object come to stand for more.                           *)
Deepens(d, c, key, ids) ==
    /\ key \in DOMAIN c /\ DOMAIN d = DOMAIN c
    /\ \A k \in DOMAIN c : k # key => d[k] = c[k]
    /\ d[key] = [i \in DOMAIN c[key] |-> StandsFor(c[key][i], ids)]
Deeper(h, old, ids) == (h \ old) \cup {StandsFor(x, ids) : x \in old}

LEMMA StandsForMore ==
    ASSUME NEW c, NEW h, NEW q, NEW n, Data(c, h, q, n), NEW key, NEW ids \in SUBSET Nat,
           NEW d, Deepens(d, c, key, ids)
    PROVE  /\ Data(d, Deeper(h, ToSet(c[key]), ids), q, n)
           /\ Left(d, Deeper(h, ToSet(c[key]), ids), q) \subseteq Left(c, h, q)
<1> DEFINE g == Deeper(h, ToSet(c[key]), ids)
<1> USE DEF Deepens, Deeper
<1>0. \A x \in Handles : StandsFor(x, ids) \in Handles /\ StandsFor(x, ids).id = x.id
  BY DEF StandsFor, Handles
<1>1. n \in Nat /\ h \subseteq Handles /\ q \subseteq h /\ Own(c) \subseteq h
  BY DEF Data
<1>p. /\ \A x \in h : x.id < n
      /\ \A x \in Own(c), y \in q : x.id # y.id
  BY DEF Data
<1>u. \A k, l \in DOMAIN c : \A i \in DOMAIN c[k], j \in DOMAIN c[l] :
         c[k][i].id = c[l][j].id => k = l /\ i = j
  BY DEF Data
<1>2. /\ DOMAIN d = DOMAIN c
      /\ d[key] = [i \in DOMAIN c[key] |-> StandsFor(c[key][i], ids)]
      /\ \A k \in DOMAIN c : k # key => d[k] = c[k]
  OBVIOUS
<1>3. c[key] \in Seq(Handles) /\ \A i \in DOMAIN c[key] : c[key][i] \in Handles
  BY DEF Data
<1>4. \A k \in DOMAIN d : d[k] \in Seq(Handles)
  <2>1. d[key] \in Seq(Handles)
    BY <1>0, <1>2, <1>3
  <2> QED BY <1>2, <2>1 DEF Data
<1>5. ToSet(c[key]) \subseteq Own(c) /\ ToSet(c[key]) \subseteq h
  BY <1>1 DEF Own
<1>6. \A x \in ToSet(c[key]) : StandsFor(x, ids) \in Handles /\ StandsFor(x, ids).id = x.id /\ StandsFor(x, ids) \in Own(d)
  <2> SUFFICES ASSUME NEW x \in ToSet(c[key])
               PROVE  StandsFor(x, ids) \in Handles /\ StandsFor(x, ids).id = x.id /\ StandsFor(x, ids) \in Own(d)
    OBVIOUS
  <2>1. PICK i \in DOMAIN c[key] : x = c[key][i]
    BY DEF ToSet
  <2>2. d[key][i] = StandsFor(x, ids) /\ i \in DOMAIN d[key]
    BY <1>2, <2>1
  <2>3. StandsFor(x, ids) \in Own(d)
    BY <1>2, <2>2, OwnParts
  <2> QED BY <1>0, <1>3, <2>1, <2>3
<1>7. \A x \in Own(d) : \/ x \in Own(c) /\ x \notin ToSet(c[key])
                        \/ \E y \in ToSet(c[key]) : x = StandsFor(y, ids)
  <2> SUFFICES ASSUME NEW x \in Own(d), ~\E y \in ToSet(c[key]) : x = StandsFor(y, ids)
               PROVE  x \in Own(c) /\ x \notin ToSet(c[key])
    OBVIOUS
  <2>0. PICK k \in DOMAIN d : \E i \in DOMAIN d[k] : x = d[k][i]
    BY OwnParts
  <2>1. PICK i \in DOMAIN d[k] : x = d[k][i]
    BY <2>0
  <2>2. k # key /\ k \in DOMAIN c /\ d[k] = c[k]
    BY <1>2, <2>1 DEF ToSet
  <2>3. x \in Own(c)
    BY <2>1, <2>2, OwnParts
  <2>4. ASSUME x \in ToSet(c[key]) PROVE FALSE
    <3>1. PICK j \in DOMAIN c[key] : c[key][j] = x
      BY <2>4 DEF ToSet
    <3> QED BY <2>1, <2>2, <3>1 DEF Data
  <2> QED BY <2>3, <2>4
<1>8. \A x \in Own(c) : x \in Own(d) \/ x \in ToSet(c[key])
  <2> SUFFICES ASSUME NEW x \in Own(c), x \notin ToSet(c[key]) PROVE x \in Own(d)
    OBVIOUS
  <2>0. PICK k \in DOMAIN c : \E i \in DOMAIN c[k] : x = c[k][i]
    BY OwnParts
  <2>1. PICK i \in DOMAIN c[k] : x = c[k][i]
    BY <2>0
  <2>2. k # key
    BY <2>1 DEF ToSet
  <2> QED BY <1>2, <2>1, <2>2, OwnParts
<1>9. g \subseteq Handles /\ q \subseteq g /\ Own(d) \subseteq g
  <2>1. q \cap ToSet(c[key]) = {}
    BY <1>5 DEF Data
  <2> QED BY <1>1, <1>6, <1>7, <2>1
<1>10. \A x \in g : x.id < n
  BY <1>5, <1>6, <1>p
<1>11. \A x \in Own(d), y \in q : x.id # y.id
  BY <1>5, <1>6, <1>7, <1>p
<1>12. \A k, l \in DOMAIN d : \A i \in DOMAIN d[k], j \in DOMAIN d[l] :
          d[k][i].id = d[l][j].id => <<k, i>> = <<l, j>>
  <2>1. \A k \in DOMAIN d : /\ k \in DOMAIN c /\ DOMAIN d[k] = DOMAIN c[k]
                           /\ \A i \in DOMAIN d[k] : d[k][i].id = c[k][i].id
    BY <1>0, <1>2, <1>3
  <2> QED BY <2>1, <1>u
<1>13. Data(d, g, q, n)
  BY <1>1, <1>4, <1>9, <1>10, <1>11, <1>12 DEF Data
<1>14. Left(d, g, q) \subseteq Left(c, h, q)
  BY <1>6, <1>8 DEF Left
<1> QED BY <1>13, <1>14

(* A part is given back and leaves its object.                              *)
Returns(d, c, key) ==
    /\ key \in DOMAIN c /\ c[key] # <<>> /\ DOMAIN d = DOMAIN c
    /\ \A k \in DOMAIN c : k # key => d[k] = c[k]
    /\ d[key] = Tail(c[key])

LEMMA GivenBack ==
    ASSUME NEW c, NEW h, NEW q, NEW n, Data(c, h, q, n), NEW key, NEW d, Returns(d, c, key)
    PROVE  /\ Data(d, h \ {Head(c[key])}, q, n)
           /\ Left(d, h \ {Head(c[key])}, q) \subseteq Left(c, h, q)
<1> DEFINE g == h \ {Head(c[key])}
<1> USE DEF Returns
<1>1. n \in Nat /\ h \subseteq Handles /\ q \subseteq h /\ Own(c) \subseteq h
  BY DEF Data
<1>p. /\ \A x \in h : x.id < n
      /\ \A x \in Own(c), y \in q : x.id # y.id
  BY DEF Data
<1>u. \A k, l \in DOMAIN c : \A i \in DOMAIN c[k], j \in DOMAIN c[l] :
         c[k][i].id = c[l][j].id => k = l /\ i = j
  BY DEF Data
<1>2. /\ DOMAIN d = DOMAIN c
      /\ d[key] = Tail(c[key])
      /\ \A k \in DOMAIN c : k # key => d[k] = c[k]
  OBVIOUS
<1>3. c[key] \in Seq(Handles)
  BY DEF Data
<1>4. /\ Tail(c[key]) \in Seq(Handles) /\ Head(c[key]) = c[key][1] /\ 1 \in DOMAIN c[key]
      /\ \A i \in DOMAIN Tail(c[key]) : /\ i + 1 \in DOMAIN c[key] /\ i \in Nat /\ i >= 1
                                       /\ Tail(c[key])[i] = c[key][i + 1]
      /\ \A i \in DOMAIN c[key] : i # 1 => i - 1 \in DOMAIN Tail(c[key]) /\ i - 1 + 1 = i
  BY <1>3
<1>5. \A k \in DOMAIN d : d[k] \in Seq(Handles)
  BY <1>2, <1>4 DEF Data
<1>6. Head(c[key]) \in Own(c)
  BY <1>4, OwnParts
<1>7. \A x \in Own(d) : x \in Own(c) /\ x # Head(c[key])
  <2> SUFFICES ASSUME NEW x \in Own(d) PROVE x \in Own(c) /\ x # Head(c[key])
    OBVIOUS
  <2>0. PICK k \in DOMAIN d : \E i \in DOMAIN d[k] : x = d[k][i]
    BY OwnParts
  <2>1. PICK i \in DOMAIN d[k] : x = d[k][i]
    BY <2>0
  <2>2. CASE k = key
    <3>1. i + 1 \in DOMAIN c[key] /\ x = c[key][i + 1] /\ i + 1 # 1
      BY <1>2, <1>4, <2>1, <2>2
    <3>2. x \in Own(c)
      BY <3>1, OwnParts
    <3>3. c[key][i + 1].id # c[key][1].id
      BY <1>4, <1>u, <3>1
    <3> QED BY <1>4, <3>1, <3>2, <3>3
  <2>3. CASE k # key
    <3>1. k \in DOMAIN c /\ i \in DOMAIN c[k] /\ x = c[k][i]
      BY <1>2, <2>1, <2>3
    <3>2. x \in Own(c)
      BY <3>1, OwnParts
    <3>3. c[k][i] # c[key][1]
      BY <1>4, <1>u, <2>3, <3>1
    <3> QED BY <1>4, <3>1, <3>2, <3>3
  <2> QED BY <2>2, <2>3
<1>8. \A x \in Own(c) : x \in Own(d) \/ x = Head(c[key])
  <2> SUFFICES ASSUME NEW x \in Own(c), x # Head(c[key]) PROVE x \in Own(d)
    OBVIOUS
  <2>0. PICK k \in DOMAIN c : \E i \in DOMAIN c[k] : x = c[k][i]
    BY OwnParts
  <2>1. PICK i \in DOMAIN c[k] : x = c[k][i]
    BY <2>0
  <2>2. CASE k = key
    <3>1. i - 1 \in DOMAIN d[key] /\ d[key][i - 1] = x
      BY <1>2, <1>4, <2>1, <2>2
    <3> QED BY <1>2, <3>1, OwnParts
  <2>3. CASE k # key
    BY <1>2, <2>1, <2>3, OwnParts
  <2> QED BY <2>2, <2>3
<1>9. Head(c[key]) \notin q
  BY <1>6 DEF Data
<1>10. \A k, l \in DOMAIN d : \A i \in DOMAIN d[k], j \in DOMAIN d[l] :
          d[k][i].id = d[l][j].id => <<k, i>> = <<l, j>>
  <2> DEFINE At(k, i) == IF k = key THEN i + 1 ELSE i
  <2>1. \A k \in DOMAIN d : \A i \in DOMAIN d[k] :
           k \in DOMAIN c /\ At(k, i) \in DOMAIN c[k] /\ d[k][i] = c[k][At(k, i)]
    BY <1>2, <1>4
  <2>2. \A k, l \in DOMAIN d : \A i \in DOMAIN d[k], j \in DOMAIN d[l] :
           d[k][i].id = d[l][j].id => k = l /\ At(k, i) = At(l, j)
    <3> HIDE DEF At
    <3> QED BY <2>1, <1>u
  <2> QED BY <1>2, <1>4, <2>2
<1>11. Data(d, g, q, n)
  <2>1. Own(d) \subseteq g /\ g \subseteq h /\ q \subseteq g
    BY <1>1, <1>7, <1>9
  <2> QED BY <1>1, <1>5, <1>7, <1>10, <1>p, <2>1 DEF Data
<1>12. Left(d, g, q) \subseteq Left(c, h, q)
  BY <1>8 DEF Left
<1> QED BY <1>11, <1>12

(* A key without parts leaves the context.                                  *)
Forgets(d, c, key) ==
    /\ key \in DOMAIN c => c[key] = <<>>
    /\ DOMAIN d = DOMAIN c \ {key} /\ \A k \in DOMAIN d : d[k] = c[k]

LEMMA Forgotten ==
    ASSUME NEW c, NEW h, NEW q, NEW n, Data(c, h, q, n), NEW key, NEW d, Forgets(d, c, key)
    PROVE  Data(d, h, q, n) /\ Left(d, h, q) \subseteq Left(c, h, q)
<1>1. DOMAIN d = DOMAIN c \ {key} /\ \A k \in DOMAIN d : d[k] = c[k]
  BY DEF Forgets
<1>2. Own(d) \subseteq Own(c)
  BY <1>1 DEF Own
<1>3. Own(c) \subseteq Own(d)
  <2> SUFFICES ASSUME NEW x \in Own(c) PROVE x \in Own(d)
    OBVIOUS
  <2>0. PICK k \in DOMAIN c : \E i \in DOMAIN c[k] : x = c[k][i]
    BY OwnParts
  <2>1. PICK i \in DOMAIN c[k] : x = c[k][i]
    BY <2>0
  <2>2. k # key
    BY <2>1 DEF Forgets
  <2> QED BY <1>1, <2>1, <2>2, OwnParts
<1>4. Data(d, h, q, n)
  BY <1>1, <1>2 DEF Data
<1> QED BY <1>3, <1>4 DEF Left

-----------------------------------------------------------------------------
(* Data says of the variables what GivenBackOnce does.                      *)
LEMMA DataGivenBack ==
    ASSUME Data(context, heap, queue, next)
    PROVE  GivenBackOnce /\ Lost = Left(context, heap, queue)
<1>1. Own(context) = Owned
  BY DEF Own, Owned
<1>2. Owned \subseteq heap /\ Owned \cap queue = {}
  BY <1>1 DEF Data
<1>3. \A k, l \in DOMAIN context :
         \A i \in DOMAIN context[k], j \in DOMAIN context[l] :
            context[k][i].id = context[l][j].id => <<k, i>> = <<l, j>>
  BY DEF Data
<1> QED BY <1>1, <1>2, <1>3 DEF GivenBackOnce, Left, Lost

(* Handles made now are handles with new ids, those of a command stand for  *)
(* others.                                                                  *)
LEMMA NewHandles ==
    ASSUME Inv
    PROVE  /\ \A id \in Nat, kind \in Kinds, of \in SUBSET Nat :
                 /\ Handle(id, kind, of) \in Handles
                 /\ Handle(id, kind, of).id = id /\ Handle(id, kind, of).kind = kind
                 /\ Handle(id, kind, of).test = tests /\ Handle(id, kind, of).of = of
           /\ next \in Nat /\ \A x \in heap : x.id \in Nat /\ x.id < next
           /\ cmd.from \subseteq DOMAIN context => From \in SUBSET Nat
<1>1. next \in Nat /\ \A x \in heap : x.id \in Nat /\ x.id < next
  BY DEF Inv, Data, Handles
<1>2. ASSUME cmd.from \subseteq DOMAIN context PROVE From \in SUBSET Nat
  <2>1. \A k \in DOMAIN context : \A x \in ToSet(context[k]) : x.id \in Nat
    BY <1>1 DEF Inv, Data, Own
  <2> QED BY <1>2, <2>1 DEF From, IdsOf
<1> QED BY <1>1, <1>2 DEF Inv, Handle, Handles

(* The statistics of a step that loses nothing, and of one that loses the   *)
(* first block of its test.                                                 *)
LEMMA LosesNothing ==
    ASSUME Inv, Data(context, heap, queue, next)',
           Left(context, heap, queue)' \subseteq Left(context, heap, queue),
           tests' \in Nat, failed' \subseteq 0..tests', failed \subseteq failed',
           (pc = "test" => tests \notin failed)', pc' # "init"
    PROVE  Inv'
<1>1. Lost' \subseteq Lost
  <2>1. Lost = Left(context, heap, queue) /\ Lost' = Left(context, heap, queue)'
    BY DEF Lost, Owned, Left, Own
  <2> QED BY <2>1
<1>2. LosesOneBlock'
  BY <1>1 DEF Inv, LosesOneBlock
<1>3. \A x \in Lost' : x.of = {}
  BY <1>1 DEF Inv
<1> QED BY <1>2, <1>3 DEF Inv

LEMMA LosesFirst ==
    ASSUME Inv, Data(context, heap, queue, next)', NEW x,
           Left(context, heap, queue)' \subseteq Left(context, heap, queue) \cup {x},
           x.kind = "memory", x.test = tests, x.of = {}, NEW isNA,
           pc = "test", FailsWith(isNA)
    PROVE  Inv'
<1>1. Lost' \subseteq Lost \cup {x}
  <2>1. Lost = Left(context, heap, queue) /\ Lost' = Left(context, heap, queue)'
    BY DEF Lost, Owned, Left, Own
  <2> QED BY <2>1
<1>2. pc' = "destroy" /\ failed' = failed \cup {tests} /\ tests' = tests
  BY DEF FailsWith
<1>3. \A h \in Lost : h.test # tests
  BY DEF Inv, LosesOneBlock
<1>4. LosesOneBlock'
  BY <1>1, <1>2, <1>3 DEF Inv, LosesOneBlock
<1>5. \A h \in Lost' : h.of = {}
  BY <1>1 DEF Inv
<1> QED BY <1>2, <1>4, <1>5 DEF Inv

(* A command that changes none of the objects.                              *)
LEMMA ChangesNothing ==
    ASSUME Inv, pc = "test", UNCHANGED <<context, heap, next, queue>>,
           Succeeds \/ \E isNA \in BOOLEAN : FailsWith(isNA)
    PROVE  Inv'
<1>1. /\ Data(context, heap, queue, next)'
      /\ Left(context, heap, queue)' \subseteq Left(context, heap, queue)
  BY DEF Inv, Data, Left, Own
<1>2. /\ tests' \in Nat /\ failed' \subseteq 0..tests' /\ failed \subseteq failed'
      /\ (pc = "test" => tests \notin failed)' /\ pc' # "init"
  <2>1. tests \in Nat /\ failed \subseteq 0..tests /\ tests \in 0..tests /\ tests \notin failed
    BY DEF Inv
  <2>2. CASE Succeeds
    BY <2>1, <2>2 DEF Succeeds
  <2>3. CASE \E isNA \in BOOLEAN : FailsWith(isNA)
    <3>1. pc' = "destroy" /\ failed' = failed \cup {tests} /\ tests' = tests
      BY <2>3 DEF FailsWith
    <3> QED BY <2>1, <3>1
  <2> QED BY <2>2, <2>3
<1> QED BY <1>1, <1>2, LosesNothing

(* A command that creates an object, with or without a new queue.           *)
LEMMA CreatesObject ==
    ASSUME Inv, pc = "test", Succeeds, NEW parts, NEW m \in Nat, NEW h, NEW q,
           Data(context, h, q, m), New(parts, h, m),
           Left(context, h, q) \subseteq Left(context, heap, queue),
           PutObject(cmd.key, parts), queue' = q, next' = m,
           heap' = (h \ Replaced(cmd.key)) \cup ToSet(parts)
    PROVE  Inv'
<1>1. Places(context', context, cmd.key, parts) /\ Replaced(cmd.key) = Held(context, cmd.key)
  BY DEF PutObject, Places, Replaced, Held
<1>2. m <= m
  OBVIOUS
<1>3. Data(context', heap', q, m) /\ Left(context', heap', q) \subseteq Left(context, h, q)
  BY <1>1, <1>2, Placed
<1>4. /\ Data(context, heap, queue, next)'
      /\ Left(context, heap, queue)' \subseteq Left(context, heap, queue)
  BY <1>3 DEF Data, Left, Own
<1> QED BY <1>4, LosesNothing DEF Inv, Succeeds

(* Create, with handles in a row.                                           *)
LEMMA CreateKeeps ==
    ASSUME Inv, pc = "test", Succeeds, KeepQueue, NEW parts \in Seq(Handles),
           \A i \in DOMAIN parts : parts[i].id = next + i - 1, Create(cmd.key, parts)
    PROVE  Inv'
<1> DEFINE m == next + Len(parts)
<1>1. next \in Nat /\ m \in Nat /\ next <= m /\ \A x \in heap : x.id \in Nat /\ x.id < next
  BY NewHandles
<1>2. DOMAIN parts = 1..Len(parts)
  OBVIOUS
<1>3. New(parts, heap, m)
  BY <1>1, <1>2 DEF New
<1>4. \A x \in heap : x.id < m
  BY <1>1
<1>5. Data(context, heap, queue, m)
  BY <1>1, <1>4 DEF Inv, Data
<1>6. /\ PutObject(cmd.key, parts) /\ queue' = queue /\ next' = m
      /\ heap' = (heap \ Replaced(cmd.key)) \cup ToSet(parts)
  BY DEF Create, KeepQueue
<1> HIDE DEF m
<1> QED BY <1>1, <1>3, <1>5, <1>6, CreatesObject

LEMMA CreateOneKeeps ==
    ASSUME Inv, NEW op, NEW kind \in Kinds, CreateOne(op, kind)
    PROVE  Inv'
<1> DEFINE parts == <<Handle(next, kind, From)>>
<1>1. pc = "test" /\ cmd.from \subseteq DOMAIN context /\ KeepQueue
  BY DEF CreateOne, Runs
<1>2. parts \in Seq(Handles) /\ \A i \in DOMAIN parts : parts[i].id = next + i - 1
  <2>1. next \in Nat /\ Handle(next, kind, From) \in Handles /\ Handle(next, kind, From).id = next
    BY <1>1, NewHandles
  <2> QED BY <2>1
<1>3. CASE Succeeds /\ Create(cmd.key, parts)
  BY <1>1, <1>2, <1>3, CreateKeeps
<1>4. CASE FailsWith(FALSE) /\ Keep
  BY <1>1, <1>4, ChangesNothing DEF Keep, KeepQueue
<1> QED BY <1>3, <1>4 DEF CreateOne

LEMMA CallOnlyKeeps ==
    ASSUME Inv, NEW op, CallOnly(op)
    PROVE  Inv'
  BY ChangesNothing DEF CallOnly, Keep, KeepQueue, Runs

(* BufferCreate and ImageCreate make two handles, or one.                   *)
LEMMA BufferCreateKeeps ==
    ASSUME Inv, BufferCreate
    PROVE  Inv'
<1>1. pc = "test" /\ KeepQueue
  BY DEF BufferCreate, Runs
<1>2. BufferParts \in Seq(Handles) /\ \A i \in DOMAIN BufferParts : BufferParts[i].id = next + i - 1
  <2> DEFINE a == Handle(next, "registration", {next + 1})
             b == Handle(next + 1, "block", {})
             c == Handle(next, "memory", {})
  <2>1. /\ next \in Nat /\ a \in Handles /\ b \in Handles /\ c \in Handles
        /\ a.id = next /\ b.id = next + 1 /\ c.id = next
    BY NewHandles DEF Kinds
  <2>2. BufferParts = <<a, b>> \/ BufferParts = <<c>>
    BY DEF BufferParts
  <2> HIDE DEF a, b, c
  <2>3. CASE BufferParts = <<a, b>>
    BY <2>1, <2>3
  <2>4. CASE BufferParts = <<c>>
    BY <2>1, <2>4
  <2> QED BY <2>2, <2>3, <2>4
<1>3. CASE Succeeds /\ Create(cmd.key, BufferParts)
  BY <1>1, <1>2, <1>3, CreateKeeps
<1>4. CASE FailsWith(FALSE) /\ Keep
  BY <1>1, <1>4, ChangesNothing DEF Keep, KeepQueue
<1> QED BY <1>3, <1>4 DEF BufferCreate

LEMMA ImageCreateKeeps ==
    ASSUME Inv, ImageCreate
    PROVE  Inv'
<1> DEFINE a == Handle(next, "image", {next + 1})
           b == Handle(next + 1, "memory", {})
           x == Handle(next, "memory", {})
<1>1. pc = "test" /\ KeepQueue
  BY DEF ImageCreate, Runs
<1>2. /\ next \in Nat /\ a \in Handles /\ b \in Handles /\ x \in Handles
      /\ a.id = next /\ b.id = next + 1 /\ x.id = next /\ x.kind = "memory" /\ x.test = tests /\ x.of = {}
  BY NewHandles DEF Kinds
<1>3. ImageParts = <<a, b>>
  BY DEF ImageParts
<1> HIDE DEF a, b
<1>4. ImageParts \in Seq(Handles) /\ \A i \in DOMAIN ImageParts : ImageParts[i].id = next + i - 1
  BY <1>2, <1>3
<1>5. CASE (FailsWith(TRUE) \/ FailsWith(FALSE)) /\ Keep
  BY <1>1, <1>5, ChangesNothing DEF Keep, KeepQueue
<1>6. CASE FailsWith(TRUE) /\ LoseMemory(x)
  <2> HIDE DEF x
  <2>1. next + 1 \in Nat /\ next <= next + 1 /\ x.id < next + 1
    BY <1>2
  <2>2. /\ Data(context, heap \cup {x}, queue, next + 1)
        /\ Left(context, heap \cup {x}, queue) \subseteq Left(context, heap, queue) \cup {x}
    BY <1>2, <2>1, LeftBehind DEF Inv
  <2>3. /\ Data(context, heap, queue, next)'
        /\ Left(context, heap, queue)' \subseteq Left(context, heap, queue) \cup {x}
    BY <1>1, <1>6, <2>2 DEF LoseMemory, KeepQueue, Data, Left, Own
  <2> QED BY <1>1, <1>2, <1>6, <2>3, LosesFirst
<1>7. CASE Succeeds /\ Create(cmd.key, ImageParts)
  BY <1>1, <1>4, <1>7, CreateKeeps
<1> QED BY <1>5, <1>6, <1>7 DEF ImageCreate

(* ExecutableLoadCode and DispatchArg.                                      *)
LEMMA DependsKeeps ==
    ASSUME Inv, NEW op, Runs(op), Succeeds, DependsOnMore(cmd.key), KeepQueue
    PROVE  Inv'
<1>1. pc = "test" /\ From \in SUBSET Nat /\ cmd.key \in DOMAIN context
  BY NewHandles DEF Runs, DependsOnMore
<1>2. /\ Deepens(context', context, cmd.key, From)
      /\ heap' = Deeper(heap, ToSet(context[cmd.key]), From)
      /\ next' = next /\ queue' = queue
  BY <1>1 DEF DependsOnMore, KeepQueue, Deepens, Deeper
<1>3. /\ Data(context', heap', queue, next)
      /\ Left(context', heap', queue) \subseteq Left(context, heap, queue)
  BY <1>1, <1>2, StandsForMore DEF Inv
<1>4. /\ Data(context, heap, queue, next)'
      /\ Left(context, heap, queue)' \subseteq Left(context, heap, queue)
  BY <1>2, <1>3 DEF Data, Left, Own
<1> QED BY <1>1, <1>4, LosesNothing DEF Inv, Succeeds

LEMMA DispatchCreateFailsKeeps ==
    ASSUME Inv, DispatchCreateFails
    PROVE  Inv'
  BY ChangesNothing DEF DispatchCreateFails, Keep, KeepQueue, Runs

LEMMA DispatchExecuteKeeps ==
    ASSUME Inv, DispatchExecute
    PROVE  Inv'
  BY ChangesNothing DEF DispatchExecute, Keep, KeepQueue, Runs

(* DispatchCreate, with the queue there is, a new one or none.              *)
LEMMA DispatchCreateQueuedKeeps ==
    ASSUME Inv, DispatchCreateQueued
    PROVE  Inv'
<1> DEFINE others(q) == (heap \ queue) \cup q
           m == next + 3
           x == Handle(next, "memory", {})
<1>1. PICK q \in {queue, {}, {NewQueue}} :
        /\ queue' = q
        /\ \/ /\ FailsWith(FALSE) /\ heap' = others(q)
              /\ next' = m /\ UNCHANGED <<context, keys>>
           \/ /\ FailsWith(FALSE) /\ heap' = others(q) \cup {x}
              /\ next' = m /\ UNCHANGED <<context, keys>>
           \/ /\ Succeeds
              /\ \E kernarg \in BOOLEAN :
                    /\ PutObject(cmd.key, DispatchParts(kernarg))
                    /\ heap' = (others(q) \ Replaced(cmd.key)) \cup ToSet(DispatchParts(kernarg))
              /\ next' = m
  BY DEF DispatchCreateQueued
<1>2. pc = "test" /\ From \in SUBSET Nat
  BY NewHandles DEF DispatchCreateQueued, Runs
<1>3. /\ next \in Nat /\ m \in Nat /\ next <= m /\ m <= m
      /\ \A y \in heap : y.id \in Nat /\ y.id < next
      /\ x \in Handles /\ x.id = next /\ x.kind = "memory" /\ x.test = tests /\ x.id < m
      /\ x.of = {} /\ NewQueue \in Handles /\ NewQueue.id = next + 2 /\ NewQueue.of = {}
  BY NewHandles DEF NewQueue, Kinds
<1>4. /\ Data(context, others(q), q, m)
      /\ Left(context, others(q), q) \subseteq Left(context, heap, queue)
  <2>1. \A y \in q : y \in queue \/ (y \in Handles /\ y.id \in next..(m - 1) /\ y.of = {})
    BY <1>3
  <2> HIDE DEF m
  <2> QED BY <1>3, <2>1, Requeued DEF Inv
<1>5. CASE FailsWith(FALSE) /\ heap' = others(q) /\ next' = m /\ UNCHANGED <<context, keys>>
  <2>1. /\ Data(context, heap, queue, next)'
        /\ Left(context, heap, queue)' \subseteq Left(context, heap, queue)
    BY <1>1, <1>4, <1>5 DEF Data, Left, Own
  <2>2. /\ tests' = tests /\ failed' = failed \cup {tests} /\ pc' = "destroy"
    BY <1>5 DEF FailsWith
  <2> QED BY <2>1, <2>2, LosesNothing DEF Inv
<1>6. CASE FailsWith(FALSE) /\ heap' = others(q) \cup {x} /\ next' = m /\ UNCHANGED <<context, keys>>
  <2> HIDE DEF others, m, x
  <2>1. /\ Data(context, others(q) \cup {x}, q, m)
        /\ Left(context, others(q) \cup {x}, q) \subseteq Left(context, others(q), q) \cup {x}
    BY <1>3, <1>4, LeftBehind
  <2>2. /\ Data(context, heap, queue, next)'
        /\ Left(context, heap, queue)' \subseteq Left(context, heap, queue) \cup {x}
    BY <1>1, <1>4, <1>6, <2>1 DEF Data, Left, Own
  <2> QED BY <1>2, <1>3, <1>6, <2>2, LosesFirst
<1>7. ASSUME Succeeds, NEW kernarg \in BOOLEAN, PutObject(cmd.key, DispatchParts(kernarg)),
             heap' = (others(q) \ Replaced(cmd.key)) \cup ToSet(DispatchParts(kernarg)),
             next' = m
      PROVE  Inv'
  <2> DEFINE parts == DispatchParts(kernarg)
             a == Handle(next, "memory", From)
             b == Handle(next + 1, "signal", From)
             c == Handle(next, "signal", From)
  <2>1. /\ a \in Handles /\ b \in Handles /\ c \in Handles
        /\ a.id = next /\ b.id = next + 1 /\ c.id = next
    <3>1. next \in Nat /\ next + 1 \in Nat /\ "memory" \in Kinds /\ "signal" \in Kinds
      BY <1>3 DEF Kinds
    <3> QED BY <1>2, <3>1, NewHandles
  <2>2. parts = <<a, b>> \/ parts = <<c>>
    BY DEF DispatchParts
  <2> HIDE DEF a, b, c, parts
  <2>3. \A y \in others(q) : y.id # next /\ y.id # next + 1
    BY <1>3 DEF Inv, Data
  <2>4. New(parts, others(q), m)
    <3>1. CASE parts = <<a, b>>
      BY <1>3, <2>1, <2>3, <3>1 DEF New
    <3>2. CASE parts = <<c>>
      BY <1>3, <2>1, <2>3, <3>2 DEF New
    <3> QED BY <2>2, <3>1, <3>2
  <2> HIDE DEF m, others
  <2> QED BY <1>1, <1>2, <1>3, <1>4, <1>7, <2>4, CreatesObject DEF parts
<1> QED BY <1>1, <1>5, <1>6, <1>7

(* The test has ended, or it goes on: the objects go one part at a time.    *)
LEMMA DeleteKeyKeeps ==
    ASSUME Inv, DeleteKey
    PROVE  Inv'
<1> DEFINE key == DeletedKey
<1>1. pc' = "destroy" /\ UNCHANGED <<testVars, next, queue>>
  BY DEF DeleteKey
<1>2. CASE /\ key \in DOMAIN context /\ context[key] # <<>>
           /\ heap' = heap \ {Head(context[key])}
           /\ context' = [context EXCEPT ![key] = Tail(@)]
  <2>1. Returns(context', context, key)
    BY <1>2 DEF Returns
  <2>2. Data(context', heap', queue, next) /\ Left(context', heap', queue) \subseteq Left(context, heap, queue)
    BY <1>2, <2>1, GivenBack DEF Inv
  <2>3. /\ Data(context, heap, queue, next)'
        /\ Left(context, heap, queue)' \subseteq Left(context, heap, queue)
    BY <1>1, <2>2 DEF Data, Left, Own
  <2> QED BY <1>1, <2>3, LosesNothing DEF Inv, testVars
<1>3. CASE /\ key \in DOMAIN context => context[key] = <<>>
           /\ context' = [k \in DOMAIN context \ {key} |-> context[k]]
           /\ UNCHANGED heap
  <2>1. Forgets(context', context, key)
    BY <1>3 DEF Forgets
  <2>2. Data(context', heap, queue, next) /\ Left(context', heap, queue) \subseteq Left(context, heap, queue)
    BY <2>1, Forgotten DEF Inv
  <2>3. /\ Data(context, heap, queue, next)'
        /\ Left(context, heap, queue)' \subseteq Left(context, heap, queue)
    BY <1>1, <1>3, <2>2 DEF Data, Left, Own
  <2> QED BY <1>1, <2>3, LosesNothing DEF Inv, testVars
<1> QED BY <1>2, <1>3 DEF DeleteKey

(* The steps that change none of the objects, and the queue of the runtime. *)
LEMMA OutsideKeeps ==
    ASSUME Inv, NewState \/ HsaQueueErrorCallback \/ EndScenario \/ StateDestroyed
    PROVE  Inv'
<1>1. UNCHANGED <<context, heap, next, queue, failed>> /\ pc # "init" /\ pc' # "init"
  BY DEF NewState, HsaQueueErrorCallback, EndScenario, StateDestroyed, testVars
<1>2. /\ Data(context, heap, queue, next)'
      /\ Left(context, heap, queue)' \subseteq Left(context, heap, queue)
  BY <1>1 DEF Inv, Data, Left, Own
<1>3. tests' \in Nat /\ failed' \subseteq 0..tests' /\ (pc = "test" => tests \notin failed)'
  <2>1. tests \in Nat /\ failed \subseteq 0..tests /\ (pc = "test" => tests \notin failed)
    BY DEF Inv
  <2>2. CASE NewState
    <3>1. tests' = tests + 1
      BY <2>2 DEF NewState
    <3> QED BY <1>1, <2>1, <3>1
  <2>3. CASE HsaQueueErrorCallback \/ EndScenario \/ StateDestroyed
    <3>1. tests' = tests /\ (pc' = "test" => pc = "test")
      BY <2>3 DEF HsaQueueErrorCallback, EndScenario, StateDestroyed, testVars
    <3> QED BY <1>1, <2>1, <3>1
  <2> QED BY <2>2, <2>3
<1> QED BY <1>1, <1>2, <1>3, LosesNothing

LEMMA InitRuntimeKeeps ==
    ASSUME Inv, InitFails \/ InitRuntime
    PROVE  Inv'
<1> DEFINE x == Handle(next, "queue", {})
<1>1. heap = {} /\ DOMAIN context = {} /\ queue = {} /\ next \in Nat
  BY DEF InitFails, InitRuntime, Inv, Data
<1>2. x \in Handles /\ x.id = next /\ x.of = {}
  BY <1>1, NewHandles DEF Kinds
<1>3. /\ pc' # "init" /\ pc' # "test" /\ UNCHANGED <<tests, failed, context>>
      /\ \/ UNCHANGED <<heap, next, queue>>
         \/ heap' = {x} /\ queue' = {x} /\ next' = next + 1
  BY DEF InitFails, InitRuntime, testVars
<1> HIDE DEF x
<1>4. /\ Data(context, heap, queue, next)'
      /\ Left(context, heap, queue)' \subseteq Left(context, heap, queue)
  BY <1>1, <1>2, <1>3 DEF Data, Left, Own
<1> QED BY <1>3, <1>4, LosesNothing DEF Inv

LEMMA DisposeKeeps ==
    ASSUME Inv, Dispose
    PROVE  Inv'
<1>1. /\ pc' # "init" /\ pc' # "test" /\ UNCHANGED <<tests, failed, context, next>>
      /\ \/ UNCHANGED <<heap, queue>>
         \/ heap' = heap \ queue /\ queue' = {}
  BY DEF Dispose, testVars
<1>2. /\ Data(context, heap, queue, next)'
      /\ Left(context, heap, queue)' \subseteq Left(context, heap, queue)
  BY <1>1 DEF Inv, Data, Left, Own
<1> QED BY <1>1, <1>2, LosesNothing DEF Inv
-----------------------------------------------------------------------------
LEMMA InitInv == Init => Inv
  BY DEF Init, Inv, Data, Own, LosesOneBlock, Lost

LEMMA StepInv == Inv /\ [Next]_vars => Inv'
<1> SUFFICES ASSUME Inv, [Next]_vars PROVE Inv'
  OBVIOUS
<1>1. CASE Commands
  <2>1. CASE BufferCreate \/ ImageCreate
    BY <2>1, BufferCreateKeeps, ImageCreateKeeps
  <2>2. CASE SamplerCreate \/ SignalCreate \/ QueueCreate \/ ProgramCreate \/ ProgramFinalize
              \/ ExecutableCreate
    BY <2>2, CreateOneKeeps DEF SamplerCreate, SignalCreate, QueueCreate, ProgramCreate,
       ProgramFinalize, ExecutableCreate, Kinds
  <2>3. CASE ImageImport \/ ProgramAddModule \/ ExecutableFreeze \/ BufferValidate
    BY <2>3, CallOnlyKeeps DEF ImageImport, ProgramAddModule, ExecutableFreeze, BufferValidate
  <2>4. CASE ExecutableLoadCode
    <3>1. Runs("ExecutableLoadCode") /\ KeepQueue
      BY <2>4 DEF ExecutableLoadCode
    <3>2. CASE Succeeds /\ DependsOnMore(cmd.key)
      BY <3>1, <3>2, DependsKeeps
    <3>3. CASE FailsWith(FALSE) /\ Keep
      BY <3>1, <3>3, ChangesNothing DEF Keep, KeepQueue, Runs
    <3> QED BY <2>4, <3>2, <3>3 DEF ExecutableLoadCode
  <2>5. CASE DispatchArg
    BY <2>5, DependsKeeps DEF DispatchArg
  <2>6. CASE DispatchCreateFails \/ DispatchCreateQueued \/ DispatchExecute
    BY <2>6, DispatchCreateFailsKeeps, DispatchCreateQueuedKeeps, DispatchExecuteKeeps
  <2> QED BY <1>1, <2>1, <2>2, <2>3, <2>4, <2>5, <2>6 DEF Commands
<1>2. CASE InitFails \/ InitRuntime
  BY <1>2, InitRuntimeKeeps
<1>3. CASE NewState \/ HsaQueueErrorCallback \/ EndScenario \/ StateDestroyed
  BY <1>3, OutsideKeeps
<1>4. CASE DeleteKey \/ Dispose
  BY <1>4, DeleteKeyKeeps, DisposeKeeps
<1>5. CASE UNCHANGED vars
  BY <1>5 DEF Inv, Data, Left, Own, LosesOneBlock, Lost, Owned, vars, testVars, agentVars
<1> QED BY <1>1, <1>2, <1>3, <1>4, <1>5 DEF Next

LEMMA SpecInv == Spec => []Inv
  BY InitInv, StepInv, PTL DEF Spec

(* No handle of a test is given back twice, or by two objects, and none     *)
(* that is to be given back is gone already.                                *)
THEOREM GivenBackOnceHolds == Spec => []GivenBackOnce
<1>1. Inv => GivenBackOnce
  BY DataGivenBack DEF Inv
<1> QED BY <1>1, SpecInv, PTL

(* A failed test loses one block of memory at most, the others none.        *)
THEOREM LosesOneBlockHolds == Spec => []LosesOneBlock
<1>1. Inv => LosesOneBlock
  BY DEF Inv
<1> QED BY <1>1, SpecInv, PTL
-----------------------------------------------------------------------------
(* The scenario: which commands it has and in which order.                  *)
ResourceKeys == {Resources[i].key : i \in DOMAIN Resources}
Keys == ResourceKeys \cup {"program", "code", "executable", "dispatch", "output"}
Ops == {Resources[i].op : i \in DOMAIN Resources}
        \cup {"ProgramCreate", "ProgramAddModule", "ProgramFinalize", "ExecutableCreate",
              "ExecutableLoadCode", "ExecutableFreeze", "DispatchCreate", "DispatchArg",
              "DispatchExecute", "BufferValidate"}
Commanded == [op : Ops, key : Keys, from : SUBSET Keys]

Creating == {"BufferCreate", "ImageCreate", "SamplerCreate", "SignalCreate", "QueueCreate",
             "ProgramCreate", "ProgramFinalize", "ExecutableCreate", "DispatchCreate"}

Selects(f, n) ==
    f = [i \in 0..n |-> IF i = 0 THEN <<>>
                        ELSE IF Resources[i].arg THEN Append(f[i - 1], Resources[i].key)
                        ELSE f[i - 1]]

LEMMA SelectsExists ==
    ASSUME NEW n \in Nat
    PROVE  \E f : Selects(f, n)
<1> DEFINE S == {k \in Nat : \E f : Selects(f, k)}
<1>1. 0 \in S
  <2>1. Selects([i \in 0..0 |-> <<>>], 0)
    BY DEF Selects
  <2> QED BY <2>1
<1>2. ASSUME NEW k \in Nat, k \in S
      PROVE  k + 1 \in S
  <2>1. PICK f : Selects(f, k)
    BY <1>2
  <2> DEFINE x == IF Resources[k + 1].arg THEN Append(f[k], Resources[k + 1].key) ELSE f[k]
             g == [i \in 0..(k + 1) |-> IF i = k + 1 THEN x ELSE f[i]]
  <2>2. \A i \in 0..k : f[i] = IF i = 0 THEN <<>>
                               ELSE IF Resources[i].arg THEN Append(f[i - 1], Resources[i].key)
                               ELSE f[i - 1]
    BY <2>1 DEF Selects
  <2>3. \A i \in 0..k : g[i] = f[i] /\ (i # 0 => g[i - 1] = f[i - 1])
    OBVIOUS
  <2>4. g[k + 1] = x /\ g[(k + 1) - 1] = f[k] /\ k + 1 # 0
    OBVIOUS
  <2>5. \A i \in 0..(k + 1) : i \in 0..k \/ i = k + 1
    OBVIOUS
  <2>6. ASSUME NEW i \in 0..(k + 1)
        PROVE  g[i] = IF i = 0 THEN <<>>
                      ELSE IF Resources[i].arg THEN Append(g[i - 1], Resources[i].key)
                      ELSE g[i - 1]
    <3> HIDE DEF g
    <3>1. CASE i \in 0..k
      BY <2>2, <2>3, <3>1
    <3>2. CASE i = k + 1
      BY <2>4, <3>2
    <3> QED BY <2>5, <3>1, <3>2
  <2>7. DOMAIN g = 0..(k + 1) /\ g = [i \in 0..(k + 1) |-> g[i]]
    OBVIOUS
  <2>8. Selects(g, k + 1)
    <3> HIDE DEF g
    <3> QED BY <2>6, <2>7 DEF Selects
  <2> QED BY <2>8
<1> HIDE DEF S
<1>3. Nat \subseteq S
  BY <1>1, <1>2, ByInduction
<1> QED BY <1>3 DEF S

LEMMA ArgumentsAre == Arguments[Len(Resources)] \in Seq(ResourceKeys)
<1> DEFINE n == Len(Resources)  h == CHOOSE h : Selects(h, n)
<1>1. Resources \in Seq([op : {"BufferCreate", "ImageCreate", "SamplerCreate", "SignalCreate",
                               "QueueCreate", "ImageImport"}, key : STRING, arg : BOOLEAN])
      /\ n \in Nat /\ DOMAIN Resources = 1..n
  BY ResourceAssumption
<1>2. Selects(h, n)
  BY <1>1, SelectsExists
<1>3. Arguments = h
  BY DEF Arguments, Selects
<1> HIDE DEF h
<1> DEFINE S == {k \in Nat : k <= n => h[k] \in Seq(ResourceKeys)}
<1>4. 0 \in S
  BY <1>1, <1>2 DEF Selects
<1>5. ASSUME NEW k \in Nat, k \in S
      PROVE  k + 1 \in S
  <2>1. SUFFICES ASSUME k + 1 <= n PROVE h[k + 1] \in Seq(ResourceKeys)
    OBVIOUS
  <2>2. h[k + 1] = IF Resources[k + 1].arg THEN Append(h[k], Resources[k + 1].key) ELSE h[k]
    <3>1. k + 1 \in 0..n /\ k + 1 # 0 /\ (k + 1) - 1 = k
      BY <2>1, <1>1
    <3> HIDE DEF n
    <3>2. h[k + 1] = IF k + 1 = 0 THEN <<>>
                     ELSE IF Resources[k + 1].arg THEN Append(h[(k + 1) - 1], Resources[k + 1].key)
                     ELSE h[(k + 1) - 1]
      BY <3>1, <1>2 DEF Selects
    <3> QED BY <3>1, <3>2
  <2>3. h[k] \in Seq(ResourceKeys)
    BY <1>5, <2>1, <1>1
  <2>4. Resources[k + 1].key \in ResourceKeys
    BY <2>1, <1>1 DEF ResourceKeys
  <2>5. Append(h[k], Resources[k + 1].key) \in Seq(ResourceKeys)
    BY <2>3, <2>4
  <2> QED BY <2>2, <2>3, <2>5
<1> HIDE DEF S
<1>6. Nat \subseteq S
  BY <1>4, <1>5, ByInduction
<1> QED BY <1>1, <1>3, <1>6 DEF S

(* Numbers of the commands.                                                 *)
Resourced == Len(Resources)
Args == Arguments[Len(Resources)]

Joins(u, s, t) == u = s \o t
Long(s, m) == s \in Seq(Commanded) /\ Len(s) = m

LEMMA Concatenated ==
    ASSUME NEW s, NEW t, NEW u, NEW m \in Nat, NEW k \in Nat, Long(s, m), Long(t, k), Joins(u, s, t)
    PROVE  /\ Long(u, m + k)
           /\ \A i \in 1..m : u[i] = s[i]
           /\ \A i \in 1..k : u[m + i] = t[i]
<1> HIDE DEF Commanded
<1>1. s \in Seq(Commanded) /\ t \in Seq(Commanded) /\ m = Len(s) /\ k = Len(t) /\ u = s \o t
  BY DEF Long, Joins
<1>2. s \o t \in Seq(Commanded) /\ Len(s \o t) = Len(s) + Len(t)
  BY <1>1
<1>3. \A i \in 1..Len(s) : (s \o t)[i] = s[i]
  BY <1>1
<1>4. \A i \in 1..Len(t) : (s \o t)[Len(s) + i] = t[i]
  BY <1>1
<1> QED BY <1>1, <1>2, <1>3, <1>4 DEF Long

LEMMA LongFunction ==
    ASSUME NEW m \in Nat, NEW f \in [1..m -> Commanded]
    PROVE  Long(f, m)
  BY DEF Long

LEMMA ScenarioIs ==
    /\ Resourced \in Nat /\ Len(Args) \in Nat /\ DOMAIN Resources = 1..Resourced
    /\ Args \in Seq(ResourceKeys)
    /\ Scenario \in Seq(Commanded) /\ Len(Scenario) = Resourced + Len(Args) + 9
    /\ \A i \in 1..Resourced :
          Scenario[i] = Command(Resources[i].op, Resources[i].key,
                                IF Resources[i].op = "ImageImport" THEN {Resources[i].key} ELSE {})
    /\ Scenario[Resourced + 1] = Command("ProgramCreate", "program", {})
    /\ Scenario[Resourced + 2] = Command("ProgramAddModule", "program", {"program"})
    /\ Scenario[Resourced + 3] = Command("ProgramFinalize", "code", {"program"})
    /\ Scenario[Resourced + 4] = Command("ExecutableCreate", "executable", {})
    /\ Scenario[Resourced + 5] = Command("ExecutableLoadCode", "executable", {"executable", "code"})
    /\ Scenario[Resourced + 6] = Command("ExecutableFreeze", "executable", {"executable"})
    /\ Scenario[Resourced + 7] = Command("DispatchCreate", "dispatch", {"executable"})
    /\ \A i \in 1..Len(Args) :
          Scenario[Resourced + 7 + i] = Command("DispatchArg", "dispatch", {"dispatch", Args[i]})
    /\ Scenario[Resourced + Len(Args) + 8] = Command("DispatchExecute", "dispatch", {"dispatch"})
    /\ Scenario[Resourced + Len(Args) + 9] = Command("BufferValidate", "output", {"output"})
<1> DEFINE n == Resourced  a == Len(Args)
<1>1. /\ Resources \in Seq([op : {"BufferCreate", "ImageCreate", "SamplerCreate", "SignalCreate",
                                 "QueueCreate", "ImageImport"}, key : STRING, arg : BOOLEAN])
      /\ n \in Nat /\ DOMAIN Resources = 1..n
  BY ResourceAssumption DEF Resourced
<1>2. ResourceKeys \subseteq Keys
  BY DEF Keys
<1>3. Args \in Seq(ResourceKeys) /\ a \in Nat /\ DOMAIN Args = 1..a
  BY ArgumentsAre DEF Args
<1>4. \A op \in Ops, key \in Keys, from \in SUBSET Keys : Command(op, key, from) \in Commanded
  BY DEF Command, Commanded
<1>5. /\ Long(ScenarioInit, n)
      /\ \A i \in 1..n :
            ScenarioInit[i] = Command(Resources[i].op, Resources[i].key,
                                      IF Resources[i].op = "ImageImport" THEN {Resources[i].key} ELSE {})
  <2>1. \A i \in 1..n :
           Command(Resources[i].op, Resources[i].key,
                   IF Resources[i].op = "ImageImport" THEN {Resources[i].key} ELSE {}) \in Commanded
    <3> SUFFICES ASSUME NEW i \in 1..n
                 PROVE  Command(Resources[i].op, Resources[i].key,
                          IF Resources[i].op = "ImageImport" THEN {Resources[i].key} ELSE {}) \in Commanded
      OBVIOUS
    <3>1. Resources[i].op \in Ops /\ Resources[i].key \in Keys
      BY <1>1 DEF Ops, Keys, ResourceKeys
    <3> QED BY <1>4, <3>1
  <2>2. ScenarioInit = [i \in 1..n |->
            Command(Resources[i].op, Resources[i].key,
                    IF Resources[i].op = "ImageImport" THEN {Resources[i].key} ELSE {})]
    BY <1>1 DEF ScenarioInit
  <2> HIDE DEF n
  <2>3. ScenarioInit \in [1..n -> Commanded]
    BY <2>1, <2>2
  <2>4. \A i \in 1..n :
           ScenarioInit[i] = Command(Resources[i].op, Resources[i].key,
                                     IF Resources[i].op = "ImageImport" THEN {Resources[i].key} ELSE {})
    BY <2>2
  <2> QED BY <1>1, <2>3, <2>4, LongFunction
<1> DEFINE P == ScenarioProgram
           D == << Command("DispatchCreate", "dispatch", {"executable"}) >>
           A == [i \in DOMAIN Args |-> Command("DispatchArg", "dispatch", {"dispatch", Args[i]})]
           E == ScenarioDispatch
<1>6. /\ Long(P, 6)
      /\ P[1] = Command("ProgramCreate", "program", {})
      /\ P[2] = Command("ProgramAddModule", "program", {"program"})
      /\ P[3] = Command("ProgramFinalize", "code", {"program"})
      /\ P[4] = Command("ExecutableCreate", "executable", {})
      /\ P[5] = Command("ExecutableLoadCode", "executable", {"executable", "code"})
      /\ P[6] = Command("ExecutableFreeze", "executable", {"executable"})
  <2>1. /\ Command("ProgramCreate", "program", {}) \in Commanded
        /\ Command("ProgramAddModule", "program", {"program"}) \in Commanded
        /\ Command("ProgramFinalize", "code", {"program"}) \in Commanded
        /\ Command("ExecutableCreate", "executable", {}) \in Commanded
        /\ Command("ExecutableLoadCode", "executable", {"executable", "code"}) \in Commanded
        /\ Command("ExecutableFreeze", "executable", {"executable"}) \in Commanded
    BY DEF Command, Commanded, Keys, Ops
  <2> QED BY <2>1 DEF ScenarioProgram, Long
<1>7. Long(D, 1) /\ D[1] = Command("DispatchCreate", "dispatch", {"executable"})
  <2>1. Command("DispatchCreate", "dispatch", {"executable"}) \in Commanded
    BY DEF Command, Commanded, Keys, Ops
  <2> QED BY <2>1 DEF Long
<1>8. /\ Long(A, a)
      /\ \A i \in 1..a : A[i] = Command("DispatchArg", "dispatch", {"dispatch", Args[i]})
  <2>1. \A i \in 1..a : Command("DispatchArg", "dispatch", {"dispatch", Args[i]}) \in Commanded
    <3> SUFFICES ASSUME NEW i \in 1..a
                 PROVE  Command("DispatchArg", "dispatch", {"dispatch", Args[i]}) \in Commanded
      OBVIOUS
    <3>1. Args[i] \in Keys /\ "dispatch" \in Keys /\ "DispatchArg" \in Ops
      BY <1>2, <1>3 DEF Keys, Ops
    <3> QED BY <1>4, <3>1
  <2>2. A \in [1..a -> Commanded]
    BY <1>3, <2>1
  <2> QED BY <1>3, <2>2, LongFunction
<1>9. /\ Long(E, 2)
      /\ E[1] = Command("DispatchExecute", "dispatch", {"dispatch"})
      /\ E[2] = Command("BufferValidate", "output", {"output"})
  <2>1. /\ Command("DispatchExecute", "dispatch", {"dispatch"}) \in Commanded
        /\ Command("BufferValidate", "output", {"output"}) \in Commanded
    BY DEF Command, Commanded, Keys, Ops
  <2> QED BY <2>1 DEF ScenarioDispatch, Long
<1>10. Scenario = ScenarioInit \o P \o (D \o A) \o E
  BY DEF Scenario, SetupDispatch, Args
<1> DEFINE I == ScenarioInit  s2 == I \o P  s3 == D \o A  s4 == s2 \o s3  s5 == s4 \o E
<1>a. Joins(s2, I, P) /\ Joins(s3, D, A) /\ Joins(s4, s2, s3) /\ Joins(s5, s4, E) /\ Scenario = s5
  BY <1>10 DEF Joins
<1> HIDE DEF n, a, P, D, A, E, I, s2, s3, s4, s5
<1>11. /\ Long(s2, n + 6)
       /\ \A i \in 1..n : s2[i] = I[i]
       /\ \A i \in 1..6 : s2[n + i] = P[i]
  <2>1. Long(I, n)
    BY <1>5 DEF I
  <2> QED BY <2>1, <1>1, <1>6, <1>a, Concatenated
<1>12. /\ Long(s3, 1 + a)
       /\ s3[1] = D[1] /\ \A i \in 1..a : s3[1 + i] = A[i]
  <2>1. /\ Long(s3, 1 + a)
        /\ \A i \in 1..1 : s3[i] = D[i]
        /\ \A i \in 1..a : s3[1 + i] = A[i]
    BY <1>3, <1>7, <1>8, <1>a, Concatenated
  <2> QED BY <2>1
<1>13. /\ Long(s4, n + 7 + a)
       /\ \A i \in 1..(n + 6) : s4[i] = s2[i]
       /\ \A i \in 1..(1 + a) : s4[n + 6 + i] = s3[i]
  <2> DEFINE m == n + 6  k == 1 + a
  <2>1. m \in Nat /\ k \in Nat /\ Long(s2, m) /\ Long(s3, k) /\ m + k = n + 7 + a
    BY <1>1, <1>3, <1>11, <1>12
  <2> HIDE DEF m, k
  <2>2. /\ Long(s4, m + k)
        /\ \A i \in 1..m : s4[i] = s2[i]
        /\ \A i \in 1..k : s4[m + i] = s3[i]
    BY <2>1, <1>11, <1>12, <1>a, Concatenated
  <2> QED BY <2>1, <2>2 DEF m, k
<1>14. /\ Long(s5, n + a + 9)
       /\ \A i \in 1..(n + 7 + a) : s5[i] = s4[i]
       /\ s5[n + a + 8] = E[1] /\ s5[n + a + 9] = E[2]
  <2> DEFINE m == n + 7 + a
  <2>1. m \in Nat /\ Long(s4, m) /\ m + 2 = n + a + 9 /\ m + 1 = n + a + 8
    BY <1>1, <1>3, <1>13
  <2> HIDE DEF m
  <2>2. /\ Long(s5, m + 2)
        /\ \A i \in 1..m : s5[i] = s4[i]
        /\ \A i \in 1..2 : s5[m + i] = E[i]
    BY <2>1, <1>9, <1>13, <1>a, Concatenated
  <2>3. s5[m + 1] = E[1] /\ s5[m + 2] = E[2]
    BY <2>2
  <2>4. \A i \in 1..(n + 7 + a) : s5[i] = s4[i]
    BY <2>2 DEF m
  <2> QED BY <2>1, <2>2, <2>3, <2>4
<1>15. Scenario = s5
  BY <1>a
<1>16. /\ \A i \in 1..n : s5[i] = I[i]
       /\ \A i \in 1..6 : s5[n + i] = P[i]
       /\ s5[n + 7] = D[1]
       /\ \A i \in 1..a : s5[n + 7 + i] = A[i]
  <2>1. \A i \in 1..n : s5[i] = I[i]
    BY <1>1, <1>3, <1>11, <1>13, <1>14
  <2>2. \A i \in 1..6 : s5[n + i] = P[i]
    <3> SUFFICES ASSUME NEW i \in 1..6 PROVE s5[n + i] = P[i]
      OBVIOUS
    <3>1. n + i \in 1..(n + 6) /\ n + i \in 1..(n + 7 + a)
      BY <1>1, <1>3
    <3> QED BY <3>1, <1>11, <1>13, <1>14
  <2>3. s5[n + 7] = D[1]
    <3>1. 1 \in 1..(1 + a) /\ n + 6 + 1 \in 1..(n + 7 + a) /\ n + 6 + 1 = n + 7
      BY <1>1, <1>3
    <3>2. s4[n + 6 + 1] = s3[1]
      BY <3>1, <1>13
    <3> QED BY <3>1, <3>2, <1>12, <1>14
  <2>4. \A i \in 1..a : s5[n + 7 + i] = A[i]
    <3> SUFFICES ASSUME NEW i \in 1..a PROVE s5[n + 7 + i] = A[i]
      OBVIOUS
    <3>1. /\ 1 + i \in 1..(1 + a) /\ n + 7 + i \in 1..(n + 7 + a) /\ n + 6 + (1 + i) = n + 7 + i
      BY <1>1, <1>3
    <3>2. s4[n + 6 + (1 + i)] = s3[1 + i]
      BY <3>1, <1>13
    <3> QED BY <3>1, <3>2, <1>12, <1>14
  <2> QED BY <2>1, <2>2, <2>3, <2>4
<1>17. /\ s5[n + 1] = P[1] /\ s5[n + 2] = P[2] /\ s5[n + 3] = P[3]
       /\ s5[n + 4] = P[4] /\ s5[n + 5] = P[5] /\ s5[n + 6] = P[6]
  BY <1>16
<1>18. s5 \in Seq(Commanded) /\ Len(s5) = n + a + 9
  BY <1>14 DEF Long
<1> QED BY <1>1, <1>2, <1>3, <1>5, <1>6, <1>7, <1>8, <1>9, <1>14, <1>15, <1>16, <1>17, <1>18 DEF n, a, I
-----------------------------------------------------------------------------
(* What is made from an object goes before it: of the handles that a part   *)
(* of an object was made from each is a later part of the object, or a part *)
(* of an object that was made before and is not made again while the test   *)
(* runs.                                                                    *)
Creates(j) == Scenario[j].op \in Creating
Coming == IF pc = "test"
            THEN {Scenario[j].key : j \in {s \in DOMAIN Scenario : s >= step /\ Creates(s)}}
            ELSE {}

After(ks, k, l) ==
    \E p \in DOMAIN ks : ks[p] = k /\ \A q \in DOMAIN ks : q >= p => ks[q] # l
Tied(c, ks, f, k, i, id) ==
    \/ \E j \in DOMAIN c[k] : j > i /\ c[k][j].id = id
    \/ \E l \in DOMAIN c : /\ l # k /\ l \notin f /\ After(ks, k, l)
                           /\ \E j \in DOMAIN c[l] : c[l][j].id = id
Ordered(c, ks, f) ==
    \A k \in DOMAIN c : \A i \in DOMAIN c[k] : \A id \in c[k][i].of : Tied(c, ks, f, k, i, id)

Between(j, i) == \A m \in DOMAIN Scenario : j < m /\ m < i => ~Creates(m)

Made ==
    /\ ok
    /\ \A j \in DOMAIN Scenario : j < step /\ Creates(j) => Scenario[j].key \in DOMAIN context
    /\ \A j \in DOMAIN Scenario : j < step /\ Creates(j) /\ Between(j, step) =>
          keys # <<>> /\ keys[Len(keys)] = Scenario[j].key
    /\ \A j \in DOMAIN Scenario : j < step /\ Scenario[j].op = "DispatchCreate" => queue # {}

Order ==
    /\ step \in Nat \ {0}
    /\ keys \in Seq(Keys) /\ DOMAIN context \subseteq ToSet(keys)
    /\ pc \in {"test", "destroy"} \/ keys = <<>>
    /\ Ordered(context, keys, Coming)
    /\ pc = "test" => Made
    /\ pc \in {"idle", "destroy"} /\ ok => queue # {}
    /\ fault = "no queue" => ~ok /\ pc = "dead"

LEMMA Appended ==
    ASSUME NEW ks \in Seq(Keys), NEW key \in Keys
    PROVE  /\ Append(ks, key) \in Seq(Keys) /\ Append(ks, key) # <<>>
           /\ Append(ks, key)[Len(Append(ks, key))] = key
           /\ ToSet(Append(ks, key)) = ToSet(ks) \cup {key}
           /\ \A l : l # key => After(Append(ks, key), key, l)
           /\ \A k, l : After(ks, k, l) /\ l # key => After(Append(ks, key), k, l)
<1> DEFINE e == Append(ks, key)  n == Len(ks)
<1> HIDE DEF Keys
<1>1. /\ e \in Seq(Keys) /\ Len(e) = n + 1 /\ DOMAIN e = 1..(n + 1) /\ n \in Nat /\ DOMAIN ks = 1..n
      /\ e[n + 1] = key /\ \A p \in 1..n : e[p] = ks[p]
  OBVIOUS
<1>2. n + 1 \in DOMAIN e /\ e # <<>> /\ e[Len(e)] = key
  BY <1>1
<1> HIDE DEF e
<1>3. ToSet(e) = ToSet(ks) \cup {key}
  <2>1. \A p \in DOMAIN e : p \in DOMAIN ks \/ p = n + 1
    BY <1>1
  <2>2. \A p \in DOMAIN ks : p \in DOMAIN e
    BY <1>1
  <2> QED BY <1>1, <2>1, <2>2, <1>2 DEF ToSet
<1>4. ASSUME NEW l, l # key PROVE After(e, key, l)
  <2>1. \A q \in DOMAIN e : q >= n + 1 => q = n + 1
    BY <1>1
  <2> QED BY <1>1, <1>2, <1>4, <2>1 DEF After
<1>5. ASSUME NEW k, NEW l, After(ks, k, l), l # key PROVE After(e, k, l)
  <2>1. PICK p \in DOMAIN ks : ks[p] = k /\ \A q \in DOMAIN ks : q >= p => ks[q] # l
    BY <1>5 DEF After
  <2>2. p \in DOMAIN e /\ e[p] = k
    BY <1>1, <2>1
  <2>3. \A q \in DOMAIN e : q >= p => e[q] # l
    BY <1>1, <1>5, <2>1
  <2> QED BY <2>2, <2>3 DEF After
<1> QED BY <1>1, <1>2, <1>3, <1>4, <1>5 DEF e

LEMMA LastKey ==
    ASSUME NEW ks \in Seq(Keys), ks # <<>>
    PROVE  /\ Front(ks) \in Seq(Keys)
           /\ \A k \in ToSet(ks) : k # ks[Len(ks)] => k \in ToSet(Front(ks))
           /\ \A k : ~After(ks, k, ks[Len(ks)])
           /\ \A l : l # ks[Len(ks)] => After(ks, ks[Len(ks)], l)
           /\ \A k, l : After(ks, k, l) /\ k # ks[Len(ks)] => After(Front(ks), k, l)
<1> DEFINE e == Front(ks)  n == Len(ks)
<1> HIDE DEF Keys
<1>1. /\ n \in Nat /\ n >= 1 /\ DOMAIN ks = 1..n /\ n \in DOMAIN ks
      /\ e \in Seq(Keys) /\ DOMAIN e = 1..(n - 1) /\ \A p \in 1..(n - 1) : e[p] = ks[p]
  <2>1. n \in Nat /\ n >= 1 /\ DOMAIN ks = 1..n /\ n \in DOMAIN ks
    OBVIOUS
  <2>2. e \in Seq(Keys) /\ DOMAIN e = 1..(n - 1) /\ \A p \in 1..(n - 1) : e[p] = ks[p]
    BY <2>1 DEF Front
  <2> QED BY <2>1, <2>2
<1> HIDE DEF e, n
<1>2. ASSUME NEW k \in ToSet(ks), k # ks[n] PROVE k \in ToSet(e)
  <2>1. PICK p \in DOMAIN ks : ks[p] = k
    BY DEF ToSet
  <2>2. p \in DOMAIN e /\ e[p] = k
    BY <1>1, <1>2, <2>1
  <2> QED BY <2>2 DEF ToSet
<1>3. \A k : ~After(ks, k, ks[n])
  BY <1>1 DEF After
<1>4. \A l : l # ks[n] => After(ks, ks[n], l)
  <2>1. \A q \in DOMAIN ks : q >= n => q = n
    BY <1>1
  <2> QED BY <1>1, <2>1 DEF After
<1>5. ASSUME NEW k, NEW l, After(ks, k, l), k # ks[n] PROVE After(e, k, l)
  <2>1. PICK p \in DOMAIN ks : ks[p] = k /\ \A q \in DOMAIN ks : q >= p => ks[q] # l
    BY <1>5 DEF After
  <2>2. p \in DOMAIN e /\ e[p] = k
    BY <1>1, <1>5, <2>1
  <2>3. \A q \in DOMAIN e : q >= p => e[q] # l
    BY <1>1, <2>1
  <2> QED BY <2>2, <2>3 DEF After
<1> QED BY <1>1, <1>2, <1>3, <1>4, <1>5 DEF e, n

(* Handles of other objects that `ids' names.                               *)
Names(c, f, key, ids) ==
    \A id \in ids : \E l \in DOMAIN c : /\ l # key /\ l \notin f
                                        /\ \E j \in DOMAIN c[l] : c[l][j].id = id
InParts(parts, i, id) == \E j \in DOMAIN parts : j > i /\ parts[j].id = id

LEMMA OrderedPlaced ==
    ASSUME NEW c, NEW ks \in Seq(Keys), NEW f, NEW g \in SUBSET f, Ordered(c, ks, f),
           NEW key \in Keys, key \in f, NEW parts, NEW d, Places(d, c, key, parts),
           NEW ids, Names(c, g, key, ids),
           \A i \in DOMAIN parts : \A id \in parts[i].of : InParts(parts, i, id) \/ id \in ids
    PROVE  Ordered(d, Append(ks, key), g)
<1> DEFINE e == Append(ks, key)
<1>1. /\ \A l : l # key => After(e, key, l)
      /\ \A k, l : After(ks, k, l) /\ l # key => After(e, k, l)
  BY Appended
<1> HIDE DEF e
<1>2. /\ DOMAIN d = DOMAIN c \cup {key} /\ d[key] = parts
      /\ \A k \in DOMAIN c : k # key => d[k] = c[k]
  BY DEF Places
<1> SUFFICES ASSUME NEW k \in DOMAIN d, NEW i \in DOMAIN d[k], NEW id \in d[k][i].of
             PROVE  Tied(d, e, g, k, i, id)
  BY DEF Ordered, e
<1>3. CASE k # key
  <2>1. k \in DOMAIN c /\ d[k] = c[k] /\ Tied(c, ks, f, k, i, id)
    BY <1>2, <1>3 DEF Ordered
  <2>2. CASE \E j \in DOMAIN c[k] : j > i /\ c[k][j].id = id
    BY <2>1, <2>2 DEF Tied
  <2>3. ASSUME NEW l \in DOMAIN c, l # k, l \notin f, After(ks, k, l),
               \E j \in DOMAIN c[l] : c[l][j].id = id
        PROVE  Tied(d, e, g, k, i, id)
    <3>1. l # key /\ l \in DOMAIN d /\ d[l] = c[l] /\ After(e, k, l) /\ l \notin g
      BY <1>1, <1>2, <2>3
    <3> QED BY <2>3, <3>1 DEF Tied
  <2> QED BY <2>1, <2>2, <2>3 DEF Tied
<1>4. CASE k = key
  <2>1. CASE InParts(parts, i, id)
    BY <1>2, <1>4, <2>1 DEF Tied, InParts
  <2>2. CASE id \in ids
    <3>1. PICK l \in DOMAIN c : /\ l # key /\ l \notin g
                                /\ \E j \in DOMAIN c[l] : c[l][j].id = id
      BY <2>2 DEF Names
    <3>2. l \in DOMAIN d /\ d[l] = c[l] /\ After(e, key, l)
      BY <1>1, <1>2, <3>1
    <3> QED BY <1>4, <3>1, <3>2 DEF Tied
  <2> QED BY <1>2, <1>4, <2>1, <2>2
<1> QED BY <1>3, <1>4

LEMMA OrderedDeepens ==
    ASSUME NEW c, NEW ks \in Seq(Keys), NEW f, NEW g \in SUBSET f, Ordered(c, ks, f),
           NEW key, ks # <<>>, ks[Len(ks)] = key,
           NEW ids, Names(c, g, key, ids), NEW d, Deepens(d, c, key, ids)
    PROVE  Ordered(d, ks, g)
<1>1. \A l : l # key => After(ks, key, l)
  BY LastKey
<1>2. /\ DOMAIN d = DOMAIN c /\ key \in DOMAIN c
      /\ \A k \in DOMAIN c : k # key => d[k] = c[k]
      /\ d[key] = [i \in DOMAIN c[key] |-> StandsFor(c[key][i], ids)]
  BY DEF Deepens
<1>3. \A k \in DOMAIN c : /\ DOMAIN d[k] = DOMAIN c[k]
                         /\ \A i \in DOMAIN c[k] : d[k][i].id = c[k][i].id
  BY <1>2 DEF StandsFor
<1>4. \A k \in DOMAIN c : \A i \in DOMAIN c[k] :
         \A id \in d[k][i].of : id \in c[k][i].of \/ (k = key /\ id \in ids)
  BY <1>2 DEF StandsFor
<1>5. \A k \in DOMAIN c : \A i \in DOMAIN c[k] : \A id : Tied(c, ks, f, k, i, id) => Tied(d, ks, g, k, i, id)
  BY <1>2, <1>3 DEF Tied
<1> SUFFICES ASSUME NEW k \in DOMAIN c, NEW i \in DOMAIN c[k], NEW id \in d[k][i].of
             PROVE  Tied(d, ks, g, k, i, id)
  BY <1>2, <1>3 DEF Ordered
<1>6. CASE id \in c[k][i].of
  BY <1>5, <1>6 DEF Ordered
<1>7. CASE k = key /\ id \in ids
  <2>1. PICK l \in DOMAIN c : /\ l # key /\ l \notin g
                              /\ \E j \in DOMAIN c[l] : c[l][j].id = id
    BY <1>7 DEF Names
  <2> QED BY <1>1, <1>2, <1>7, <2>1 DEF Tied
<1> QED BY <1>4, <1>6, <1>7

LEMMA OrderedGivenBack ==
    ASSUME NEW c, NEW ks \in Seq(Keys), NEW f, Ordered(c, ks, f), ks # <<>>,
           NEW d, Returns(d, c, ks[Len(ks)]), c[ks[Len(ks)]] \in Seq(Handles)
    PROVE  Ordered(d, ks, f)
<1> DEFINE key == ks[Len(ks)]
<1>1. \A k : ~After(ks, k, key)
  BY LastKey
<1> HIDE DEF key
<1>2. /\ DOMAIN d = DOMAIN c /\ key \in DOMAIN c /\ c[key] # <<>> /\ d[key] = Tail(c[key])
      /\ \A k \in DOMAIN c : k # key => d[k] = c[k]
  BY DEF Returns, key
<1>3. /\ \A i \in DOMAIN Tail(c[key]) : i \in Nat /\ i + 1 \in DOMAIN c[key] /\ Tail(c[key])[i] = c[key][i + 1]
      /\ \A i \in DOMAIN c[key] : i # 1 => i - 1 \in DOMAIN Tail(c[key]) /\ Tail(c[key])[i - 1] = c[key][i] /\ i \in Nat
  BY <1>2 DEF key
<1> SUFFICES ASSUME NEW k \in DOMAIN c, NEW i \in DOMAIN d[k], NEW id \in d[k][i].of
             PROVE  Tied(d, ks, f, k, i, id)
  BY <1>2 DEF Ordered
<1>4. ASSUME NEW l \in DOMAIN c, l # k, l \notin f, After(ks, k, l),
             \E j \in DOMAIN c[l] : c[l][j].id = id
      PROVE  Tied(d, ks, f, k, i, id)
  BY <1>1, <1>2, <1>4 DEF Tied
<1>5. CASE k = key
  <2>1. i + 1 \in DOMAIN c[k] /\ i \in Nat /\ id \in c[k][i + 1].of
    BY <1>2, <1>3, <1>5
  <2>2. Tied(c, ks, f, k, i + 1, id)
    BY <2>1 DEF Ordered
  <2>3. ASSUME NEW j \in DOMAIN c[k], j > i + 1, c[k][j].id = id PROVE Tied(d, ks, f, k, i, id)
    <3>1. j # 1 /\ j - 1 > i
      BY <1>3, <1>5, <2>1, <2>3
    <3>2. j - 1 \in DOMAIN d[k] /\ d[k][j - 1].id = id
      BY <1>2, <1>3, <1>5, <2>3, <3>1
    <3> QED BY <3>1, <3>2 DEF Tied
  <2> QED BY <1>4, <2>2, <2>3 DEF Tied
<1>6. CASE k # key
  <2>1. Tied(c, ks, f, k, i, id) /\ d[k] = c[k]
    BY <1>2, <1>6 DEF Ordered
  <2> QED BY <1>4, <2>1 DEF Tied
<1> QED BY <1>5, <1>6

LEMMA OrderedForgotten ==
    ASSUME NEW c, NEW ks \in Seq(Keys), NEW f, Ordered(c, ks, f), ks # <<>>,
           NEW d, Forgets(d, c, ks[Len(ks)])
    PROVE  Ordered(d, Front(ks), f)
<1> DEFINE key == ks[Len(ks)]  e == Front(ks)
<1>1. /\ \A k : ~After(ks, k, key)
      /\ \A k, l : After(ks, k, l) /\ k # key => After(e, k, l)
  BY LastKey
<1>2. DOMAIN d = DOMAIN c \ {key} /\ \A k \in DOMAIN d : d[k] = c[k]
  BY DEF Forgets
<1> HIDE DEF key, e
<1>3. ASSUME NEW k \in DOMAIN d, NEW i \in DOMAIN d[k], NEW id, Tied(c, ks, f, k, i, id)
      PROVE  Tied(d, e, f, k, i, id)
  BY <1>1, <1>2, <1>3 DEF Tied
<1>4. Ordered(d, e, f)
  BY <1>2, <1>3 DEF Ordered
<1> QED BY <1>4 DEF e

LEMMA OrderedLess ==
    ASSUME NEW c, NEW ks, NEW f, NEW g \in SUBSET f, Ordered(c, ks, f)
    PROVE  Ordered(c, ks, g)
  BY DEF Ordered, Tied

(* What the order of the commands gives: a command gets what was made       *)
(* before; what something is made from is not made again; a command that    *)
(* adds to an object follows the one that made it with none between that    *)
(* makes another.                                                           *)
MadeBefore(l, i) == \E j \in DOMAIN Scenario : j < i /\ Creates(j) /\ Scenario[j].key = l
MadeAfter(l, i) == \E j \in DOMAIN Scenario : j > i /\ Creates(j) /\ Scenario[j].key = l
Adding == {"ExecutableLoadCode", "DispatchArg"}

LEMMA ScenarioFields ==
    /\ Resourced \in Nat /\ Len(Args) \in Nat /\ DOMAIN Scenario = 1..(Resourced + Len(Args) + 9)
    /\ \A i \in 1..Resourced : /\ Scenario[i].op = Resources[i].op /\ Scenario[i].key = Resources[i].key
                               /\ Scenario[i].op \notin Adding /\ Scenario[i].op # "DispatchCreate"
                               /\ Creates(i) => Scenario[i].from = {}
                               /\ ~Creates(i) <=> Resources[i].op = "ImageImport"
                               /\ Scenario[i].from \subseteq {Scenario[i].key}
    /\ LET c == Scenario[Resourced + 1]
       IN  c.op = "ProgramCreate" /\ c.key = "program" /\ c.from = {} /\ Creates(Resourced + 1)
    /\ LET c == Scenario[Resourced + 2]
       IN  c.op = "ProgramAddModule" /\ c.from = {"program"} /\ ~Creates(Resourced + 2)
    /\ LET c == Scenario[Resourced + 3]
       IN  c.op = "ProgramFinalize" /\ c.key = "code" /\ c.from = {"program"} /\ Creates(Resourced + 3)
    /\ LET c == Scenario[Resourced + 4]
       IN  c.op = "ExecutableCreate" /\ c.key = "executable" /\ c.from = {} /\ Creates(Resourced + 4)
    /\ LET c == Scenario[Resourced + 5]
       IN  /\ c.op = "ExecutableLoadCode" /\ c.key = "executable"
           /\ c.from = {"executable", "code"} /\ ~Creates(Resourced + 5)
    /\ LET c == Scenario[Resourced + 6]
       IN  c.op = "ExecutableFreeze" /\ c.from = {"executable"} /\ ~Creates(Resourced + 6)
    /\ LET c == Scenario[Resourced + 7]
       IN  c.op = "DispatchCreate" /\ c.key = "dispatch" /\ c.from = {"executable"} /\ Creates(Resourced + 7)
    /\ \A i \in 1..Len(Args) :
          LET c == Scenario[Resourced + 7 + i]
          IN  /\ c.op = "DispatchArg" /\ c.key = "dispatch" /\ Args[i] \in ResourceKeys
              /\ c.from = {"dispatch", Args[i]} /\ ~Creates(Resourced + 7 + i)
    /\ LET c == Scenario[Resourced + Len(Args) + 8]
       IN  c.op = "DispatchExecute" /\ c.from = {"dispatch"} /\ ~Creates(Resourced + Len(Args) + 8)
    /\ LET c == Scenario[Resourced + Len(Args) + 9]
       IN  c.op = "BufferValidate" /\ c.from = {"output"} /\ ~Creates(Resourced + Len(Args) + 9)
<1> DEFINE n == Resourced  a == Len(Args)
<1> USE DEF Creates, Creating, Adding
<1>1. \A op, key, from : /\ Command(op, key, from).op = op /\ Command(op, key, from).key = key
                         /\ Command(op, key, from).from = from
  BY DEF Command
<1>2. n \in Nat /\ a \in Nat /\ DOMAIN Scenario = 1..(n + a + 9) /\ Args \in Seq(ResourceKeys)
      /\ DOMAIN Resources = 1..n
  <2>1. n \in Nat /\ a \in Nat /\ Scenario \in Seq(Commanded) /\ Len(Scenario) = n + a + 9
    BY ScenarioIs
  <2>2. Args \in Seq(ResourceKeys) /\ DOMAIN Resources = 1..n
    BY ScenarioIs
  <2> HIDE DEF n, a
  <2> QED BY <2>1, <2>2
<1>3. ASSUME NEW i \in 1..n
      PROVE  /\ Scenario[i].op = Resources[i].op /\ Scenario[i].key = Resources[i].key
             /\ Scenario[i].op \notin Adding /\ Scenario[i].op # "DispatchCreate"
             /\ Creates(i) => Scenario[i].from = {}
             /\ ~Creates(i) <=> Resources[i].op = "ImageImport"
             /\ Scenario[i].from \subseteq {Scenario[i].key}
  <2>1. Scenario[i] = Command(Resources[i].op, Resources[i].key,
                              IF Resources[i].op = "ImageImport" THEN {Resources[i].key} ELSE {})
    BY ScenarioIs
  <2>2. Resources[i].op \in {"BufferCreate", "ImageCreate", "SamplerCreate", "SignalCreate",
                             "QueueCreate", "ImageImport"}
    <3> DEFINE Declared == [op : {"BufferCreate", "ImageCreate", "SamplerCreate", "SignalCreate",
                                  "QueueCreate", "ImageImport"}, key : STRING, arg : BOOLEAN]
    <3>1. i \in DOMAIN Resources /\ Resources \in Seq(Declared)
      BY <1>2, ResourceAssumption
    <3> HIDE DEF Declared
    <3>2. Resources[i] \in Declared
      BY <3>1
    <3> QED BY <3>2 DEF Declared
  <2> QED BY <1>1, <2>1, <2>2
<1>4. ASSUME NEW i \in 1..a
      PROVE  LET c == Scenario[n + 7 + i]
             IN  /\ c.op = "DispatchArg" /\ c.key = "dispatch" /\ Args[i] \in ResourceKeys
                 /\ c.from = {"dispatch", Args[i]} /\ ~Creates(n + 7 + i)
  <2>1. Scenario[n + 7 + i] = Command("DispatchArg", "dispatch", {"dispatch", Args[i]})
    BY ScenarioIs
  <2>2. Args[i] \in ResourceKeys
    BY <1>2
  <2> QED BY <1>1, <2>1, <2>2
<1>5. /\ Scenario[n + 1] = Command("ProgramCreate", "program", {})
      /\ Scenario[n + 2] = Command("ProgramAddModule", "program", {"program"})
      /\ Scenario[n + 3] = Command("ProgramFinalize", "code", {"program"})
      /\ Scenario[n + 4] = Command("ExecutableCreate", "executable", {})
      /\ Scenario[n + 5] = Command("ExecutableLoadCode", "executable", {"executable", "code"})
      /\ Scenario[n + 6] = Command("ExecutableFreeze", "executable", {"executable"})
      /\ Scenario[n + 7] = Command("DispatchCreate", "dispatch", {"executable"})
      /\ Scenario[n + a + 8] = Command("DispatchExecute", "dispatch", {"dispatch"})
      /\ Scenario[n + a + 9] = Command("BufferValidate", "output", {"output"})
  BY ScenarioIs
<1>6. LET c == Scenario[n + 1]
      IN  c.op = "ProgramCreate" /\ c.key = "program" /\ c.from = {} /\ Creates(n + 1)
  BY <1>1, <1>5
<1>7. LET c == Scenario[n + 2]
      IN  c.op = "ProgramAddModule" /\ c.from = {"program"} /\ ~Creates(n + 2)
  BY <1>1, <1>5
<1>8. LET c == Scenario[n + 3]
      IN  c.op = "ProgramFinalize" /\ c.key = "code" /\ c.from = {"program"} /\ Creates(n + 3)
  BY <1>1, <1>5
<1>9. LET c == Scenario[n + 4]
      IN  c.op = "ExecutableCreate" /\ c.key = "executable" /\ c.from = {} /\ Creates(n + 4)
  BY <1>1, <1>5
<1>10. LET c == Scenario[n + 5]
       IN  /\ c.op = "ExecutableLoadCode" /\ c.key = "executable"
           /\ c.from = {"executable", "code"} /\ ~Creates(n + 5)
  BY <1>1, <1>5
<1>11. LET c == Scenario[n + 6]
       IN  c.op = "ExecutableFreeze" /\ c.from = {"executable"} /\ ~Creates(n + 6)
  BY <1>1, <1>5
<1>12. LET c == Scenario[n + 7]
       IN  c.op = "DispatchCreate" /\ c.key = "dispatch" /\ c.from = {"executable"} /\ Creates(n + 7)
  BY <1>1, <1>5
<1>13. LET c == Scenario[n + a + 8]
       IN  c.op = "DispatchExecute" /\ c.from = {"dispatch"} /\ ~Creates(n + a + 8)
  BY <1>1, <1>5
<1>14. LET c == Scenario[n + a + 9]
       IN  c.op = "BufferValidate" /\ c.from = {"output"} /\ ~Creates(n + a + 9)
  BY <1>1, <1>5
<1> QED BY <1>2, <1>3, <1>4, <1>6, <1>7, <1>8, <1>9, <1>10, <1>11, <1>12, <1>13, <1>14

LEMMA ResourceMade ==
    ASSUME NEW l \in ResourceKeys \cup {"output"}, NEW i, i > Resourced, i \in Int
    PROVE  MadeBefore(l, i)
<1>1. /\ Resourced \in Nat /\ \A j \in 1..Resourced : j \in DOMAIN Scenario
      /\ \A j \in 1..Resourced : /\ Scenario[j].key = Resources[j].key
                                 /\ ~Creates(j) <=> Resources[j].op = "ImageImport"
      /\ DOMAIN Resources = 1..Resourced
  BY ScenarioFields, ScenarioIs
<1>2. \E j \in 1..Resourced : Resources[j].key = l
  <2>1. CASE l \in ResourceKeys
    BY <1>1, <2>1 DEF ResourceKeys
  <2>2. CASE l = "output"
    <3>1. PICK r \in ToSet(Resources) : r.key = "output"
      BY KeysAssumption
    <3>2. PICK j \in DOMAIN Resources : Resources[j] = r
      BY <3>1 DEF ToSet
    <3> QED BY <1>1, <2>2, <3>1, <3>2
  <2> QED BY <2>1, <2>2
<1>3. PICK j \in 1..Resourced : Resources[j].key = l
  BY <1>2
<1>4. CASE Resources[j].op # "ImageImport"
  BY <1>1, <1>3, <1>4 DEF MadeBefore
<1>5. CASE Resources[j].op = "ImageImport"
  <2>1. PICK k \in 1..(j - 1) : Resources[k].op = "ImageCreate" /\ Resources[k].key = Resources[j].key
    BY <1>1, <1>5, KeysAssumption
  <2>2. k \in 1..Resourced /\ k < i
    BY <1>1
  <2> QED BY <1>1, <1>3, <2>1, <2>2 DEF MadeBefore
<1> QED BY <1>4, <1>5

LEMMA ScenarioOrder ==
    ASSUME NEW i \in DOMAIN Scenario
    PROVE  /\ \A l \in Scenario[i].from : MadeBefore(l, i)
           /\ Creates(i) \/ Scenario[i].op \in Adding =>
                \A l \in Scenario[i].from \ {Scenario[i].key} : ~MadeAfter(l, i)
           /\ Scenario[i].op \in Adding =>
                \E j \in DOMAIN Scenario : /\ j < i /\ Creates(j) /\ Scenario[j].key = Scenario[i].key
                                           /\ Between(j, i)
<1> DEFINE n == Resourced  a == Len(Args)
           Good(k) == /\ \A l \in Scenario[k].from : MadeBefore(l, k)
                      /\ Creates(k) \/ Scenario[k].op \in Adding =>
                           \A l \in Scenario[k].from \ {Scenario[k].key} : ~MadeAfter(l, k)
                      /\ Scenario[k].op \in Adding =>
                           \E j \in DOMAIN Scenario : /\ j < k /\ Creates(j)
                                                      /\ Scenario[j].key = Scenario[k].key
                                                      /\ Between(j, k)
<1>1. /\ n \in Nat /\ a \in Nat /\ DOMAIN Scenario = 1..(n + a + 9)
      /\ n + 1 \in DOMAIN Scenario /\ n + 2 \in DOMAIN Scenario /\ n + 3 \in DOMAIN Scenario
      /\ n + 4 \in DOMAIN Scenario /\ n + 5 \in DOMAIN Scenario /\ n + 6 \in DOMAIN Scenario
      /\ n + 7 \in DOMAIN Scenario
  <2>1. n \in Nat /\ a \in Nat /\ DOMAIN Scenario = 1..(n + a + 9)
    BY ScenarioFields
  <2> HIDE DEF n, a
  <2> QED BY <2>1
<1>2. ASSUME NEW j \in DOMAIN Scenario, j > n, Creates(j)
      PROVE  j \in {n + 1, n + 3, n + 4, n + 7}
  <2>1. j \in (n + 1)..(n + 7) \/ (j - (n + 7)) \in 1..a \/ j = n + a + 8 \/ j = n + a + 9
    BY <1>1, <1>2
  <2>2. ~Creates(n + 2) /\ ~Creates(n + 5) /\ ~Creates(n + 6) /\ ~Creates(n + a + 8) /\ ~Creates(n + a + 9)
    BY ScenarioFields
  <2>3. \A m \in 1..a : ~Creates(n + 7 + m)
    BY ScenarioFields
  <2>4. n + 7 + (j - (n + 7)) = j
    BY <1>1
  <2>5. CASE j \in (n + 1)..(n + 7)
    BY <1>1, <1>2, <2>2, <2>5
  <2> QED BY <1>2, <2>1, <2>2, <2>3, <2>4, <2>5
<1>3. ASSUME NEW k \in 1..n PROVE Good(k)
  <2>1. /\ Scenario[k].op = Resources[k].op /\ Scenario[k].key = Resources[k].key
        /\ Scenario[k].op \notin Adding
        /\ Creates(k) => Scenario[k].from = {}
        /\ ~Creates(k) <=> Resources[k].op = "ImageImport"
        /\ Scenario[k].from \subseteq {Scenario[k].key}
    BY ScenarioFields
  <2>2. CASE ~Creates(k)
    <3>1. k \in DOMAIN Resources
      BY ScenarioIs
    <3>2. PICK j \in 1..(k - 1) : Resources[j].op = "ImageCreate" /\ Resources[j].key = Resources[k].key
      BY <2>1, <2>2, <3>1, KeysAssumption
    <3>3. j \in 1..n /\ j < k /\ j \in DOMAIN Scenario
      BY <1>1
    <3>4. Creates(j) /\ Scenario[j].key = Scenario[k].key
      BY <2>1, <3>2, <3>3, ScenarioFields
    <3> QED BY <2>1, <2>2, <3>3, <3>4 DEF MadeBefore
  <2> QED BY <2>1, <2>2
<1>4. Good(n + 1)
  BY ScenarioFields DEF Adding
<1>5. /\ Creates(n + 1) /\ Scenario[n + 1].key = "program" /\ Creates(n + 3) /\ Scenario[n + 3].key = "code"
      /\ Creates(n + 4) /\ Scenario[n + 4].key = "executable"
      /\ Creates(n + 7) /\ Scenario[n + 7].key = "dispatch"
      /\ ~Creates(n + 2) /\ ~Creates(n + 5) /\ ~Creates(n + 6)
  BY ScenarioFields
<1>6. Good(n + 2)
  <2>1. Scenario[n + 2].op = "ProgramAddModule" /\ Scenario[n + 2].from = {"program"}
    BY ScenarioFields
  <2> QED BY <1>1, <1>5, <2>1 DEF Adding, MadeBefore
<1>7. Good(n + 3)
  <2>1. Scenario[n + 3].op = "ProgramFinalize" /\ Scenario[n + 3].from = {"program"}
    BY ScenarioFields
  <2>2. MadeBefore("program", n + 3)
    BY <1>1, <1>5 DEF MadeBefore
  <2>3. ~MadeAfter("program", n + 3)
    <3> SUFFICES ASSUME NEW j \in DOMAIN Scenario, j > n + 3, Creates(j), Scenario[j].key = "program"
                 PROVE  FALSE
      BY DEF MadeAfter
    <3>1. j = n + 4 \/ j = n + 7
      BY <1>1, <1>2
    <3> QED BY <1>5, <3>1
  <2> QED BY <2>1, <2>2, <2>3 DEF Adding
<1>8. Good(n + 4)
  BY ScenarioFields DEF Adding
<1>9. Good(n + 5)
  <2>1. /\ Scenario[n + 5].op = "ExecutableLoadCode" /\ Scenario[n + 5].from = {"executable", "code"}
        /\ Scenario[n + 5].key = "executable"
    BY ScenarioFields
  <2>2. MadeBefore("executable", n + 5) /\ MadeBefore("code", n + 5)
    <3>1. n + 4 < n + 5 /\ n + 3 < n + 5
      BY <1>1
    <3> QED BY <1>1, <1>5, <3>1 DEF MadeBefore
  <2>3. ~MadeAfter("code", n + 5)
    <3> SUFFICES ASSUME NEW j \in DOMAIN Scenario, j > n + 5, Creates(j), Scenario[j].key = "code"
                 PROVE  FALSE
      BY DEF MadeAfter
    <3>1. j = n + 7
      BY <1>1, <1>2
    <3> QED BY <1>5, <3>1
  <2>4. n + 4 < n + 5 /\ Between(n + 4, n + 5)
    BY <1>1 DEF Between
  <2> QED BY <1>1, <1>5, <2>1, <2>2, <2>3, <2>4
<1>10. Good(n + 6)
  <2>1. Scenario[n + 6].op = "ExecutableFreeze" /\ Scenario[n + 6].from = {"executable"}
    BY ScenarioFields
  <2> QED BY <1>1, <1>5, <2>1 DEF Adding, MadeBefore
<1>11. Good(n + 7)
  <2>1. Scenario[n + 7].op = "DispatchCreate" /\ Scenario[n + 7].from = {"executable"}
    BY ScenarioFields
  <2>2. MadeBefore("executable", n + 7)
    BY <1>1, <1>5 DEF MadeBefore
  <2>3. ~MadeAfter("executable", n + 7)
    <3> SUFFICES ASSUME NEW j \in DOMAIN Scenario, j > n + 7, Creates(j)
                 PROVE  FALSE
      BY DEF MadeAfter
    <3> QED BY <1>1, <1>2
  <2> QED BY <2>1, <2>2, <2>3 DEF Adding
<1>12. ASSUME NEW m \in 1..a PROVE Good(n + 7 + m)
  <2> DEFINE k == n + 7 + m
  <2>1. /\ Scenario[k].op = "DispatchArg" /\ Scenario[k].from = {"dispatch", Args[m]}
        /\ Scenario[k].key = "dispatch" /\ Args[m] \in ResourceKeys
    BY ScenarioFields
  <2>2. k \in Int /\ k > n + 7 /\ k > n
    BY <1>1
  <2> HIDE DEF k
  <2>3. MadeBefore("dispatch", k) /\ MadeBefore(Args[m], k)
    <3>1. MadeBefore("dispatch", k)
      BY <1>1, <1>5, <2>2 DEF MadeBefore
    <3> QED BY <2>1, <2>2, <3>1, ResourceMade
  <2>4. \A j \in DOMAIN Scenario : j > n + 7 => ~Creates(j)
    BY <1>1, <1>2
  <2>5. ASSUME NEW l PROVE ~MadeAfter(l, k)
    BY <1>1, <2>2, <2>4 DEF MadeAfter
  <2>6. Between(n + 7, k)
    BY <2>4 DEF Between
  <2>7. Good(k)
    BY <1>1, <1>5, <2>1, <2>2, <2>3, <2>5, <2>6
  <2> QED BY <2>7 DEF k
<1>13. Good(n + a + 8)
  <2>1. Scenario[n + a + 8].op = "DispatchExecute" /\ Scenario[n + a + 8].from = {"dispatch"}
        /\ ~Creates(n + a + 8)
    BY ScenarioFields
  <2>2. n + 7 < n + a + 8
    BY <1>1
  <2> QED BY <1>1, <1>5, <2>1, <2>2 DEF Adding, MadeBefore
<1>14. Good(n + a + 9)
  <2>1. Scenario[n + a + 9].op = "BufferValidate" /\ Scenario[n + a + 9].from = {"output"}
        /\ ~Creates(n + a + 9)
    BY ScenarioFields
  <2>2. n + a + 9 \in Int /\ n + a + 9 > n
    BY <1>1
  <2>3. MadeBefore("output", n + a + 9)
    BY <2>2, ResourceMade
  <2> QED BY <2>1, <2>3 DEF Adding
<1> HIDE DEF Good
<1>15. Good(i)
  <2>1. \/ i \in 1..n \/ i \in (n + 1)..(n + 7) \/ (i - (n + 7)) \in 1..a
        \/ i = n + a + 8 \/ i = n + a + 9
    BY <1>1
  <2>2. CASE i \in (n + 1)..(n + 7)
    <3>1. i \in {n + 1, n + 2, n + 3, n + 4, n + 5, n + 6, n + 7}
      BY <1>1, <2>2
    <3> QED BY <3>1, <1>4, <1>6, <1>7, <1>8, <1>9, <1>10, <1>11
  <2>3. CASE (i - (n + 7)) \in 1..a
    <3>1. n + 7 + (i - (n + 7)) = i
      BY <1>1
    <3>2. Good(n + 7 + (i - (n + 7)))
      BY <1>12, <2>3
    <3> QED BY <3>1, <3>2
  <2> QED BY <2>1, <2>2, <2>3, <1>3, <1>13, <1>14
<1> QED BY <1>15 DEF Good

(* The command that is next.                                                *)
LEMMA NextCommand ==
    ASSUME Order, NEW op, Runs(op)
    PROVE  /\ step \in DOMAIN Scenario /\ step \in Nat /\ cmd = Scenario[step] /\ cmd.op = op
           /\ cmd.key \in Keys /\ cmd.from \subseteq DOMAIN context
           /\ pc = "test" /\ Made /\ fault # "no queue"
<1>1. Scenario \in Seq(Commanded)
  BY ScenarioIs
<1>2. step \in Nat \ {0} /\ step <= Len(Scenario)
  BY DEF Order, Runs
<1>3. step \in DOMAIN Scenario /\ Scenario[step] \in Commanded
  <2> HIDE DEF Commanded
  <2> QED BY <1>1, <1>2
<1> QED BY <1>2, <1>3 DEF Order, Runs, cmd, Commanded

LEMMA NextComing ==
    ASSUME Order, NEW op, Runs(op), Succeeds
    PROVE  /\ Coming' \subseteq Coming
           /\ Creates(step) => cmd.key \in Coming
           /\ \A l : ~MadeAfter(l, step) => l \notin Coming'
<1>1. pc = "test" /\ pc' = "test" /\ step' = step + 1 /\ step \in DOMAIN Scenario /\ step \in Nat
      /\ cmd = Scenario[step]
  BY NextCommand DEF Succeeds
<1>2. DOMAIN Scenario \subseteq Nat
  BY ScenarioFields
<1>3. Coming = {Scenario[j].key : j \in {s \in DOMAIN Scenario : s >= step /\ Creates(s)}}
  BY <1>1 DEF Coming
<1>4. Coming' = {Scenario[j].key : j \in {s \in DOMAIN Scenario : s >= step + 1 /\ Creates(s)}}
  BY <1>1 DEF Coming, Creates
<1>5. Coming' \subseteq Coming
  BY <1>1, <1>2, <1>3, <1>4
<1>6. Creates(step) => cmd.key \in Coming
  BY <1>1, <1>3
<1>7. ASSUME NEW l, ~MadeAfter(l, step) PROVE l \notin Coming'
  BY <1>1, <1>2, <1>4, <1>7 DEF MadeAfter
<1> QED BY <1>5, <1>6, <1>7

(* What the objects a command gets are made of.                             *)
LEMMA FromNames ==
    ASSUME Order, NEW op, Runs(op), Succeeds, Creates(step) \/ op \in Adding
    PROVE  Names(context, Coming', cmd.key, From)
<1>1. step \in DOMAIN Scenario /\ cmd = Scenario[step] /\ cmd.op = op /\ cmd.from \subseteq DOMAIN context
  BY NextCommand
<1>2. \A l \in cmd.from \ {cmd.key} : l \in DOMAIN context /\ l # cmd.key /\ l \notin Coming'
  BY <1>1, ScenarioOrder, NextComing
<1>3. ASSUME NEW id \in From
      PROVE  \E l \in cmd.from \ {cmd.key} : \E j \in DOMAIN context[l] : context[l][j].id = id
  BY DEF From, IdsOf, ToSet
<1> QED BY <1>2, <1>3 DEF Names

LEMMA MadeNext ==
    ASSUME Order, NEW op, Runs(op), Succeeds,
           \/ /\ Creates(step)
              /\ DOMAIN context' = DOMAIN context \cup {cmd.key} /\ keys' = Append(keys, cmd.key)
              /\ queue' # {} \/ (queue' = queue /\ op # "DispatchCreate")
           \/ /\ ~Creates(step)
              /\ DOMAIN context' = DOMAIN context /\ keys' = keys /\ queue' = queue
    PROVE  Made'
<1>1. /\ step \in DOMAIN Scenario /\ step \in Nat /\ cmd = Scenario[step] /\ cmd.op = op /\ cmd.key \in Keys
      /\ Made /\ step' = step + 1 /\ ok' = ok
  BY NextCommand DEF Succeeds
<1>2. DOMAIN Scenario \subseteq Nat
  BY ScenarioFields
<1>3. ASSUME NEW j \in DOMAIN Scenario PROVE j < step' <=> (j < step \/ j = step)
  BY <1>1, <1>2
<1>4. ASSUME NEW j \in DOMAIN Scenario, j < step', Creates(j)
      PROVE  Scenario[j].key \in DOMAIN context'
  BY <1>1, <1>3, <1>4 DEF Made
<1>5. ASSUME NEW j \in DOMAIN Scenario, j < step', Creates(j), Between(j, step')
      PROVE  keys' # <<>> /\ keys'[Len(keys')] = Scenario[j].key
  <2>1. CASE Creates(step)
    <3>1. j = step
      BY <1>1, <1>3, <1>5, <2>1 DEF Between
    <3>2. keys \in Seq(Keys) /\ keys' = Append(keys, cmd.key)
      BY <2>1 DEF Order
    <3> QED BY <1>1, <3>1, <3>2, Appended
  <2>2. CASE ~Creates(step)
    <3>1. j < step /\ keys' = keys
      BY <1>3, <1>5, <2>2
    <3>2. Between(j, step)
      BY <1>1, <1>2, <1>5 DEF Between
    <3> QED BY <1>1, <1>5, <3>1, <3>2 DEF Made
  <2> QED BY <2>1, <2>2
<1>6. ASSUME NEW j \in DOMAIN Scenario, j < step', Scenario[j].op = "DispatchCreate"
      PROVE  queue' # {}
  <2>1. Scenario[j].op = "DispatchCreate" => Creates(j)
    BY DEF Creates, Creating
  <2> QED BY <1>1, <1>3, <1>6, <2>1 DEF Made
<1>7. /\ \A j \in DOMAIN Scenario : Creates(j)' <=> Creates(j)
      /\ \A j, i : Between(j, i)' <=> Between(j, i)
  BY DEF Creates, Between
<1> QED BY <1>1, <1>4, <1>5, <1>6 DEF Made, Creates, Between

(* A command that creates an object.                                        *)
LEMMA CreationOrdered ==
    ASSUME Order, NEW op, Runs(op), Succeeds, op \in Creating, NEW parts, PutObject(cmd.key, parts),
           \A i \in DOMAIN parts : \A id \in parts[i].of : InParts(parts, i, id) \/ id \in From,
           queue' # {} \/ (queue' = queue /\ op # "DispatchCreate")
    PROVE  Order'
<1>1. /\ step \in DOMAIN Scenario /\ step \in Nat /\ cmd = Scenario[step] /\ cmd.op = op /\ cmd.key \in Keys
      /\ pc = "test" /\ fault # "no queue"
  BY NextCommand
<1>2. Creates(step)
  BY <1>1 DEF Creates
<1>3. Places(context', context, cmd.key, parts) /\ keys' = Append(keys, cmd.key)
      /\ DOMAIN context' = DOMAIN context \cup {cmd.key}
  BY DEF PutObject, Places
<1>4. /\ keys \in Seq(Keys) /\ DOMAIN context \subseteq ToSet(keys) /\ Ordered(context, keys, Coming)
  BY DEF Order
<1>5. Ordered(context', keys', Coming')
  <2>1. Coming' \in SUBSET Coming /\ cmd.key \in Coming /\ Names(context, Coming', cmd.key, From)
    BY <1>2, NextComing, FromNames
  <2> HIDE DEF Coming
  <2> QED BY <1>1, <1>3, <1>4, <2>1, OrderedPlaced
<1>6. Made'
  BY <1>2, <1>3, MadeNext
<1>7. keys' \in Seq(Keys) /\ DOMAIN context' \subseteq ToSet(keys')
  <2>1. keys' \in Seq(Keys) /\ ToSet(keys') = ToSet(keys) \cup {cmd.key}
    BY <1>1, <1>3, <1>4, Appended
  <2> QED BY <1>3, <1>4, <2>1
<1>8. step' \in Nat \ {0} /\ pc' = "test" /\ fault' # "no queue"
  <2>1. step' = step + 1 /\ pc' = pc /\ fault' = fault /\ step \in Nat
    BY <1>1 DEF Succeeds
  <2>2. step' \in Nat \ {0}
    BY <2>1
  <2> QED BY <1>1, <2>1, <2>2
<1>9. Ordered(context, keys, Coming)'
  BY <1>5 DEF Ordered, Tied, After
<1> QED BY <1>6, <1>7, <1>8, <1>9 DEF Order

(* A command that fails, whatever becomes of the queue.                     *)
LEMMA FailureOrdered ==
    ASSUME Order, NEW op, Runs(op), NEW isNA \in BOOLEAN, FailsWith(isNA), UNCHANGED <<context, keys>>
    PROVE  Order'
<1>1. pc' = "destroy" /\ ~ok' /\ step' = step /\ fault' = fault /\ fault # "no queue"
  BY NextCommand DEF FailsWith
<1>2. Ordered(context', keys', {})
  BY OrderedLess DEF Order
<1>3. Coming' = {}
  BY <1>1 DEF Coming
<1>4. Ordered(context, keys, Coming)'
  BY <1>2, <1>3 DEF Ordered, Tied, After
<1> QED BY <1>1, <1>4 DEF Order

(* A command that changes no object, or fails.                              *)
LEMMA CallOrdered ==
    ASSUME Order, NEW op, Runs(op), op \notin Creating, UNCHANGED <<context, keys, queue>>,
           Succeeds \/ \E isNA \in BOOLEAN : FailsWith(isNA)
    PROVE  Order'
<1>1. CASE Succeeds
  <2>1. ~Creates(step)
    BY NextCommand DEF Creates
  <2>2. Made'
    BY <1>1, <2>1, MadeNext
  <2>3. /\ pc' = "test" /\ pc = "test" /\ step' \in Nat \ {0} /\ fault' # "no queue"
    <3>1. step' = step + 1 /\ pc' = pc /\ fault' = fault /\ step \in Nat
      BY <1>1, NextCommand DEF Succeeds
    <3>2. step' \in Nat \ {0}
      BY <3>1
    <3> QED BY <3>1, <3>2, NextCommand
  <2>4. Ordered(context, keys, Coming')
    <3>1. Coming' \in SUBSET Coming
      BY <1>1, NextComing
    <3> HIDE DEF Coming
    <3> QED BY <3>1, OrderedLess DEF Order
  <2>5. Ordered(context, keys, Coming)'
    BY <2>4 DEF Ordered, Tied, After
  <2> QED BY <2>2, <2>3, <2>5 DEF Order
<1> QED BY <1>1, FailureOrdered

(* ExecutableLoadCode and DispatchArg.                                      *)
LEMMA AdditionOrdered ==
    ASSUME Order, NEW op, Runs(op), op \in Adding, Succeeds, DependsOnMore(cmd.key), KeepQueue
    PROVE  Order'
<1>1. /\ step \in DOMAIN Scenario /\ step \in Nat /\ cmd = Scenario[step] /\ cmd.op = op /\ cmd.key \in Keys
      /\ pc = "test" /\ Made /\ fault # "no queue" /\ cmd.from \subseteq DOMAIN context
  BY NextCommand
<1>2. ~Creates(step)
  BY <1>1 DEF Creates, Creating, Adding
<1>3. Deepens(context', context, cmd.key, From) /\ keys' = keys /\ queue' = queue
      /\ DOMAIN context' = DOMAIN context
  <2>1. cmd.key \in DOMAIN context
    BY <1>1 DEF DependsOnMore
  <2> QED BY <2>1 DEF DependsOnMore, Deepens, KeepQueue
<1>4. keys # <<>> /\ keys[Len(keys)] = cmd.key
  <2>1. PICK j \in DOMAIN Scenario : /\ j < step /\ Creates(j) /\ Scenario[j].key = cmd.key
                                     /\ Between(j, step)
    BY <1>1, ScenarioOrder
  <2> QED BY <1>1, <2>1 DEF Made
<1>5. Ordered(context', keys, Coming')
  <2>1. Coming' \in SUBSET Coming /\ Names(context, Coming', cmd.key, From)
    BY NextComing, FromNames
  <2>2. keys \in Seq(Keys) /\ Ordered(context, keys, Coming)
    BY DEF Order
  <2> HIDE DEF Coming
  <2> QED BY <1>3, <1>4, <2>1, <2>2, OrderedDeepens
<1>6. Made'
  BY <1>2, <1>3, MadeNext
<1>7. step' \in Nat \ {0} /\ pc' = "test" /\ fault' # "no queue"
  <2>1. step' = step + 1 /\ pc' = pc /\ fault' = fault /\ step \in Nat
    BY <1>1 DEF Succeeds
  <2>2. step' \in Nat \ {0}
    BY <2>1
  <2> QED BY <1>1, <2>1, <2>2
<1>8. Ordered(context, keys, Coming)'
  BY <1>3, <1>5 DEF Ordered, Tied, After
<1> QED BY <1>3, <1>6, <1>7, <1>8 DEF Order

LEMMA CreateOneOrdered ==
    ASSUME Order, NEW op, op \in Creating, op # "DispatchCreate", NEW kind, CreateOne(op, kind)
    PROVE  Order'
<1> DEFINE parts == <<Handle(next, kind, From)>>
<1>1. Runs(op) /\ queue' = queue
  BY DEF CreateOne, KeepQueue
<1>2. CASE Succeeds /\ Create(cmd.key, parts)
  <2>1. PutObject(cmd.key, parts)
    BY <1>2 DEF Create
  <2>2. \A i \in DOMAIN parts : parts[i].of = From
    BY DEF Handle
  <2>3. \A i \in DOMAIN parts : \A id \in parts[i].of : InParts(parts, i, id) \/ id \in From
    BY <2>2
  <2> HIDE DEF parts
  <2> QED BY <1>1, <1>2, <2>1, <2>3, CreationOrdered
<1>3. CASE FailsWith(FALSE) /\ Keep
  BY <1>1, <1>3, FailureOrdered DEF Keep
<1> QED BY <1>2, <1>3 DEF CreateOne

(* BufferCreate and ImageCreate: the first part was made from the second.   *)
LEMMA PairParts ==
    ASSUME NEW n \in Nat, NEW kind1, NEW kind2, NEW parts,
           parts = << Handle(n, kind1, {n + 1}), Handle(n + 1, kind2, {}) >>
    PROVE  \A i \in DOMAIN parts : \A id \in parts[i].of : InParts(parts, i, id)
<1> DEFINE a == Handle(n, kind1, {n + 1})  b == Handle(n + 1, kind2, {})
<1>1. a.of = {n + 1} /\ b.of = {} /\ b.id = n + 1
  BY DEF Handle
<1>2. parts = <<a, b>>
  OBVIOUS
<1> HIDE DEF a, b
<1>3. DOMAIN parts = {1, 2} /\ parts[1] = a /\ parts[2] = b
  BY <1>2
<1> QED BY <1>1, <1>3 DEF InParts

LEMMA BufferCreateOrdered ==
    ASSUME Inv, Order, BufferCreate
    PROVE  Order'
<1>1. Runs("BufferCreate") /\ queue' = queue /\ "BufferCreate" \in Creating
  BY DEF BufferCreate, KeepQueue, Creating
<1>2. CASE Succeeds /\ Create(cmd.key, BufferParts)
  <2>1. PutObject(cmd.key, BufferParts)
    BY <1>2 DEF Create
  <2>2. \A i \in DOMAIN BufferParts : \A id \in BufferParts[i].of : InParts(BufferParts, i, id)
    <3>1. CASE profile = "FULL"
      BY <3>1, PairParts, NewHandles DEF BufferParts
    <3>2. CASE profile # "FULL"
      <4> DEFINE c == Handle(next, "memory", {})
      <4>1. c.of = {}
        BY DEF Handle
      <4>2. BufferParts = <<c>>
        BY <3>2 DEF BufferParts
      <4> HIDE DEF c
      <4> QED BY <4>1, <4>2
    <3> QED BY <3>1, <3>2
  <2> QED BY <1>1, <1>2, <2>1, <2>2, CreationOrdered
<1>3. CASE FailsWith(FALSE) /\ Keep
  BY <1>1, <1>3, FailureOrdered DEF Keep
<1> QED BY <1>2, <1>3 DEF BufferCreate

LEMMA ImageCreateOrdered ==
    ASSUME Inv, Order, ImageCreate
    PROVE  Order'
<1>1. Runs("ImageCreate") /\ queue' = queue /\ "ImageCreate" \in Creating
  BY DEF ImageCreate, KeepQueue, Creating
<1>2. CASE Succeeds /\ Create(cmd.key, ImageParts)
  <2>1. PutObject(cmd.key, ImageParts)
    BY <1>2 DEF Create
  <2>2. \A i \in DOMAIN ImageParts : \A id \in ImageParts[i].of : InParts(ImageParts, i, id)
    BY PairParts, NewHandles DEF ImageParts
  <2> QED BY <1>1, <1>2, <2>1, <2>2, CreationOrdered
<1>3. CASE (FailsWith(TRUE) \/ FailsWith(FALSE)) /\ UNCHANGED <<context, keys>>
  BY <1>1, <1>3, FailureOrdered
<1> QED BY <1>2, <1>3 DEF ImageCreate, Keep, LoseMemory

LEMMA DispatchCreateOrdered ==
    ASSUME Order, DispatchCreateFails \/ DispatchCreateQueued
    PROVE  Order'
<1>1. Runs("DispatchCreate") /\ "DispatchCreate" \in Creating
  BY DEF DispatchCreateFails, DispatchCreateQueued, Creating
<1>2. \/ FailsWith(FALSE) /\ UNCHANGED <<context, keys>>
      \/ /\ queue' # {} /\ Succeeds
         /\ \E kernarg \in BOOLEAN : PutObject(cmd.key, DispatchParts(kernarg))
  BY DEF DispatchCreateFails, DispatchCreateQueued, Keep
<1>3. ASSUME queue' # {}, Succeeds, NEW kernarg \in BOOLEAN, PutObject(cmd.key, DispatchParts(kernarg))
      PROVE  Order'
  <2> DEFINE parts == DispatchParts(kernarg)
             a == Handle(next, "memory", From)
             b == Handle(next + 1, "signal", From)
             c == Handle(next, "signal", From)
  <2>1. a.of = From /\ b.of = From /\ c.of = From
    BY DEF Handle
  <2>2. parts = <<a, b>> \/ parts = <<c>>
    BY DEF DispatchParts
  <2> HIDE DEF a, b, c, parts
  <2>3. \A i \in DOMAIN parts : parts[i].of = From
    BY <2>1, <2>2
  <2>4. \A i \in DOMAIN parts : \A id \in parts[i].of : InParts(parts, i, id) \/ id \in From
    BY <2>3
  <2>5. PutObject(cmd.key, parts)
    BY <1>3 DEF parts
  <2> QED BY <1>1, <1>3, <2>4, <2>5, CreationOrdered
<1> QED BY <1>1, <1>2, <1>3, FailureOrdered

(* The keys go, the last one first.                                         *)
LEMMA DeleteKeyOrdered ==
    ASSUME Inv, Order, DeleteKey
    PROVE  Order'
<1> DEFINE key == DeletedKey
<1>1. /\ pc = "destroy" /\ pc' = "destroy" /\ keys # <<>> /\ key = keys[Len(keys)]
      /\ step' = step /\ ok' = ok /\ queue' = queue /\ fault' = fault
  BY DEF DeleteKey, DeletedKey, testVars
<1>2. /\ keys \in Seq(Keys) /\ DOMAIN context \subseteq ToSet(keys) /\ Ordered(context, keys, {})
      /\ step \in Nat \ {0} /\ (ok => queue # {}) /\ fault # "no queue"
  BY <1>1 DEF Order, Coming
<1>3. Coming' = {}
  BY <1>1 DEF Coming
<1>4. CASE /\ key \in DOMAIN context /\ context[key] # <<>>
           /\ context' = [context EXCEPT ![key] = Tail(@)]
           /\ keys' = keys
  <2>1. Returns(context', context, key)
    BY <1>4 DEF Returns
  <2>2. context[key] \in Seq(Handles)
    BY <1>4 DEF Inv, Data
  <2>3. Ordered(context', keys, {})
    BY <1>1, <1>2, <2>1, <2>2, OrderedGivenBack
  <2>4. Ordered(context, keys, Coming)'
    BY <1>3, <1>4, <2>3 DEF Ordered, Tied, After
  <2>5. DOMAIN context' = DOMAIN context
    BY <1>4
  <2> QED BY <1>1, <1>2, <1>4, <2>4, <2>5 DEF Order
<1>5. CASE /\ key \in DOMAIN context => context[key] = <<>>
           /\ context' = [k \in DOMAIN context \ {key} |-> context[k]]
           /\ keys' = Front(keys)
  <2>1. Forgets(context', context, key)
    BY <1>5 DEF Forgets
  <2>2. Ordered(context', Front(keys), {})
    BY <1>1, <1>2, <2>1, OrderedForgotten
  <2>3. Ordered(context, keys, Coming)'
    BY <1>3, <1>5, <2>2 DEF Ordered, Tied, After
  <2>4. keys' \in Seq(Keys) /\ DOMAIN context' \subseteq ToSet(keys')
    BY <1>1, <1>2, <1>5, LastKey
  <2> QED BY <1>1, <1>2, <2>3, <2>4 DEF Order
<1> QED BY <1>4, <1>5 DEF DeleteKey

(* Steps outside the commands: no object comes or goes.                     *)
LEMMA OutsideOrdered ==
    ASSUME Order, \/ InitFails \/ InitRuntime \/ NewState \/ HsaQueueErrorCallback
                  \/ EndScenario \/ StateDestroyed \/ Dispose \/ UNCHANGED vars
    PROVE  Order'
<1>1. UNCHANGED <<context, keys>>
  BY DEF InitFails, InitRuntime, NewState, HsaQueueErrorCallback, EndScenario, StateDestroyed, Dispose,
     vars
<1>2. ASSUME Coming' \in SUBSET Coming PROVE Ordered(context, keys, Coming)'
  <2>1. Ordered(context, keys, Coming')
    <3> HIDE DEF Coming
    <3> QED BY <1>2, OrderedLess DEF Order
  <2> QED BY <1>1, <2>1 DEF Ordered, Tied, After
<1>3. /\ step \in Nat \ {0} /\ keys \in Seq(Keys) /\ DOMAIN context \subseteq ToSet(keys)
      /\ pc \in {"test", "destroy"} \/ keys = <<>>
      /\ (pc = "test" => Made) /\ (pc \in {"idle", "destroy"} /\ ok => queue # {})
      /\ (fault = "no queue" => ~ok /\ pc = "dead")
  BY DEF Order
<1>4. CASE InitFails \/ Dispose
  <2>1. pc' \in {"disposed", "dead"} /\ pc \in {"init", "idle"} /\ step' = step /\ ok' = ok
        /\ (fault' = "no queue" => ~ok' /\ pc' = "dead")
    <3>1. CASE InitFails
      <4>1. pc = "init" /\ pc' = "disposed" /\ step' = step /\ ok' = ok /\ fault' = fault
        BY <3>1 DEF InitFails, testVars
      <4> QED BY <1>3, <4>1
    <3>2. CASE Dispose
      <4>1. pc = "idle" /\ step' = step /\ ok' = ok
            /\ \/ queue = {} /\ pc' = "dead"
               \/ pc' = "disposed" /\ fault' = fault
        BY <3>2 DEF Dispose, testVars
      <4> QED BY <1>3, <4>1
    <3> QED BY <1>4, <3>1, <3>2
  <2>2. Coming' = {}
    BY <2>1 DEF Coming
  <2> QED BY <1>1, <1>2, <1>3, <2>1, <2>2 DEF Order
<1>5. CASE InitRuntime
  <2>1. pc' = "idle" /\ pc = "init" /\ step' = step /\ ok' = ok /\ fault' = fault /\ queue' # {}
    BY <1>5 DEF InitRuntime, testVars
  <2>2. Coming' = {}
    BY <2>1 DEF Coming
  <2> QED BY <1>1, <1>2, <1>3, <2>1, <2>2 DEF Order
<1>6. CASE NewState
  <2>1. pc' = "test" /\ pc = "idle" /\ step' = 1 /\ ok' = TRUE /\ fault' = fault
    BY <1>6 DEF NewState
  <2>2. keys = <<>> /\ DOMAIN context = {}
    <3>1. ToSet(<<>>) = {}
      BY DEF ToSet
    <3> QED BY <1>3, <2>1, <3>1
  <2>3. \A j \in DOMAIN Scenario : ~(j < 1)
    BY ScenarioFields
  <2>4. Made'
    BY <2>1, <2>3 DEF Made
  <2>5. Ordered(context, keys, Coming)'
    BY <1>1, <2>2 DEF Ordered
  <2>6. step' \in Nat \ {0} /\ keys' \in Seq(Keys) /\ DOMAIN context' \subseteq ToSet(keys')
    <3>1. step' \in Nat \ {0}
      BY <2>1
    <3>2. keys' \in Seq(Keys) /\ DOMAIN context' \subseteq ToSet(keys')
      <4> HIDE DEF Keys
      <4> QED BY <1>1, <1>3
    <3> QED BY <3>1, <3>2
  <2>7. fault' # "no queue"
    BY <1>3, <2>1
  <2> QED BY <2>1, <2>4, <2>5, <2>6, <2>7 DEF Order
<1>7. CASE HsaQueueErrorCallback
  <2>1. pc' = pc /\ pc = "test" /\ step' = step /\ ok' = ok /\ fault' = fault /\ queue' = queue
    BY <1>7 DEF HsaQueueErrorCallback, testVars
  <2>2. Coming' = Coming
    BY <2>1 DEF Coming, Creates
  <2>3. Made'
    BY <1>1, <1>3, <2>1 DEF Made, Creates, Between
  <2> QED BY <1>1, <1>2, <1>3, <2>1, <2>2, <2>3 DEF Order
<1>8. CASE EndScenario
  <2>1. pc = "test" /\ pc' = "destroy" /\ step' = step /\ ok' = ok /\ fault' = fault /\ queue' = queue
        /\ step > Len(Scenario)
    BY <1>8 DEF EndScenario, testVars
  <2>2. Coming' = {}
    BY <2>1 DEF Coming
  <2>3. queue # {}
    <3>1. /\ Resourced + 7 \in DOMAIN Scenario /\ Scenario[Resourced + 7].op = "DispatchCreate"
      <4>1. Resourced \in Nat /\ Len(Args) \in Nat /\ DOMAIN Scenario = 1..(Resourced + Len(Args) + 9)
        BY ScenarioFields
      <4>2. Scenario[Resourced + 7].op = "DispatchCreate"
        BY ScenarioFields
      <4> QED BY <4>1, <4>2
    <3>2. Resourced + 7 < step
      <4>1. Resourced \in Nat /\ Len(Args) \in Nat /\ Len(Scenario) = Resourced + Len(Args) + 9
        BY ScenarioIs
      <4>2. step \in Nat
        BY <1>3
      <4> QED BY <2>1, <4>1, <4>2
    <3> QED BY <1>3, <2>1, <3>1, <3>2 DEF Made
  <2> QED BY <1>1, <1>2, <1>3, <2>1, <2>2, <2>3 DEF Order
<1>9. CASE StateDestroyed
  <2>1. pc = "destroy" /\ pc' = "idle" /\ keys = <<>> /\ step' = step /\ ok' = ok /\ fault' = fault
        /\ queue' = queue
    BY <1>9 DEF StateDestroyed, testVars
  <2>2. Coming' = {}
    BY <2>1 DEF Coming
  <2> QED BY <1>1, <1>2, <1>3, <2>1, <2>2 DEF Order
<1>10. CASE UNCHANGED vars
  <2>1. pc' = pc /\ step' = step /\ ok' = ok /\ fault' = fault /\ queue' = queue
    BY <1>10 DEF vars, testVars
  <2>2. Coming' = Coming
    BY <2>1 DEF Coming, Creates
  <2>3. pc = "test" => Made'
    BY <1>1, <1>3, <2>1 DEF Made, Creates, Between
  <2> QED BY <1>1, <1>2, <1>3, <2>1, <2>2, <2>3 DEF Order
<1> QED BY <1>4, <1>5, <1>6, <1>7, <1>8, <1>9, <1>10

LEMMA InitOrder == Init => Order
  BY DEF Init, Order, Ordered, ToSet

LEMMA StepOrder == Inv /\ Order /\ [Next]_vars => Order'
<1> SUFFICES ASSUME Inv, Order, [Next]_vars PROVE Order'
  OBVIOUS
<1>1. CASE Commands
  <2>1. CASE BufferCreate \/ ImageCreate
    BY <2>1, BufferCreateOrdered, ImageCreateOrdered
  <2>2. CASE SamplerCreate \/ SignalCreate \/ QueueCreate \/ ProgramCreate \/ ProgramFinalize
              \/ ExecutableCreate
    BY <2>2, CreateOneOrdered DEF SamplerCreate, SignalCreate, QueueCreate, ProgramCreate,
       ProgramFinalize, ExecutableCreate, Creating
  <2>3. CASE ImageImport \/ ProgramAddModule \/ ExecutableFreeze \/ BufferValidate
    BY <2>3, CallOrdered DEF ImageImport, ProgramAddModule, ExecutableFreeze, BufferValidate, CallOnly,
       Creating, Keep, KeepQueue
  <2>4. CASE ExecutableLoadCode
    <3>1. Runs("ExecutableLoadCode") /\ KeepQueue /\ "ExecutableLoadCode" \in Adding
      BY <2>4 DEF ExecutableLoadCode, Adding
    <3>2. CASE Succeeds /\ DependsOnMore(cmd.key)
      BY <3>1, <3>2, AdditionOrdered
    <3>3. CASE FailsWith(FALSE) /\ Keep
      BY <3>1, <3>3, FailureOrdered DEF Keep
    <3> QED BY <2>4, <3>2, <3>3 DEF ExecutableLoadCode
  <2>5. CASE DispatchArg
    BY <2>5, AdditionOrdered DEF DispatchArg, Adding
  <2>6. CASE DispatchCreateFails \/ DispatchCreateQueued
    BY <2>6, DispatchCreateOrdered
  <2>7. CASE DispatchExecute
    BY <2>7, CallOrdered DEF DispatchExecute, Creating, Keep, KeepQueue
  <2> QED BY <1>1, <2>1, <2>2, <2>3, <2>4, <2>5, <2>6, <2>7 DEF Commands
<1>2. CASE DeleteKey
  BY <1>2, DeleteKeyOrdered
<1>3. CASE \/ InitFails \/ InitRuntime \/ NewState \/ HsaQueueErrorCallback
           \/ EndScenario \/ StateDestroyed \/ Dispose \/ UNCHANGED vars
  BY <1>3, OutsideOrdered
<1> QED BY <1>1, <1>2, <1>3 DEF Next

LEMMA SpecOrder == Spec => [](Inv /\ Order)
<1>1. Init => Inv /\ Order
  BY InitInv, InitOrder
<1>2. (Inv /\ Order) /\ [Next]_vars => (Inv /\ Order)'
  BY StepInv, StepOrder
<1> QED BY <1>1, <1>2, PTL DEF Spec

(* No handle is left that was made from one that is gone: whatever call     *)
(* fails, and while the objects of a test are destroyed too.                *)
THEOREM UsersGoFirstHolds == Spec => []UsersGoFirst
<1>1. ASSUME Inv, Order PROVE UsersGoFirst
  <2>1. /\ Own(context) \subseteq heap /\ Lost = Left(context, heap, queue)
        /\ \A y \in queue : y.of = {}
        /\ \A x \in Lost : x.of = {}
    BY <1>1, DataGivenBack DEF Inv, Data
  <2>2. ASSUME NEW h \in heap, NEW id \in h.of PROVE id \in IdsOf(heap)
    <3>1. h \in Own(context)
      BY <2>1, <2>2 DEF Left
    <3>2. PICK k \in DOMAIN context : \E i \in DOMAIN context[k] : h = context[k][i]
      BY <3>1, OwnParts
    <3>3. PICK i \in DOMAIN context[k] : h = context[k][i]
      BY <3>2
    <3>4. Tied(context, keys, Coming, k, i, id)
      BY <1>1, <2>2, <3>3 DEF Order, Ordered
    <3>5. PICK l \in DOMAIN context : \E j \in DOMAIN context[l] : context[l][j].id = id
      BY <3>4 DEF Tied
    <3>6. PICK j \in DOMAIN context[l] : context[l][j].id = id
      BY <3>5
    <3>7. context[l][j] \in heap
      BY <2>1, OwnParts
    <3> QED BY <3>6, <3>7 DEF IdsOf
  <2> QED BY <2>2 DEF UsersGoFirst
<1> QED BY <1>1, SpecOrder, PTL

(* A command of a test finds each object it gets, and the runtime finds a   *)
(* queue to destroy when no test failed since the last that made one.       *)
THEOREM AssertionsHoldHolds == Spec => []AssertionsHold
<1>1. ASSUME Order PROVE AssertionsHold
  <2>1. ASSUME pc = "test", step <= Len(Scenario) PROVE cmd.from \subseteq DOMAIN context
    <3>1. step \in DOMAIN Scenario /\ Made
      <4>1. Scenario \in Seq(Commanded) /\ step \in Nat \ {0} /\ Made
        BY <1>1, <2>1, ScenarioIs DEF Order
      <4> HIDE DEF Commanded
      <4> QED BY <2>1, <4>1
    <3>2. \A l \in Scenario[step].from : MadeBefore(l, step)
      BY <3>1, ScenarioOrder
    <3> QED BY <3>1, <3>2 DEF Made, MadeBefore, cmd
  <2>2. fault = "no queue" => ~ok
    BY <1>1 DEF Order
  <2> QED BY <2>1, <2>2 DEF AssertionsHold
<1> QED BY <1>1, SpecOrder, PTL
=============================================================================
