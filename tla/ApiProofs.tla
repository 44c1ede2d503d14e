----------------------------- MODULE ApiProofs -----------------------------
(***************************************************************************)
(* TLAPS proofs about the steps of the solver and the former interface:    *)
(* for any number of orderings, analyses and sets of values, and whatever  *)
(* schedulers the application chooses.  What holds only because the        *)
(* application abstains from a call has that caution as its hypothesis.    *)
(***************************************************************************)
EXTENDS OldApi, SequenceTheorems, TLAPS

MatrixType == [order : Nat, coef : {"none", "filled", "factorized"}, values : Nat, released : Nat]

Fields == {"rc", "steps", "iparm", "sched", "graph", "ordemesh", "order", "symbmtx", "bcsc",
           "solvmatr", "solvloc", "solvglob", "heap", "mixed"}

(* Every field of pastix_data keeps its type.                              *)
Typed(d) ==
    /\ DOMAIN d = Fields
    /\ d.rc \in {"ok", "error"} /\ d.steps \subseteq Steps
    /\ d.iparm \in AllSchedulers /\ d.sched \in AllSchedulers
    /\ d.graph \in BOOLEAN /\ d.ordemesh \in {"null", "empty", "built"}
    /\ d.order \in Nat /\ d.symbmtx \in Nat
    /\ d.bcsc.order \in Nat /\ d.bcsc.values \in Nat
    /\ d.solvmatr \in Nat /\ d.solvloc \in Nat /\ d.solvglob \in Nat
    /\ d.heap \in Seq(MatrixType) /\ d.mixed \in BOOLEAN

(* The solver matrix in use is one of the two of the instance.             *)
Pointers(d) ==
    /\ d.solvloc <= Len(d.heap) /\ d.solvglob <= Len(d.heap)
    /\ d.solvmatr \in {d.solvloc, d.solvglob}
    /\ d.solvloc = 0 <=> d.solvglob = 0
    /\ d.solvloc = d.solvglob => d.solvloc = 0

(* A step is done only if those it needs are.                              *)
Bits(d) ==
    /\ "symbfact"  \in d.steps => "ordering" \in d.steps
    /\ "analyse"   \in d.steps => "symbfact" \in d.steps /\ d.solvloc # 0 /\ d.solvglob # 0
    /\ "csc2bcsc"  \in d.steps => "analyse" \in d.steps
    /\ "bcsc2ctab" \in d.steps => "csc2bcsc" \in d.steps
    /\ "numfact"   \in d.steps => "csc2bcsc" \in d.steps /\ "bcsc2ctab" \notin d.steps

(* Since the values were copied, the last scheduler taken is of the family *)
(* of the solver matrix in use.                                            *)
Family(d) ==
    /\ d.mixed = FALSE
    /\ "csc2bcsc" \in d.steps => ((d.sched \in Runtimes) <=> (d.solvmatr = d.solvglob))

Sound(d) == Typed(d) /\ Pointers(d) /\ Bits(d) /\ Family(d)

(* Each bit stands for data that are there and agree.  Both solver         *)
(* matrices are for the current ordering, the next step may take either;   *)
(* a symbol is there only with the graph, which the reordering needs.      *)
Means(d) ==
    /\ "ordering"  \in d.steps => d.ordemesh = "built"
    /\ "symbfact"  \in d.steps => d.symbmtx = d.order \/ (d.symbmtx = 0 /\ "analyse" \in d.steps)
    /\ d.symbmtx # 0 => d.graph = TRUE
    /\ "analyse"   \in d.steps =>
          d.heap[d.solvloc].order = d.order /\ d.heap[d.solvglob].order = d.order
    /\ "csc2bcsc"  \in d.steps => d.bcsc.order = d.order
    /\ "bcsc2ctab" \in d.steps =>
          d.heap[d.solvmatr].coef = "filled" /\ d.heap[d.solvmatr].values = d.bcsc.values
    /\ "numfact"   \in d.steps =>
          d.heap[d.solvmatr].coef = "factorized" /\ d.heap[d.solvmatr].values = d.bcsc.values

Memory(d) ==
    \A p \in 1 .. Len(d.heap) :
        d.heap[p].released = IF p \in {d.solvloc, d.solvglob} THEN 0 ELSE 1

(* What a handler keeps, from d to e, and when.                            *)
Keeps(d, e, whenMeans, whenMemory) ==
    /\ Sound(d) => Sound(e)
    /\ Sound(d) /\ Means(d) /\ whenMeans => Means(e)
    /\ Sound(d) /\ Memory(d) /\ whenMemory => Memory(e)

(* A handler changes some fields of pastix_data at most.                   *)
Changes(d, e, F) == DOMAIN e = Fields /\ \A f \in Fields \ F : e[f] = d[f]

-----------------------------------------------------------------------------
LEMMA StepSets ==
    /\ AfterAnalyse \subseteq AfterSymbfact /\ AfterSymbfact \subseteq AfterOrdering
    /\ AfterOrdering \subseteq Steps /\ "ordering" \in Steps /\ "symbfact" \in Steps
    /\ "analyse" \in Steps /\ "csc2bcsc" \in Steps /\ "bcsc2ctab" \in Steps /\ "numfact" \in Steps
  BY DEF AfterOrdering, AfterSymbfact, AfterAnalyse, Steps

(* A refused call, and one that only chooses a scheduler, change nothing   *)
(* that the invariants are about.                                          *)
LEMMA RefuseKeeps ==
    ASSUME NEW d, NEW e, Sound(d), Changes(d, e, {"rc", "iparm"}),
           e.rc \in {"ok", "error"}, e.iparm \in AllSchedulers
    PROVE  Keeps(d, e, TRUE, TRUE)
<1>1. Typed(e) /\ Pointers(e) /\ Bits(e) /\ Family(e)
  BY DEF Sound, Typed, Pointers, Bits, Family, Changes, Fields
<1>2. Means(d) => Means(e)
  BY DEF Sound, Typed, Means, Changes, Fields
<1>3. Memory(d) => Memory(e)
  BY DEF Memory, Changes, Fields
<1> QED
  BY <1>1, <1>2, <1>3 DEF Keeps, Sound

LEMMA OrderKeeps ==
    ASSUME NEW d, Sound(d), NEW ok \in BOOLEAN
    PROVE  /\ Keeps(d, Order(d, ok), ok \/ "ordering" \notin d.steps, TRUE)
           /\ Order(d, ok).rc = "ok" => Order(d, ok).order # 0
           /\ Order(d, ok).solvmatr = d.solvmatr /\ Order(d, ok).solvglob = d.solvglob
<1> DEFINE e == Order(d, ok)
<1>1. CASE "init" \in d.steps
  <2>1. /\ Changes(d, e, {"rc", "order", "graph", "ordemesh", "steps"})
        /\ e.rc = (IF ok THEN "ok" ELSE "error")
        /\ e.order = d.order + 1 /\ e.graph = TRUE
        /\ e.ordemesh = (IF ok THEN "built" ELSE "empty")
        /\ e.steps = IF ok THEN (d.steps \ AfterOrdering) \cup {"ordering"} ELSE d.steps
    BY <1>1 DEF Sound, Typed, Order, Complete, Refuse, Fields, Changes
  <2> HIDE DEF e
  <2>2. Typed(e)
    <3>1. e.steps \subseteq Steps
      BY <2>1, StepSets DEF Sound, Typed
    <3>2. e.order \in Nat /\ e.ordemesh \in {"null", "empty", "built"} /\ e.rc \in {"ok", "error"}
      BY <2>1 DEF Sound, Typed
    <3> QED
      BY <2>1, <3>1, <3>2 DEF Sound, Typed, Changes, Fields
  <2>6. Pointers(e) /\ Family(e)
    BY <2>1 DEF Sound, Pointers, Family, Changes, Fields
  <2>7. Bits(e)
    BY <2>1 DEF Sound, Bits, Changes, Fields, AfterOrdering, AfterSymbfact, AfterAnalyse
  <2>3. ASSUME Means(d), ok \/ "ordering" \notin d.steps PROVE Means(e)
    <3>1. \A s \in {"symbfact", "analyse", "csc2bcsc", "bcsc2ctab", "numfact"} : s \notin e.steps
      BY <2>1, <2>3 DEF Sound, Bits, AfterOrdering, AfterSymbfact, AfterAnalyse
    <3>2. "ordering" \in e.steps => e.ordemesh = "built"
      BY <2>1, <2>3
    <3> QED
      BY <2>1, <3>1, <3>2 DEF Means
  <2>4. Memory(d) => Memory(e)
    BY <2>1 DEF Memory, Changes, Fields
  <2>5. e.order # 0 /\ e.solvmatr = d.solvmatr /\ e.solvglob = d.solvglob
    BY <2>1 DEF Sound, Typed, Changes, Fields
  <2> QED
    BY <2>2, <2>3, <2>4, <2>5, <2>6, <2>7 DEF Keeps, Sound, e
<1>2. CASE "init" \notin d.steps
  <2>1. Changes(d, e, {"rc", "iparm"}) /\ e.rc = "error" /\ e.iparm = d.iparm
    BY <1>2 DEF Sound, Typed, Order, Refuse, Fields, Changes
  <2> HIDE DEF e
  <2>2. Keeps(d, e, TRUE, TRUE)
    BY <2>1, RefuseKeeps DEF Sound, Typed
  <2> QED
    BY <2>1, <2>2 DEF Keeps, Changes, Fields, e
<1> QED
  BY <1>1, <1>2

LEMMA SymbfactKeeps ==
    ASSUME NEW d, Sound(d)
    PROVE  /\ Keeps(d, Symbfact(d), TRUE, TRUE)
           /\ Symbfact(d).rc = "ok" =>
                 "symbfact" \in Symbfact(d).steps /\ Symbfact(d).symbmtx = d.order
           /\ Symbfact(d).solvmatr = d.solvmatr /\ Symbfact(d).solvglob = d.solvglob
<1> DEFINE e == Symbfact(d)
<1>1. CASE "ordering" \in d.steps /\ d.graph = TRUE /\ d.ordemesh # "null"
  <2>1. /\ Changes(d, e, {"rc", "symbmtx", "steps"})
        /\ e.rc = "ok" /\ e.symbmtx = d.order
        /\ e.steps = (d.steps \ AfterSymbfact) \cup {"symbfact"}
    BY <1>1 DEF Sound, Typed, Symbfact, Complete, Fields, Changes
  <2> HIDE DEF e
  <2>2. Typed(e)
    BY <2>1, StepSets DEF Sound, Typed, Changes, Fields
  <2>6. Pointers(e) /\ Family(e)
    BY <2>1 DEF Sound, Pointers, Family, Changes, Fields, AfterSymbfact, AfterAnalyse
  <2>7. Bits(e)
    BY <1>1, <2>1 DEF Sound, Bits, Changes, Fields, AfterSymbfact, AfterAnalyse
  <2>3. ASSUME Means(d) PROVE Means(e)
    <3>1. \A s \in {"analyse", "csc2bcsc", "bcsc2ctab", "numfact"} : s \notin e.steps
      BY <2>1 DEF AfterSymbfact, AfterAnalyse
    <3>2. e.ordemesh = d.ordemesh /\ e.graph = TRUE /\ e.order = d.order
      BY <1>1, <2>1 DEF Changes, Fields
    <3>3. "ordering" \in e.steps => "ordering" \in d.steps
      BY <2>1
    <3> QED
      BY <2>1, <2>3, <3>1, <3>2, <3>3 DEF Means
  <2>4. Memory(d) => Memory(e)
    BY <2>1 DEF Memory, Changes, Fields
  <2>5. e.solvmatr = d.solvmatr /\ e.solvglob = d.solvglob
    BY <2>1 DEF Changes, Fields
  <2> QED
    BY <2>1, <2>2, <2>3, <2>4, <2>5, <2>6, <2>7 DEF Keeps, Sound, e
<1>2. CASE ~ ("ordering" \in d.steps /\ d.graph = TRUE /\ d.ordemesh # "null")
  <2>1. Changes(d, e, {"rc", "iparm"}) /\ e.rc = "error" /\ e.iparm = d.iparm
    BY <1>2 DEF Sound, Typed, Symbfact, Refuse, Fields, Changes
  <2> HIDE DEF e
  <2>2. Keeps(d, e, TRUE, TRUE)
    BY <2>1, RefuseKeeps DEF Sound, Typed
  <2> QED
    BY <2>1, <2>2 DEF Keeps, Changes, Fields, e
<1> QED
  BY <1>1, <1>2

(* The reordering is called after an accepted symbolic factorization.      *)
LEMMA ReorderingKeeps ==
    ASSUME NEW d, Sound(d)
    PROVE  /\ Keeps(d, Reordering(d), "symbfact" \in d.steps /\ d.symbmtx # 0, TRUE)
           /\ Reordering(d).solvmatr = d.solvmatr /\ Reordering(d).solvglob = d.solvglob
<1> DEFINE f == [d EXCEPT !.order = @ + 1, !.symbmtx = 0]
           g == Symbfact(f)
           e == Reordering(d)
<1>1. Changes(d, f, {"order", "symbmtx"}) /\ f.order = d.order + 1 /\ f.symbmtx = 0
  BY DEF Changes, Sound, Typed, Fields
<1>2. e = [g EXCEPT !.rc = "ok"]
  BY DEF Reordering
<1> HIDE DEF f
<1>3. Typed(f)
  BY <1>1 DEF Sound, Typed, Changes, Fields
<1>4. Pointers(f) /\ Bits(f) /\ Family(f)
  BY <1>1 DEF Sound, Pointers, Bits, Family, Changes, Fields
<1>5. Sound(f)
  BY <1>3, <1>4 DEF Sound
<1>6. Keeps(f, g, TRUE, TRUE) /\ g.solvmatr = f.solvmatr /\ g.solvglob = f.solvglob
  BY <1>5, SymbfactKeeps
<1> HIDE DEF g, e
<1>7. Sound(g)
  BY <1>5, <1>6 DEF Keeps
<1>8. Changes(g, e, {"rc", "iparm"}) /\ e.rc = "ok" /\ e.iparm = g.iparm
  BY <1>2, <1>7 DEF Changes, Sound, Typed, Fields
<1>9. Keeps(g, e, TRUE, TRUE)
  BY <1>7, <1>8, RefuseKeeps DEF Sound, Typed
<1>10. Memory(d) => Memory(f)
  BY <1>1 DEF Memory, Changes, Fields
<1>11. ASSUME Means(d), "symbfact" \in d.steps, d.symbmtx # 0 PROVE Means(g)
  <2>1. "ordering" \in f.steps /\ f.graph = TRUE /\ f.ordemesh = "built"
    BY <1>1, <1>11 DEF Means, Sound, Bits, Changes, Fields
  <2>2. /\ Changes(f, g, {"rc", "symbmtx", "steps"})
        /\ g.symbmtx = f.order /\ g.steps = (f.steps \ AfterSymbfact) \cup {"symbfact"}
    BY <2>1, <1>5 DEF g, Sound, Typed, Symbfact, Complete, Fields, Changes
  <2>3. g.ordemesh = "built" /\ g.graph = TRUE /\ g.symbmtx = g.order
    BY <2>1, <2>2 DEF Changes, Fields
  <2>4. \A s \in {"analyse", "csc2bcsc", "bcsc2ctab", "numfact"} : s \notin g.steps
    BY <2>2 DEF AfterSymbfact, AfterAnalyse
  <2> QED
    BY <2>3, <2>4 DEF Means
<1>12. Reordering(d).solvmatr = d.solvmatr /\ Reordering(d).solvglob = d.solvglob
  BY <1>1, <1>6, <1>8 DEF e, Changes, Fields
<1> QED
  BY <1>5, <1>6, <1>7, <1>9, <1>10, <1>11, <1>12 DEF Keeps, e

(* Releasing a solver matrix counts it and leaves the other ones.          *)
LEMMA ReleaseOne ==
    ASSUME NEW heap \in Seq(MatrixType), NEW p \in 0 .. Len(heap)
    PROVE  /\ Release(heap, p) \in Seq(MatrixType) /\ Len(Release(heap, p)) = Len(heap)
           /\ \A q \in 1 .. Len(heap) : Release(heap, p)[q].released =
                 heap[q].released + IF q = p THEN 1 ELSE 0
<1>3. \A q \in 1 .. Len(heap) : heap[q].released \in Nat
  <2> SUFFICES ASSUME NEW q \in 1 .. Len(heap) PROVE heap[q].released \in Nat
    OBVIOUS
  <2>1. heap[q] \in MatrixType
    BY ElementOfSeq
  <2> QED
    BY <2>1 DEF MatrixType
<1>1. CASE p = 0
  BY <1>1, <1>3 DEF Release
<1>2. CASE p # 0
  <2> DEFINE m == [NewMatrix(0) EXCEPT !.released = heap[p].released + 1]
  <2>1. p \in 1 .. Len(heap) /\ heap[p] \in MatrixType
    BY <1>2, ElementOfSeq
  <2>2. m \in MatrixType /\ m.released = heap[p].released + 1
    BY <2>1 DEF MatrixType, NewMatrix
  <2>3. Release(heap, p) = [heap EXCEPT ![p] = m]
    BY <1>2 DEF Release
  <2> HIDE DEF m
  <2> QED
    BY <2>1, <2>2, <2>3, <1>3, ExceptSeq
<1> QED
  BY <1>1, <1>2

(* blend releases the solver matrix in use and the global one: it releases *)
(* each of them once, unless they are the same one.                        *)
LEMMA BlendKeeps ==
    ASSUME NEW d, Sound(d)
    PROVE  Keeps(d, Blend(d), TRUE, ~ (d.solvmatr = d.solvglob /\ d.solvmatr # 0))
<1> DEFINE e == Blend(d)
           h == Release(Release(d.heap, d.solvmatr), d.solvglob)
           n == NewMatrix(d.order)
<1>1. CASE "symbfact" \in d.steps /\ d.ordemesh # "null" /\ d.symbmtx # 0
  <2>1. /\ Changes(d, e, {"rc", "graph", "symbmtx", "heap", "solvmatr", "solvloc", "solvglob", "steps"})
        /\ e.rc = "ok" /\ e.graph = FALSE /\ e.symbmtx = 0
        /\ e.solvmatr = Len(h) + 1 /\ e.solvloc = Len(h) + 1 /\ e.solvglob = Len(h) + 1 + 1
        /\ e.heap = h \o <<n, n>> /\ e.steps = (d.steps \ AfterAnalyse) \cup {"analyse"}
    BY <1>1 DEF Blend, Map, Complete, Sound, Typed, Changes, Fields
  <2> HIDE DEF e, n
  <2>2. d.heap \in Seq(MatrixType) /\ d.solvmatr \in 0 .. Len(d.heap) /\ d.solvglob \in 0 .. Len(d.heap)
    BY DEF Sound, Typed, Pointers
  <2>3. /\ h \in Seq(MatrixType) /\ Len(h) = Len(d.heap)
        /\ \A q \in 1 .. Len(h) : h[q].released = d.heap[q].released
              + (IF q = d.solvmatr THEN 1 ELSE 0) + IF q = d.solvglob THEN 1 ELSE 0
    BY <2>2, ReleaseOne
  <2>4. n \in MatrixType /\ n.order = d.order /\ n.released = 0
    BY DEF n, NewMatrix, MatrixType, Sound, Typed
  <2> HIDE DEF h
  <2>5. /\ e.heap \in Seq(MatrixType) /\ Len(e.heap) = Len(h) + 2 /\ Len(h) \in Nat
        /\ \A q \in 1 .. Len(h) : e.heap[q] = h[q]
        /\ e.heap[Len(h) + 1] = n /\ e.heap[Len(h) + 2] = n
    BY <2>1, <2>3, <2>4
  <2>6. Typed(e)
    <3>1. e.steps \subseteq Steps
      BY <2>1, StepSets DEF Sound, Typed
    <3>2. e.solvmatr \in Nat /\ e.solvloc \in Nat /\ e.solvglob \in Nat
      BY <2>1, <2>5
    <3>3. /\ DOMAIN e = Fields /\ e.iparm = d.iparm /\ e.sched = d.sched /\ e.ordemesh = d.ordemesh
          /\ e.order = d.order /\ e.bcsc = d.bcsc /\ e.mixed = d.mixed
          /\ e.rc = "ok" /\ e.symbmtx = 0
      BY <2>1 DEF Changes, Fields
    <3>4. e.heap \in Seq(MatrixType)
      BY <2>5
    <3>5. e.graph \in BOOLEAN
      BY <2>1, Zenon
    <3> QED
      BY <3>1, <3>2, <3>3, <3>4, <3>5 DEF Sound, Typed
  <2>7. Pointers(e)
    BY <2>1, <2>5 DEF Pointers
  <2>8. \A s \in {"csc2bcsc", "bcsc2ctab", "numfact"} : s \notin e.steps
    BY <2>1 DEF AfterAnalyse
  <2>9. "symbfact" \in e.steps /\ ("ordering" \in e.steps <=> "ordering" \in d.steps)
    BY <1>1, <2>1 DEF AfterAnalyse
  <2>10. Bits(e) /\ Family(e)
    BY <1>1, <2>1, <2>5, <2>8, <2>9 DEF Sound, Bits, Family, Changes, Fields
  <2>11. Means(d) => Means(e)
    <3>1. e.order = d.order /\ e.ordemesh = d.ordemesh /\ "analyse" \in e.steps
      BY <2>1 DEF Changes, Fields
    <3>2. e.heap[e.solvloc].order = e.order /\ e.heap[e.solvglob].order = e.order
      BY <2>1, <2>4, <2>5, <3>1
    <3> QED
      BY <2>1, <2>8, <2>9, <3>1, <3>2 DEF Means
  <2>12. ASSUME Memory(d), ~ (d.solvmatr = d.solvglob /\ d.solvmatr # 0) PROVE Memory(e)
    <3>1. \A q \in 1 .. Len(h) : h[q].released = 1
      <4> SUFFICES ASSUME NEW q \in 1 .. Len(h) PROVE h[q].released = 1
        OBVIOUS
      <4>1. d.heap[q].released = IF q \in {d.solvloc, d.solvglob} THEN 0 ELSE 1
        BY <2>3, <2>12 DEF Memory
      <4>2. q \in {d.solvloc, d.solvglob} <=> (q = d.solvmatr \/ q = d.solvglob)
        BY <2>12 DEF Sound, Pointers
      <4>3. ~ (q = d.solvmatr /\ q = d.solvglob)
        BY <2>2, <2>3, <2>12
      <4> QED
        BY <2>3, <4>1, <4>2, <4>3
    <3> QED
      BY <2>1, <2>3, <2>4, <2>5, <3>1 DEF Memory
  <2> QED
    BY <2>6, <2>7, <2>10, <2>11, <2>12 DEF Keeps, Sound, e
<1>2. CASE ~ ("symbfact" \in d.steps /\ d.ordemesh # "null" /\ d.symbmtx # 0)
  <2>1. Changes(d, e, {"rc", "iparm"}) /\ e.rc = "error" /\ e.iparm = d.iparm
    BY <1>2 DEF Sound, Typed, Blend, Refuse, Fields, Changes
  <2> HIDE DEF e
  <2>2. Keeps(d, e, TRUE, TRUE)
    BY <2>1, RefuseKeeps DEF Sound, Typed
  <2> QED
    BY <2>2 DEF Keeps, e
<1> QED
  BY <1>1, <1>2

(* A task goes on with its next subtask or stops there.                    *)
LEMMA AnalyzeKeeps ==
    ASSUME NEW d, Sound(d), NEW ok \in BOOLEAN
    PROVE  Keeps(d, Analyze(d, ok), ok \/ "ordering" \notin d.steps,
                 ~ (d.solvmatr = d.solvglob /\ d.solvmatr # 0))
<1> DEFINE a == Order(d, ok)
           b == IF a.rc = "ok" THEN Symbfact(a) ELSE a
           c == IF b.rc = "ok" THEN Reordering(b) ELSE b
           e == IF c.rc = "ok" THEN Blend(c) ELSE c
<1>1. CASE "init" \notin d.steps
  <2>1. Changes(d, Refuse(d), {"rc", "iparm"}) /\ Refuse(d).rc = "error" /\ Refuse(d).iparm = d.iparm
    BY DEF Sound, Typed, Refuse, Fields, Changes
  <2>2. Keeps(d, Refuse(d), TRUE, TRUE)
    BY <2>1, RefuseKeeps DEF Sound, Typed
  <2> QED
    BY <1>1, <2>2 DEF Analyze, Keeps
<1>2. CASE "init" \in d.steps
  <2>1. Analyze(d, ok) = e
    BY <1>2 DEF Analyze, Then
  <2>2. /\ Keeps(d, a, ok \/ "ordering" \notin d.steps, TRUE)
        /\ a.rc = "ok" => a.order # 0
        /\ a.solvmatr = d.solvmatr /\ a.solvglob = d.solvglob
    BY OrderKeeps
  <2> HIDE DEF a
  <2>3. /\ Keeps(a, b, TRUE, TRUE) /\ b.solvmatr = a.solvmatr /\ b.solvglob = a.solvglob
        /\ b.rc = "ok" => "symbfact" \in b.steps /\ b.symbmtx # 0
    <3>1. Sound(a)
      BY <2>2 DEF Keeps
    <3> QED
      BY <2>2, <3>1, SymbfactKeeps DEF Keeps
  <2> HIDE DEF b
  <2>4. Keeps(b, c, TRUE, TRUE) /\ c.solvmatr = b.solvmatr /\ c.solvglob = b.solvglob
    <3>1. Sound(b)
      BY <2>2, <2>3 DEF Keeps
    <3> QED
      BY <2>3, <3>1, ReorderingKeeps DEF Keeps
  <2> HIDE DEF c
  <2>5. Keeps(c, e, TRUE, ~ (c.solvmatr = c.solvglob /\ c.solvmatr # 0))
    <3>1. Sound(c)
      BY <2>2, <2>3, <2>4 DEF Keeps
    <3> QED
      BY <3>1, BlendKeeps DEF Keeps
  <2> HIDE DEF e
  <2> QED
    BY <2>1, <2>2, <2>3, <2>4, <2>5 DEF Keeps
<1> QED
  BY <1>1, <1>2

-----------------------------------------------------------------------------
(* The copy of the values chooses the solver matrix, hence must not come   *)
(* between a factorization and the solves.                                 *)
LEMMA Spm2bcscKeeps ==
    ASSUME NEW d, Sound(d), values \in Nat
    PROVE  Keeps(d, Spm2bcsc(d), "numfact" \notin d.steps, TRUE)
<1> DEFINE e == Spm2bcsc(d)
           s == IF d.iparm \in Runtimes /\ setup.ldlt THEN "dynamic" ELSE d.iparm
<1>1. CASE "analyse" \in d.steps
  <2>1. /\ Changes(d, e, {"rc", "sched", "solvmatr", "bcsc", "steps"})
        /\ e.rc = "ok" /\ e.sched = s
        /\ e.solvmatr = (IF s \in Runtimes THEN d.solvglob ELSE d.solvloc)
        /\ e.bcsc = [order |-> d.order, values |-> values]
        /\ e.steps = (d.steps \ {"bcsc2ctab"}) \cup {"csc2bcsc"}
    BY <1>1 DEF Spm2bcsc, Complete, Sound, Typed, Changes, Fields
  <2>2. s \in AllSchedulers
    BY DEF Sound, Typed, AllSchedulers
  <2> HIDE DEF e, s
  <2>3. Typed(e)
    <3>1. e.steps \subseteq Steps
      BY <2>1, StepSets DEF Sound, Typed
    <3>2. e.bcsc.order \in Nat /\ e.bcsc.values \in Nat /\ e.solvmatr \in Nat
      BY <2>1 DEF Sound, Typed
    <3>3. /\ DOMAIN e = Fields /\ e.iparm = d.iparm /\ e.ordemesh = d.ordemesh /\ e.order = d.order
          /\ e.mixed = d.mixed /\ e.graph = d.graph /\ e.symbmtx = d.symbmtx
          /\ e.solvloc = d.solvloc /\ e.solvglob = d.solvglob /\ e.heap = d.heap
      BY <2>1 DEF Changes, Fields
    <3> QED
      BY <2>1, <2>2, <3>1, <3>2, <3>3 DEF Sound, Typed
  <2>4. Pointers(e) /\ Bits(e)
    BY <1>1, <2>1 DEF Sound, Pointers, Bits, Changes, Fields
  <2>5. Family(e)
    <3>1. d.solvloc # d.solvglob
      BY <1>1 DEF Sound, Pointers, Bits
    <3> QED
      BY <2>1, <3>1 DEF Sound, Family, Changes, Fields
  <2>6. ASSUME Means(d), "numfact" \notin d.steps PROVE Means(e)
    BY <1>1, <2>1, <2>6 DEF Means, Changes, Fields
  <2>7. Memory(d) => Memory(e)
    BY <2>1 DEF Memory, Changes, Fields
  <2> QED
    BY <2>3, <2>4, <2>5, <2>6, <2>7 DEF Keeps, Sound, e
<1>2. CASE "analyse" \notin d.steps
  <2>1. Changes(d, e, {"rc", "iparm"}) /\ e.rc = "error" /\ e.iparm = d.iparm
    BY <1>2 DEF Sound, Typed, Spm2bcsc, Refuse, Fields, Changes
  <2> HIDE DEF e
  <2>2. Keeps(d, e, TRUE, TRUE)
    BY <2>1, RefuseKeeps DEF Sound, Typed
  <2> QED
    BY <2>2 DEF Keeps, e
<1> QED
  BY <1>1, <1>2

(* Whatever the application asks for, the scheduler that is taken is of    *)
(* the family of the solver matrix, if there are several processes.        *)
LEMMA CheckSchedulerKeeps ==
    ASSUME NEW d, Sound(d)
    PROVE  LET e == CheckScheduler(d) IN
           /\ Sound(e) /\ (Means(d) => Means(e)) /\ (Memory(d) => Memory(e))
           /\ Changes(d, e, {"iparm", "sched"})
           /\ "csc2bcsc" \in d.steps /\ setup.distributed =>
                 ((e.iparm \in Runtimes) <=> (e.solvmatr = e.solvglob))
<1> DEFINE e == CheckScheduler(d)
           wrong == \/ d.iparm \in Runtimes /\ d.solvmatr # d.solvglob
                    \/ d.iparm \notin Runtimes /\ d.solvmatr # d.solvloc
           s == IF wrong THEN d.sched ELSE d.iparm
<1>1. /\ Changes(d, e, {"iparm", "sched"})
      /\ setup.distributed => e.iparm = s /\ e.sched = s
      /\ ~ setup.distributed => e.iparm = d.iparm /\ e.sched = d.sched
  BY DEF CheckScheduler, Sound, Typed, Changes, Fields
<1>2. s \in AllSchedulers
  BY DEF Sound, Typed
<1>3. "csc2bcsc" \in d.steps => d.solvloc # d.solvglob
  BY DEF Sound, Pointers, Bits
<1>4. "csc2bcsc" \in d.steps => ((s \in Runtimes) <=> (d.solvmatr = d.solvglob))
  BY <1>3 DEF Sound, Family, Pointers
<1> HIDE DEF e, s
<1>5. Typed(e)
  BY <1>1, <1>2 DEF Sound, Typed, Changes, Fields
<1>6. Pointers(e) /\ Bits(e)
  BY <1>1 DEF Sound, Pointers, Bits, Changes, Fields
<1>7. Family(e)
  BY <1>1, <1>4 DEF Sound, Family, Changes, Fields
<1>8. Means(d) => Means(e)
  BY <1>1 DEF Means, Changes, Fields
<1>9. Memory(d) => Memory(e)
  BY <1>1 DEF Memory, Changes, Fields
<1>10. "csc2bcsc" \in d.steps /\ setup.distributed =>
                 ((e.iparm \in Runtimes) <=> (e.solvmatr = e.solvglob))
  BY <1>1, <1>4 DEF Changes, Fields
<1> QED
  BY <1>1, <1>5, <1>6, <1>7, <1>8, <1>9, <1>10 DEF e, Sound

(* The solver matrix in use becomes m, for the same ordering.              *)
Fills(d, e, m) ==
    /\ Changes(d, e, {"rc", "steps", "heap"}) /\ e.rc = "ok"
    /\ e.heap = [d.heap EXCEPT ![d.solvmatr] = m]
    /\ m \in MatrixType
    /\ m.order = d.heap[d.solvmatr].order /\ m.released = d.heap[d.solvmatr].released
    /\ "analyse" \in d.steps /\ e.steps \subseteq Steps /\ Bits(e)
    /\ "csc2bcsc" \in e.steps => "csc2bcsc" \in d.steps

(* Filling the coefficients in, or factorizing them, changes the solver    *)
(* matrix in use and no other.                                             *)
LEMMA FillsKeep ==
    ASSUME NEW d, NEW e, NEW m, Sound(d), Fills(d, e, m)
    PROVE  /\ Sound(e) /\ (Memory(d) => Memory(e))
           /\ e.heap[e.solvmatr] = m
           /\ \A p \in {d.solvloc, d.solvglob} : e.heap[p].order = d.heap[p].order
<1> USE DEF Fills
<1>1. d.solvmatr \in 1 .. Len(d.heap) /\ d.heap \in Seq(MatrixType)
  BY DEF Sound, Typed, Pointers, Bits
<1>2. /\ e.heap \in Seq(MatrixType) /\ Len(e.heap) = Len(d.heap) /\ e.heap[d.solvmatr] = m
      /\ \A p \in 1 .. Len(d.heap) : e.heap[p] = IF p = d.solvmatr THEN m ELSE d.heap[p]
  BY <1>1, ExceptSeq
<1>3. e.solvmatr = d.solvmatr /\ e.solvloc = d.solvloc /\ e.solvglob = d.solvglob
  BY DEF Changes, Fields
<1>4. Typed(e)
  <2>1. /\ DOMAIN e = Fields /\ e.iparm = d.iparm /\ e.sched = d.sched /\ e.ordemesh = d.ordemesh
        /\ e.order = d.order /\ e.bcsc = d.bcsc /\ e.graph = d.graph /\ e.symbmtx = d.symbmtx
        /\ e.mixed = d.mixed
    BY DEF Changes, Fields
  <2> QED
    BY <1>2, <1>3, <2>1 DEF Sound, Typed
<1>5. Pointers(e) /\ Family(e)
  BY <1>2, <1>3 DEF Sound, Pointers, Family, Changes, Fields
<1>6. Memory(d) => Memory(e)
  BY <1>2, <1>3 DEF Memory
<1>7. \A p \in {d.solvloc, d.solvglob} : e.heap[p].order = d.heap[p].order
  BY <1>2 DEF Sound, Typed, Pointers, Bits
<1> QED
  BY <1>2, <1>3, <1>4, <1>5, <1>6, <1>7 DEF Sound

LEMMA Bcsc2ctabKeeps ==
    ASSUME NEW d, Sound(d)
    PROVE  Keeps(d, Bcsc2ctab(d), TRUE, TRUE)
<1> DEFINE c == CheckScheduler(d)
           e == Bcsc2ctab(d)
           m == [c.heap[c.solvmatr] EXCEPT !.coef = "filled", !.values = c.bcsc.values]
<1>1. Sound(c) /\ (Means(d) => Means(c)) /\ (Memory(d) => Memory(c)) /\ Changes(d, c, {"iparm", "sched"})
  BY CheckSchedulerKeeps
<1>2. CASE "csc2bcsc" \notin d.steps \/ d.bcsc = NoBcsc
  <2>1. Changes(d, e, {"rc", "iparm"}) /\ e.rc = "error" /\ e.iparm = d.iparm
    BY <1>2 DEF Sound, Typed, Bcsc2ctab, Refuse, Fields, Changes
  <2> HIDE DEF e
  <2>2. Keeps(d, e, TRUE, TRUE)
    BY <2>1, RefuseKeeps DEF Sound, Typed
  <2> QED
    BY <2>2 DEF Keeps, e
<1>3. CASE "csc2bcsc" \in d.steps /\ d.bcsc # NoBcsc /\ e = Refuse(c)
  <2> HIDE DEF c
  <2>1. Changes(c, e, {"rc", "iparm"}) /\ e.rc = "error" /\ e.iparm = c.iparm
    BY <1>1, <1>3 DEF Sound, Typed, Refuse, Fields, Changes
  <2> HIDE DEF e
  <2>2. Keeps(c, e, TRUE, TRUE)
    BY <1>1, <2>1, RefuseKeeps DEF Sound, Typed
  <2> QED
    BY <1>1, <2>2 DEF Keeps, e
<1>4. CASE /\ "csc2bcsc" \in d.steps /\ d.bcsc # NoBcsc
           /\ e = Complete([c EXCEPT !.heap[c.solvmatr].coef = "filled",
                                     !.heap[c.solvmatr].values = c.bcsc.values], "bcsc2ctab", {"numfact"})
  <2> HIDE DEF c
  <2>1. "csc2bcsc" \in c.steps /\ "analyse" \in c.steps
    BY <1>1, <1>4 DEF Sound, Bits, Changes, Fields
  <2>2. c.solvmatr \in 1 .. Len(c.heap) /\ c.heap \in Seq(MatrixType)
    BY <1>1, <2>1 DEF Sound, Typed, Pointers, Bits
  <2>3. c.heap[c.solvmatr] \in MatrixType
    BY <2>2, ElementOfSeq
  <2>4. /\ m \in MatrixType /\ m.order = c.heap[c.solvmatr].order
        /\ m.released = c.heap[c.solvmatr].released /\ m.coef = "filled" /\ m.values = c.bcsc.values
    BY <1>1, <2>3 DEF MatrixType, Sound, Typed
  <2>5. /\ Changes(c, e, {"rc", "steps", "heap"})
        /\ e.rc = "ok" /\ e.steps = (c.steps \ {"numfact"}) \cup {"bcsc2ctab"}
    BY <1>1, <1>4 DEF Complete, Sound, Typed, Changes, Fields
  <2>6. e.heap = [c.heap EXCEPT ![c.solvmatr] = m]
    <3> DEFINE h1 == [c.heap EXCEPT ![c.solvmatr].coef = "filled"]
               h2 == [h1 EXCEPT ![c.solvmatr].values = c.bcsc.values]
    <3>1. e.heap = h2
      BY <1>1, <1>4 DEF Complete, Sound, Typed, Fields
    <3>2. h2 = [c.heap EXCEPT ![c.solvmatr] = m]
      BY <2>2
    <3> QED
      BY <3>1, <3>2
  <2> HIDE DEF e, m
  <2>7. Bits(e) /\ e.steps \subseteq Steps
    BY <1>1, <2>1, <2>5, StepSets DEF Sound, Typed, Bits, Changes, Fields
  <2>8. /\ Sound(e) /\ (Memory(c) => Memory(e)) /\ e.heap[e.solvmatr] = m
        /\ \A p \in {c.solvloc, c.solvglob} : e.heap[p].order = c.heap[p].order
    <3>1. Fills(c, e, m)
      BY <2>1, <2>4, <2>5, <2>6, <2>7 DEF Fills
    <3> QED
      BY <1>1, <3>1, FillsKeep
  <2>9. ASSUME Means(c) PROVE Means(e)
    BY <2>1, <2>4, <2>5, <2>8, <2>9 DEF Means, Changes, Fields
  <2> QED
    BY <1>1, <2>8, <2>9 DEF Keeps, e
<1> QED
  BY <1>2, <1>3, <1>4 DEF Bcsc2ctab

(* A numerical step runs on a scheduler of the right family.               *)
LEMMA UseKeeps ==
    ASSUME NEW c, Sound(c),
           setup.distributed => ((c.iparm \in Runtimes) <=> (c.solvmatr = c.solvglob))
    PROVE  Changes(c, Use(c), {"mixed"}) /\ Use(c).mixed = FALSE
  BY DEF Use, Sound, Typed, Family, Changes, Fields

LEMMA SopalinKeeps ==
    ASSUME NEW d, Sound(d)
    PROVE  Keeps(d, Sopalin(d), TRUE, TRUE)
<1> DEFINE c == CheckScheduler(d)
           u == Use(c)
           e == Sopalin(d)
           m == [c.heap[c.solvmatr] EXCEPT !.coef = "factorized"]
<1>1. /\ Sound(c) /\ (Means(d) => Means(c)) /\ (Memory(d) => Memory(c)) /\ Changes(d, c, {"iparm", "sched"})
      /\ "csc2bcsc" \in d.steps /\ setup.distributed =>
                 ((c.iparm \in Runtimes) <=> (c.solvmatr = c.solvglob))
  BY CheckSchedulerKeeps
<1>2. CASE ~ {"analyse", "csc2bcsc", "bcsc2ctab"} \subseteq d.steps \/ d.bcsc = NoBcsc
  <2>1. Changes(d, e, {"rc", "iparm"}) /\ e.rc = "error" /\ e.iparm = d.iparm
    BY <1>2 DEF Sound, Typed, Sopalin, Refuse, Fields, Changes
  <2> HIDE DEF e
  <2>2. Keeps(d, e, TRUE, TRUE)
    BY <2>1, RefuseKeeps DEF Sound, Typed
  <2> QED
    BY <2>2 DEF Keeps, e
<1>3. CASE {"analyse", "csc2bcsc", "bcsc2ctab"} \subseteq d.steps /\ d.bcsc # NoBcsc
  <2>0. e = Complete([u EXCEPT !.heap[c.solvmatr].coef = "factorized"], "numfact", {"bcsc2ctab"})
    BY <1>3 DEF Sopalin
  <2> HIDE DEF c
  <2>1. "csc2bcsc" \in c.steps /\ "analyse" \in c.steps /\ "bcsc2ctab" \in c.steps
    BY <1>1, <1>3 DEF Changes, Fields
  <2>2. c.solvmatr \in 1 .. Len(c.heap) /\ c.heap \in Seq(MatrixType)
    BY <1>1, <2>1 DEF Sound, Typed, Pointers, Bits
  <2>3. c.heap[c.solvmatr] \in MatrixType
    BY <2>2, ElementOfSeq
  <2>4. /\ m \in MatrixType /\ m.order = c.heap[c.solvmatr].order
        /\ m.released = c.heap[c.solvmatr].released /\ m.coef = "factorized"
        /\ m.values = c.heap[c.solvmatr].values
    BY <1>1, <2>3 DEF MatrixType, Sound, Typed
  <2>5. Changes(c, u, {"mixed"}) /\ u.mixed = FALSE
    BY <1>1, <1>3, UseKeeps
  <2> HIDE DEF u
  <2>6. /\ Changes(u, e, {"rc", "steps", "heap"})
        /\ e.rc = "ok" /\ e.steps = (u.steps \ {"bcsc2ctab"}) \cup {"numfact"}
        /\ e.heap = [u.heap EXCEPT ![c.solvmatr].coef = "factorized"]
    BY <2>0, <2>5 DEF Complete, Changes, Fields
  <2> HIDE DEF e, m
  <2>7. /\ Changes(c, e, {"rc", "steps", "heap"})
        /\ e.rc = "ok" /\ e.steps = (c.steps \ {"bcsc2ctab"}) \cup {"numfact"}
    <3>1. c.mixed = FALSE
      BY <1>1 DEF Sound, Family
    <3> QED
      BY <2>5, <2>6, <3>1 DEF Changes, Fields
  <2>8. e.heap = [c.heap EXCEPT ![c.solvmatr] = m]
    <3>1. e.heap = [c.heap EXCEPT ![c.solvmatr].coef = "factorized"]
      BY <2>5, <2>6 DEF Changes, Fields
    <3> QED
      BY <3>1, <2>2 DEF m
  <2>9. Bits(e) /\ e.steps \subseteq Steps
    <3>1. e.solvloc = c.solvloc /\ e.solvglob = c.solvglob
      BY <2>7 DEF Changes, Fields
    <3> QED
      BY <1>1, <2>1, <2>5, <2>7, <3>1, StepSets DEF Sound, Typed, Bits
  <2>10. /\ Sound(e) /\ (Memory(c) => Memory(e)) /\ e.heap[e.solvmatr] = m
         /\ \A p \in {c.solvloc, c.solvglob} : e.heap[p].order = c.heap[p].order
    <3>1. Fills(c, e, m)
      BY <2>1, <2>4, <2>7, <2>8, <2>9 DEF Fills
    <3> QED
      BY <1>1, <3>1, FillsKeep
  <2>11. ASSUME Means(c) PROVE Means(e)
    BY <2>1, <2>4, <2>7, <2>10, <2>11 DEF Means, Changes, Fields
  <2> QED
    BY <1>1, <2>10, <2>11 DEF Keeps, e
<1> QED
  BY <1>2, <1>3

(* pastix_task_numfact forgets the former factorization before it copies   *)
(* the values.                                                             *)
LEMMA NumfactKeeps ==
    ASSUME NEW d, Sound(d), values \in Nat
    PROVE  Keeps(d, Numfact(d), TRUE, TRUE)
<1> DEFINE f == [d EXCEPT !.steps = @ \ AfterAnalyse]
           a == Spm2bcsc(f)
           b == IF a.rc = "ok" THEN Bcsc2ctab(a) ELSE a
           e == IF b.rc = "ok" THEN Sopalin(b) ELSE b
<1>1. CASE "analyse" \notin d.steps
  <2>1. Changes(d, Refuse(d), {"rc", "iparm"}) /\ Refuse(d).rc = "error" /\ Refuse(d).iparm = d.iparm
    BY DEF Sound, Typed, Refuse, Fields, Changes
  <2>2. Keeps(d, Refuse(d), TRUE, TRUE)
    BY <2>1, RefuseKeeps DEF Sound, Typed
  <2> QED
    BY <1>1, <2>2 DEF Numfact, Keeps
<1>2. CASE "analyse" \in d.steps
  <2>1. Numfact(d) = e
    BY <1>2 DEF Numfact, Then
  <2>2. Changes(d, f, {"steps"}) /\ f.steps = d.steps \ AfterAnalyse
    BY DEF Sound, Typed, Changes, Fields
  <2> HIDE DEF f
  <2>3. \A s \in AfterAnalyse : s \notin f.steps
    BY <2>2
  <2>4. Keeps(d, f, TRUE, TRUE)
    <3>1. Typed(f)
      BY <2>2 DEF Sound, Typed, Changes, Fields
    <3>2. Pointers(f) /\ Family(f)
      BY <2>2, <2>3 DEF Sound, Pointers, Family, Changes, Fields, AfterAnalyse
    <3>3. Bits(f)
      BY <2>2, <2>3 DEF Sound, Bits, Changes, Fields, AfterAnalyse
    <3>4. Means(d) => Means(f)
      BY <2>2, <2>3 DEF Means, Changes, Fields, AfterAnalyse
    <3>5. Memory(d) => Memory(f)
      BY <2>2 DEF Memory, Changes, Fields
    <3> QED
      BY <3>1, <3>2, <3>3, <3>4, <3>5 DEF Keeps, Sound
  <2>5. Keeps(f, a, TRUE, TRUE)
    <3>1. Sound(f) /\ "numfact" \notin f.steps
      BY <2>3, <2>4 DEF Keeps, AfterAnalyse
    <3> QED
      BY <3>1, Spm2bcscKeeps DEF Keeps
  <2> HIDE DEF a
  <2>6. Keeps(a, b, TRUE, TRUE)
    <3>1. Sound(a)
      BY <2>4, <2>5 DEF Keeps
    <3> QED
      BY <3>1, Bcsc2ctabKeeps DEF Keeps
  <2> HIDE DEF b
  <2>7. Keeps(b, e, TRUE, TRUE)
    <3>1. Sound(b)
      BY <2>4, <2>5, <2>6 DEF Keeps
    <3> QED
      BY <3>1, SopalinKeeps DEF Keeps
  <2> HIDE DEF e
  <2> QED
    BY <2>1, <2>4, <2>5, <2>6, <2>7 DEF Keeps
<1> QED
  BY <1>1, <1>2

LEMMA SolveKeeps ==
    ASSUME NEW d, Sound(d)
    PROVE  Keeps(d, Solve(d), TRUE, TRUE) /\ Solve(d).steps = d.steps
<1> DEFINE c == CheckScheduler(d)
           u == Use(c)
           e == Solve(d)
<1>1. CASE "numfact" \notin d.steps
  <2>1. Changes(d, e, {"rc", "iparm"}) /\ e.rc = "error" /\ e.iparm = d.iparm
    BY <1>1 DEF Sound, Typed, Solve, Refuse, Fields, Changes
  <2> HIDE DEF e
  <2>2. Keeps(d, e, TRUE, TRUE) /\ e.steps = d.steps
    BY <2>1, RefuseKeeps DEF Sound, Typed, Changes, Fields
  <2> QED
    BY <2>2 DEF e
<1>2. CASE "numfact" \in d.steps
  <2>1. /\ Sound(c) /\ (Means(d) => Means(c)) /\ (Memory(d) => Memory(c))
        /\ Changes(d, c, {"iparm", "sched"})
        /\ setup.distributed => ((c.iparm \in Runtimes) <=> (c.solvmatr = c.solvglob))
    BY <1>2, CheckSchedulerKeeps DEF Sound, Bits
  <2>2. e = [u EXCEPT !.rc = "ok"]
    BY <1>2 DEF Solve
  <2> HIDE DEF c
  <2>3. Changes(c, u, {"mixed"}) /\ u.mixed = FALSE
    BY <2>1, UseKeeps
  <2> HIDE DEF u
  <2>4. Changes(u, e, {"rc"}) /\ e.rc = "ok"
    BY <2>2, <2>3 DEF Changes, Fields
  <2> HIDE DEF e
  <2>5. c.mixed = FALSE
    BY <2>1 DEF Sound, Family
  <2>6. Changes(c, e, {"rc", "iparm"}) /\ e.iparm = c.iparm
    BY <2>3, <2>4, <2>5 DEF Changes, Fields
  <2>7. Keeps(c, e, TRUE, TRUE)
    BY <2>1, <2>4, <2>6, RefuseKeeps DEF Sound, Typed
  <2>8. e.steps = d.steps
    BY <2>1, <2>6 DEF Changes, Fields
  <2> QED
    BY <2>1, <2>7, <2>8 DEF Keeps, e
<1> QED
  BY <1>1, <1>2

(* pastixFinalize releases both solver matrices and leaves no bit; pastix()*)
(* may initialize the instance again at once.                              *)
LEMMA FinalizeKeeps ==
    ASSUME NEW d, Sound(d), NEW e, Changes(Finalize(d), e, {"rc", "steps"}),
           e.rc = "ok", e.steps \subseteq {"init"}
    PROVE  Keeps(d, e, TRUE, TRUE) /\ e.solvmatr = 0
<1> DEFINE h == Release(Release(d.heap, d.solvloc), d.solvglob)
<1>1. /\ DOMAIN e = Fields /\ e.iparm = d.iparm /\ e.sched = d.iparm /\ e.graph \in BOOLEAN
      /\ e.ordemesh = "null" /\ e.order = d.order /\ e.symbmtx = 0 /\ e.bcsc = NoBcsc
      /\ e.solvmatr = 0 /\ e.solvloc = 0 /\ e.solvglob = 0 /\ e.heap = h /\ e.mixed = FALSE
  BY DEF Finalize, NewData, Changes, Fields
<1>2. d.heap \in Seq(MatrixType) /\ d.solvloc \in 0 .. Len(d.heap) /\ d.solvglob \in 0 .. Len(d.heap)
  BY DEF Sound, Typed, Pointers
<1>3. /\ h \in Seq(MatrixType) /\ Len(h) = Len(d.heap) /\ Len(h) \in Nat
      /\ \A q \in 1 .. Len(h) : h[q].released = d.heap[q].released
            + (IF q = d.solvloc THEN 1 ELSE 0) + IF q = d.solvglob THEN 1 ELSE 0
  BY <1>2, ReleaseOne
<1> HIDE DEF h
<1>4. \A s \in AfterOrdering \cup {"ordering"} : s \notin e.steps
  BY DEF AfterOrdering, AfterSymbfact, AfterAnalyse
<1>5. Typed(e)
  <2>1. e.steps \subseteq Steps
    BY DEF Steps
  <2>2. e.bcsc.order \in Nat /\ e.bcsc.values \in Nat
    BY <1>1 DEF NoBcsc
  <2>3. e.mixed \in BOOLEAN
    BY <1>1, Zenon
  <2> QED
    BY <1>1, <1>3, <2>1, <2>2, <2>3 DEF Sound, Typed
<1>6. Pointers(e) /\ Bits(e) /\ Family(e) /\ Means(e)
  BY <1>1, <1>3, <1>4 DEF Pointers, Bits, Family, Means, AfterOrdering, AfterSymbfact, AfterAnalyse
<1>7. ASSUME Memory(d) PROVE Memory(e)
  <2> SUFFICES ASSUME NEW q \in 1 .. Len(h) PROVE h[q].released = 1
    BY <1>1 DEF Memory
  <2>1. d.heap[q].released = IF q \in {d.solvloc, d.solvglob} THEN 0 ELSE 1
    BY <1>3, <1>7 DEF Memory
  <2>2. ~ (q = d.solvloc /\ q = d.solvglob)
    BY <1>2, <1>3 DEF Sound, Pointers
  <2> QED
    BY <1>3, <2>1, <2>2
<1> QED
  BY <1>1, <1>5, <1>6, <1>7 DEF Keeps, Sound

-----------------------------------------------------------------------------
(* The cautions that what each bit stands for, and the memory, rely on.    *)
Careful == {"order", "values"} \subseteq Prudence
Frees   == "release" \in Prudence

Preserves(d, e) == Keeps(d, e, Careful, Frees)

(* The application takes the return code, which changes nothing else.      *)
LEMMA CallKeeps ==
    ASSUME NEW d, NEW e, Sound(d), Preserves(d, e)
    PROVE  Preserves(d, [e EXCEPT !.rc = "ok"])
<1> DEFINE f == [e EXCEPT !.rc = "ok"]
<1>1. Sound(e)
  BY DEF Preserves, Keeps
<1>2. Changes(e, f, {"rc", "iparm"}) /\ f.rc = "ok" /\ f.iparm = e.iparm
  BY <1>1 DEF Changes, Sound, Typed, Fields
<1> HIDE DEF f
<1>3. Keeps(e, f, TRUE, TRUE)
  BY <1>1, <1>2, RefuseKeeps DEF Sound, Typed
<1>4. Preserves(d, f)
  BY <1>3 DEF Preserves, Keeps
<1> QED
  BY <1>4 DEF f

LEMMA ApiStep ==
    ASSUME Sound(data), values \in Nat, ApiNext
    PROVE  values' \in Nat /\ Preserves(data, data')
<1>1. CASE CallOrder
  <2> PICK ok \in BOOLEAN : MayOrder(ok) /\ Call(Order(data, ok))
    BY <1>1 DEF CallOrder
  <2>1. Preserves(data, Order(data, ok))
    BY OrderKeeps DEF MayOrder, Abstains, Careful, Preserves, Keeps
  <2> QED
    BY <2>1, CallKeeps DEF Call
<1>2. CASE CallSymbfact
  <2>1. Preserves(data, Symbfact(data))
    BY SymbfactKeeps DEF Preserves, Keeps
  <2> QED
    BY <1>2, <2>1, CallKeeps DEF CallSymbfact, Call
<1>3. CASE CallReordering
  <2>1. Preserves(data, Reordering(data))
    BY <1>3, ReorderingKeeps DEF CallReordering, Preserves, Keeps
  <2> QED
    BY <1>3, <2>1, CallKeeps DEF CallReordering, Call
<1>4. CASE CallBlend
  <2>1. Preserves(data, Blend(data))
    BY <1>4, BlendKeeps DEF CallBlend, MayBlend, Abstains, Frees, Preserves, Keeps
  <2> QED
    BY <1>4, <2>1, CallKeeps DEF CallBlend, Call
<1>5. CASE CallAnalyze
  <2> PICK ok \in BOOLEAN : MayOrder(ok) /\ MayBlend /\ Call(Analyze(data, ok))
    BY <1>5 DEF CallAnalyze
  <2>1. Preserves(data, Analyze(data, ok))
    BY AnalyzeKeeps DEF MayOrder, MayBlend, Abstains, Careful, Frees, Preserves, Keeps
  <2> QED
    BY <2>1, CallKeeps DEF Call
<1>6. CASE CallSpm2bcsc
  <2>1. Preserves(data, Spm2bcsc(data))
    BY <1>6, Spm2bcscKeeps DEF CallSpm2bcsc, MayCopy, Abstains, Careful, Preserves, Keeps
  <2> QED
    BY <1>6, <2>1, CallKeeps DEF CallSpm2bcsc, Call
<1>7. CASE CallBcsc2ctab
  <2>1. Preserves(data, Bcsc2ctab(data))
    BY Bcsc2ctabKeeps DEF Preserves, Keeps
  <2> QED
    BY <1>7, <2>1, CallKeeps DEF CallBcsc2ctab, Call
<1>8. CASE CallSopalin
  <2>1. Preserves(data, Sopalin(data))
    BY SopalinKeeps DEF Preserves, Keeps
  <2> QED
    BY <1>8, <2>1, CallKeeps DEF CallSopalin, Call
<1>9. CASE CallNumfact
  <2>1. Preserves(data, Numfact(data))
    BY NumfactKeeps DEF Preserves, Keeps
  <2> QED
    BY <1>9, <2>1, CallKeeps DEF CallNumfact, Call
<1>10. CASE CallSolve
  <2>1. Preserves(data, Solve(data))
    BY SolveKeeps DEF Preserves, Keeps
  <2> QED
    BY <1>10, <2>1, CallKeeps DEF CallSolve, Call
<1>11. CASE CallFinalize
  <2> DEFINE e == [Finalize(data) EXCEPT !.rc = "ok"]
  <2>1. Changes(Finalize(data), e, {"rc", "steps"}) /\ e.rc = "ok" /\ e.steps \subseteq {"init"}
    BY DEF Finalize, NewData, Changes, Fields
  <2>2. Keeps(data, e, TRUE, TRUE)
    BY <2>1, FinalizeKeeps
  <2> QED
    BY <1>11, <2>2 DEF CallFinalize, Call, Preserves, Keeps
<1>12. CASE NewValues
  BY <1>12 DEF NewValues, Preserves, Keeps
<1>13. ASSUME NEW s \in Schedulers, SetScheduler(s) PROVE values' \in Nat /\ Preserves(data, data')
  <2>1. s \in AllSchedulers
    BY ApiAssumption
  <2>2. data' = [data EXCEPT !.iparm = s] /\ values' = values
    BY <1>13 DEF SetScheduler
  <2>3. Changes(data, data', {"rc", "iparm"}) /\ data'.iparm = s /\ data'.rc \in {"ok", "error"}
    BY <2>2 DEF Sound, Typed, Changes, Fields
  <2>4. Keeps(data, data', TRUE, TRUE)
    BY <2>1, <2>3, RefuseKeeps
  <2> QED
    BY <2>2, <2>4 DEF Preserves, Keeps
<1> QED
  BY <1>1, <1>2, <1>3, <1>4, <1>5, <1>6, <1>7, <1>8, <1>9, <1>10, <1>11, <1>12, <1>13 DEF ApiNext

-----------------------------------------------------------------------------
(* pastix(): the initialization, and the tasks up to the factorization.    *)
LEMMA FactorizeKeeps ==
    ASSUME Sound(data), values \in Nat, NEW c, NEW ok \in BOOLEAN,
           Runs(c, 1) => MayOrder(ok), Runs(c, 3) => MayBlend
    PROVE  Preserves(data, Factorize(data, c, ok))
<1> DEFINE init  == [Finalize(data) EXCEPT !.steps = {"init"}]
           start == IF Runs(c, 0) THEN init ELSE data
           a == IF Runs(c, 1) /\ start.rc = "ok" THEN Order(start, ok) ELSE start
           b == IF Runs(c, 2) /\ a.rc = "ok" THEN Symbfact(a) ELSE a
           e == IF Runs(c, 3) /\ b.rc = "ok" THEN Blend(b) ELSE b
           f == IF Runs(c, 4) /\ e.rc = "ok" THEN Numfact(e) ELSE e
<1>1. Factorize(data, c, ok) = f
  BY DEF Factorize, If, Then
<1>2. /\ Keeps(data, start, TRUE, TRUE)
      /\ "ordering" \in start.steps => "ordering" \in data.steps
      /\ start.solvmatr = 0 \/ (start.solvmatr = data.solvmatr /\ start.solvglob = data.solvglob)
  <2>1. CASE Runs(c, 0)
    <3>1. Changes(Finalize(data), init, {"rc", "steps"}) /\ init.rc = "ok" /\ init.steps = {"init"}
      BY DEF Finalize, NewData, Changes, Fields
    <3> HIDE DEF init
    <3>2. Keeps(data, init, TRUE, TRUE) /\ init.solvmatr = 0
      BY <3>1, FinalizeKeeps
    <3> QED
      BY <2>1, <3>1, <3>2
  <2>2. CASE ~ Runs(c, 0)
    BY <2>2 DEF Keeps
  <2> QED
    BY <2>1, <2>2
<1> HIDE DEF start
<1>3. Sound(start)
  BY <1>2 DEF Keeps
<1>4. /\ Keeps(start, a, Careful, TRUE)
      /\ a.solvmatr = start.solvmatr /\ a.solvglob = start.solvglob
  BY <1>2, <1>3, OrderKeeps DEF Keeps, MayOrder, Abstains, Careful
<1> HIDE DEF a
<1>5. Sound(a)
  BY <1>3, <1>4 DEF Keeps
<1>6. /\ Keeps(a, b, TRUE, TRUE)
      /\ b.solvmatr = start.solvmatr /\ b.solvglob = start.solvglob
  BY <1>4, <1>5, SymbfactKeeps DEF Keeps
<1> HIDE DEF b
<1>7. Sound(b)
  BY <1>5, <1>6 DEF Keeps
<1>8. Keeps(b, e, TRUE, Frees)
  BY <1>2, <1>6, <1>7, BlendKeeps DEF Keeps, MayBlend, Abstains, Frees
<1> HIDE DEF e
<1>9. Sound(e)
  BY <1>7, <1>8 DEF Keeps
<1>10. Keeps(e, f, TRUE, TRUE)
  BY <1>9, NumfactKeeps DEF Keeps
<1> HIDE DEF f
<1> QED
  BY <1>1, <1>2, <1>4, <1>6, <1>8, <1>10 DEF Preserves, Keeps

LEMMA UncheckedKeeps ==
    ASSUME NEW d, Sound(d)
    PROVE  /\ Keeps(d, Unchecked(d), TRUE, TRUE)
           /\ Unchecked(d).rc = "ok" /\ Unchecked(d).steps = d.steps
<1> DEFINE e == Solve(d)
           f == Unchecked(d)
<1>1. Keeps(d, e, TRUE, TRUE) /\ e.steps = d.steps
  BY SolveKeeps
<1>2. f = [e EXCEPT !.rc = "ok"]
  BY DEF Unchecked
<1> HIDE DEF e, f
<1>3. Sound(e)
  BY <1>1 DEF Keeps
<1>4. Changes(e, f, {"rc", "iparm"}) /\ f.rc = "ok" /\ f.iparm = e.iparm /\ f.steps = e.steps
  BY <1>2, <1>3 DEF Changes, Sound, Typed, Fields
<1>5. Keeps(e, f, TRUE, TRUE)
  BY <1>3, <1>4, RefuseKeeps DEF Sound, Typed
<1> QED
  BY <1>1, <1>4, <1>5 DEF Keeps, f

(* A call of pastix() keeps what the steps keep, and answers.              *)
LEMMA PastixStep ==
    ASSUME Sound(data), values \in Nat, SolveAnswers,
           NEW first \in Tasks, NEW last \in first .. 7, NEW ok \in BOOLEAN,
           CallPastix(first, last, ok)
    PROVE  values' \in Nat /\ Preserves(data, data') /\ SolveAnswers'
<1> DEFINE c    == [first |-> first, last |-> last]
           done == Factorize(data, c, ok)
           w    == [data |-> done, vector |-> "rhs", kept |-> IF first = 0 THEN Nothing ELSE kept]
           x    == TaskSolve(w, c)
           y    == TaskRefine(x, c)
           z    == TaskClean(y, c)
           end  == IF done.rc = "error" THEN w ELSE z
<1>1. /\ Runs(c, 1) => MayOrder(ok)
      /\ Runs(c, 3) => MayBlend
      /\ data' = [end.data EXCEPT !.rc = "ok"] /\ kept' = end.kept /\ vector' = end.vector
      /\ wanted' = (IF end.data.rc = "error" THEN "rhs" ELSE Expected(c, w))
      /\ values' = values
  BY DEF CallPastix
<1>2. Preserves(data, done)
  BY <1>1, FactorizeKeeps
<1>3. Sound(done)
  BY <1>2 DEF Preserves, Keeps
<1>4. w.data = done /\ w.vector = "rhs" /\ w.kept.b = "none" /\ c.first = first /\ c.last = last
  BY DEF SolveAnswers, Nothing
<1>5. first \in Nat /\ last \in Nat /\ first <= last
  BY DEF Tasks
<1> HIDE DEF done
<1>6. /\ DOMAIN x = {"data", "vector", "kept"} /\ Keeps(done, x.data, TRUE, TRUE) /\ x.data.steps = done.steps
      /\ x.data.rc \in {"ok", done.rc}
  BY <1>3, <1>4, UncheckedKeeps DEF TaskSolve, Keeps
<1>7. Sound(x.data)
  BY <1>3, <1>6 DEF Keeps
<1>8. /\ Keeps(x.data, y.data, TRUE, TRUE) /\ y.data.rc \in {"ok", "error", done.rc}
      /\ DOMAIN y = {"data", "vector", "kept"} /\ y.kept = x.kept
  <2>1. CASE ~ Runs(c, 6)
    BY <1>6, <2>1 DEF TaskRefine, Keeps
  <2>2. CASE Runs(c, 6) /\ (x.kept.b = "none") = (x.kept.x0 = "none")
    <3>1. y = [x EXCEPT !.data.rc = "error"]
      BY <2>2 DEF TaskRefine
    <3> HIDE DEF x, y
    <3>2. /\ y.data = [x.data EXCEPT !.rc = "error"] /\ y.kept = x.kept
          /\ DOMAIN y = {"data", "vector", "kept"}
      BY <1>6, <3>1
    <3>3. /\ Changes(x.data, y.data, {"rc", "iparm"}) /\ y.data.rc = "error"
          /\ y.data.iparm = x.data.iparm
      BY <1>7, <3>2 DEF Changes, Sound, Typed, Fields
    <3> QED
      BY <1>7, <3>2, <3>3, RefuseKeeps DEF Sound, Typed
  <2>3. CASE Runs(c, 6) /\ ~ ((x.kept.b = "none") = (x.kept.x0 = "none"))
    <3>1. /\ y.data = Unchecked(x.data) /\ y.kept = x.kept
          /\ DOMAIN y = {"data", "vector", "kept"}
      BY <1>6, <2>3 DEF TaskRefine
    <3> QED
      BY <1>7, <3>1, UncheckedKeeps
  <2> QED
    BY <2>1, <2>2, <2>3
<1> HIDE DEF x
<1>9. Sound(y.data)
  BY <1>7, <1>8 DEF Keeps
<1>10. /\ Keeps(y.data, z.data, TRUE, TRUE) /\ z.vector = y.vector
       /\ z.kept = IF c.last < 6 \/ y.data.rc = "error" THEN y.kept ELSE Nothing
  <2> HIDE DEF y
  <2>1. CASE c.last < 6 \/ y.data.rc = "error"
    BY <2>1 DEF TaskClean, Keeps
  <2>2. CASE ~ (c.last < 6 \/ y.data.rc = "error")
    <3>1. /\ z.data = (IF Runs(c, 7) THEN Finalize(y.data) ELSE y.data) /\ z.kept = Nothing
          /\ z.vector = y.vector
      BY <1>8, <2>2 DEF TaskClean
    <3>2. Keeps(y.data, Finalize(y.data), TRUE, TRUE)
      <4>1. Changes(Finalize(y.data), Finalize(y.data), {"rc", "steps"})
        BY DEF Changes, Finalize, NewData, Fields
      <4>2. Finalize(y.data).rc = "ok" /\ Finalize(y.data).steps \subseteq {"init"}
        BY DEF Finalize, NewData
      <4> QED
        BY <1>9, <4>1, <4>2, FinalizeKeeps
    <3> QED
      BY <2>2, <3>1, <3>2 DEF Keeps
  <2> QED
    BY <2>1, <2>2
<1>11. Preserves(data, data')
  <2> HIDE DEF y, z
  <2>1. Preserves(data, end.data)
    BY <1>2, <1>4, <1>6, <1>8, <1>10 DEF Preserves, Keeps
  <2> QED
    BY <1>1, <2>1, CallKeeps
<1>12. SolveAnswers'
  <2>1. CASE done.rc = "error"
    BY <1>1, <1>4, <2>1 DEF SolveAnswers
  <2>2. CASE done.rc # "error" /\ ~ Runs(c, 5)
    <3>1. x = w
      BY <2>2 DEF x, TaskSolve
    <3>2. z.kept.b = "none"
      BY <1>4, <1>8, <1>10, <3>1 DEF Nothing
    <3>3. Expected(c, w) \in {"rhs", "refined later"}
      BY <1>4, <1>5, <2>2 DEF Expected, Runs
    <3> HIDE DEF y, z
    <3> QED
      BY <1>1, <2>2, <3>2, <3>3 DEF SolveAnswers
  <2>3. CASE done.rc # "error" /\ Runs(c, 5) /\ last = 5
    <3>1. x.kept.b = "none" /\ x.vector = IF Accepted(w) THEN "solution" ELSE "rhs"
      BY <1>4, <2>3 DEF x, TaskSolve
    <3>2. z = x
      BY <1>4, <2>3 DEF TaskRefine, TaskClean, Runs
    <3>3. Expected(c, w) = IF Accepted(w) THEN "solution" ELSE "rhs"
      <4>1. c.last = 5 /\ ~ (c.last < 5) /\ c.first # 7 /\ w.data.rc # "error"
        BY <1>4, <1>5, <2>3
      <4> HIDE DEF c, w
      <4>2. CASE Accepted(w)
        BY <4>1, <4>2 DEF Expected
      <4>3. CASE ~ Accepted(w)
        BY <4>1, <4>3 DEF Expected
      <4> QED
        BY <4>2, <4>3
    <3> HIDE DEF y, z
    <3> QED
      BY <1>1, <2>3, <3>1, <3>2, <3>3 DEF SolveAnswers
  <2>4. CASE done.rc # "error" /\ Runs(c, 5) /\ last # 5
    <3>1. first <= 5 /\ last >= 6
      BY <1>4, <1>5, <2>4 DEF Runs
    <3>2. x.kept = [b |-> "rhs", x0 |-> "none"]
      BY <1>4, <2>4, <3>1 DEF x, TaskSolve
    <3>3. Runs(c, 6) /\ ~ ((x.kept.b = "none") = (x.kept.x0 = "none"))
      BY <1>4, <1>5, <3>1, <3>2 DEF Runs
    <3>4. y.data = Unchecked(x.data) /\ (Accepted(x) => y.vector = "refined")
      BY <1>6, <3>2, <3>3 DEF TaskRefine
    <3>5. y.data.rc = "ok"
      BY <1>7, <3>4, UncheckedKeeps
    <3>6. Accepted(x) <=> Accepted(w)
      BY <1>4, <1>6 DEF Accepted
    <3>7. Expected(c, w) = IF Accepted(w) THEN "refined" ELSE "rhs"
      <4>1. c.last # 5 /\ ~ (c.last < 5) /\ c.first # 6 /\ c.first # 7 /\ w.data.rc # "error"
        BY <1>4, <1>5, <2>4, <3>1
      <4> HIDE DEF c, w
      <4>2. CASE Accepted(w)
        BY <4>1, <4>2 DEF Expected
      <4>3. CASE ~ Accepted(w)
        BY <4>1, <4>3 DEF Expected
      <4> QED
        BY <4>2, <4>3
    <3> HIDE DEF y, z
    <3>8. z.kept.b = "none" /\ (Accepted(w) => z.vector = "refined")
      BY <1>4, <1>10, <3>1, <3>4, <3>5, <3>6 DEF Nothing
    <3> QED
      BY <1>1, <2>4, <3>7, <3>8 DEF SolveAnswers
  <2> QED
    BY <2>1, <2>2, <2>3, <2>4
<1> QED
  BY <1>1, <1>11, <1>12

-----------------------------------------------------------------------------
(* The inductive invariant, and what the cautions add to it.               *)
ApiInv == Sound(data) /\ values \in Nat /\ SolveAnswers
ApiMeans == ApiInv /\ Means(data)
ApiMemory == ApiInv /\ Memory(data)

LEMMA InitApi == Init => ApiMeans /\ ApiMemory
<1> SUFFICES ASSUME Init PROVE ApiMeans /\ ApiMemory
  OBVIOUS
<1> PICK s \in Schedulers : data = NewData(s)
  BY DEF Init, ApiInit
<1>1. s \in AllSchedulers
  BY ApiAssumption
<1>2. Typed(data)
  BY <1>1 DEF NewData, Typed, Fields, Steps, NoBcsc
<1>3. Pointers(data) /\ Bits(data) /\ Family(data) /\ Means(data) /\ Memory(data)
  BY DEF NewData, Pointers, Bits, Family, Means, Memory
<1>4. values \in Nat /\ SolveAnswers
  BY DEF Init, ApiInit, SolveAnswers, Nothing
<1> QED
  BY <1>2, <1>3, <1>4 DEF ApiMeans, ApiMemory, ApiInv, Sound

LEMMA NextApi ==
    ASSUME ApiInv, [Next]_vars
    PROVE  ApiInv' /\ Preserves(data, data')
<1>1. ASSUME ApiNext, UNCHANGED oldVars PROVE ApiInv' /\ Preserves(data, data')
  <2>1. values' \in Nat /\ Preserves(data, data')
    BY <1>1, ApiStep DEF ApiInv
  <2>2. SolveAnswers'
    BY <1>1 DEF ApiInv, SolveAnswers, oldVars
  <2> QED
    BY <2>1, <2>2 DEF ApiInv, Preserves, Keeps
<1>2. ASSUME NEW first \in Tasks, NEW last \in first .. 7, NEW ok \in BOOLEAN,
             CallPastix(first, last, ok)
      PROVE  ApiInv' /\ Preserves(data, data')
  <2>1. values' \in Nat /\ Preserves(data, data') /\ SolveAnswers'
    BY <1>2, PastixStep DEF ApiInv
  <2> QED
    BY <2>1 DEF ApiInv, Preserves, Keeps
<1>3. CASE UNCHANGED vars
  BY <1>3 DEF vars, apiVars, oldVars, ApiInv, SolveAnswers, Preserves, Keeps
<1>4. CASE \E first \in Tasks : \E last \in first .. 7 :
           \E ok \in IF first <= 1 /\ last >= 1 THEN BOOLEAN ELSE {TRUE} : CallPastix(first, last, ok)
  BY <1>2, <1>4
<1> QED
  BY <1>1, <1>3, <1>4 DEF Next, Done

(* A step of the solver is done only if the steps it needs are, and the    *)
(* solver matrix in use is one of the instance's, whatever the application *)
(* calls in whatever order, pastix() included.                             *)
THEOREM ApiInvariant == Spec => []ApiInv
<1>1. ApiInv /\ [Next]_vars => ApiInv'
  BY NextApi
<1> QED
  BY InitApi, <1>1, PTL DEF Spec, ApiMeans

(* pastix_check_and_correct_scheduler does what it is for: with several    *)
(* processes no factorization and no solve runs on a scheduler of the      *)
(* other family than its solver matrix.                                    *)
THEOREM SameFamilyAlways == Spec => []SameFamily
<1>1. ApiInv => SameFamily
  BY DEF ApiInv, Sound, Family, SameFamily
<1> QED
  BY <1>1, ApiInvariant, PTL

(* A successful pastix() that solves returns the solution, and leaves no   *)
(* copy of a right-hand side behind it.                                    *)
THEOREM SolveAnswersAlways == Spec => []SolveAnswers
<1>1. ApiInv => SolveAnswers
  BY DEF ApiInv
<1> QED
  BY <1>1, ApiInvariant, PTL

(* Each bit of steps stands for data that are there and agree, if the      *)
(* application does not go on after an ordering that failed, and copies no *)
(* values between a factorization and its solves: these two cautions are   *)
(* enough.                                                                 *)
THEOREM StepsMeanDataAlways ==
    ASSUME {"order", "values"} \subseteq Prudence
    PROVE  Spec => []StepsMeanData
<1>1. Careful
  BY DEF Careful
<1>2. ApiMeans /\ [Next]_vars => ApiMeans'
  BY <1>1, NextApi DEF ApiMeans, ApiInv, Preserves, Keeps
<1>3. ApiMeans => StepsMeanData
  BY DEF ApiMeans, ApiInv, Sound, Bits, Pointers, Means, StepsMeanData, Matrix
<1> QED
  BY InitApi, <1>2, <1>3, PTL DEF Spec

(* Every solver matrix is released once, and never while it is in use, if  *)
(* the application does not map again while the global one is in use.      *)
THEOREM SolverMemoryAlways ==
    ASSUME "release" \in Prudence
    PROVE  Spec => []SolverMemory
<1>1. Frees
  BY DEF Frees
<1>2. ApiMemory /\ [Next]_vars => ApiMemory'
  BY <1>1, NextApi DEF ApiMemory, ApiInv, Preserves, Keeps
<1>3. ApiMemory => SolverMemory
  BY DEF ApiMemory, ApiInv, Sound, Typed, Memory, SolverMemory
<1> QED
  BY InitApi, <1>2, <1>3, PTL DEF Spec
=============================================================================
