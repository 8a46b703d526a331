--------------------------- MODULE ToolRegistryProofs --------------------------
(***************************************************************************)
(* Proofs about ToolRegistry, for any names, versions, built-in tools and  *)
(* any file: what an import of the module leaves in the store, and what    *)
(* the gateway's operations keep of it.                                    *)
(***************************************************************************)
EXTENDS ToolRegistry, NumberFacts, FiniteSetTheorems, TLAPS
-----------------------------------------------------------------------------
(* The entries the seed makes, and those a row of the file makes.          *)
SeedEntry(n) == [name |-> n, version |-> V1, status |-> "installed", from |-> "builtin"]
FileEntry(n) == [name |-> n, version |-> V1, status |-> "installed", from |-> "file"]

(* Every built-in tool is seeded, once.                                    *)
LEMMA SeededOnce ==
  /\ Seeded \in Seq(Entry)
  /\ \A i \in DOMAIN Seeded : Seeded[i] = SeedEntry(Seeded[i].name)
  /\ \A i, j \in DOMAIN Seeded : Seeded[i].name = Seeded[j].name => i = j
<1> DEFINE order == SetToSeq(Builtin)
           c == Cardinality(Builtin)
<1>1. c \in Nat /\ ExistsBijection(1..c, Builtin)
  BY FS_CardinalityType, RegistryAssumption
<1>2. \E f \in [1..c -> Builtin] : IsInjective(f)
  BY <1>1 DEF ExistsBijection, Bijection, Injection, IsInjective
<1>3. order \in [1..c -> Builtin] /\ IsInjective(order)
  BY <1>2 DEF SetToSeq
<1>4. Seeded = [i \in 1..c |-> SeedEntry(order[i])]
  BY <1>3 DEF Seeded, SeedEntry
<1> HIDE DEF order, c
<1>5. \A i \in 1..c : order[i] \in Names /\ Seeded[i] = SeedEntry(order[i])
  BY <1>3, <1>4, RegistryAssumption
<1>6. Seeded \in [1..c -> Entry]
  BY <1>4, <1>5, RegistryAssumption DEF Entry, Statuses, Origins, SeedEntry
<1>7. Seeded \in Seq(Entry)
  BY <1>1, <1>6
<1>8. \A i \in 1..c : Seeded[i].name = order[i]
  BY <1>4 DEF SeedEntry
<1>9. DOMAIN Seeded = 1..c
  BY <1>4
<1>10. QED
  BY <1>3, <1>5, <1>7, <1>8, <1>9 DEF IsInjective

(* The store after the first k rows of file f: the seed as it was, and     *)
(* behind it entries of rows read; no row read is missing.                 *)
Loaded(t, f, k) ==
  /\ t \in Seq(Entry)
  /\ Len(Seeded) <= Len(t) /\ \A i \in 1..Len(Seeded) : t[i] = Seeded[i]
  /\ \A i \in 1..Len(t) : Len(Seeded) < i => \E j \in 1..k : t[i] = FileEntry(f[j])
  /\ \A j \in 1..k : Has(t, f[j], V1)

LEMMA RowLoaded ==
  ASSUME NEW f \in Seq(Names), NEW k \in Nat, k < Len(f), NEW t, Loaded(t, f, k)
  PROVE  Loaded(Load1(t, f[k + 1]), f, k + 1)
<1> DEFINE n == f[k + 1]
           e == FileEntry(n)
<1>1. n \in Names /\ e \in Entry /\ e.name = n /\ e.version = V1
  BY RegistryAssumption DEF Entry, Statuses, Origins, FileEntry
<1>2. CASE Has(t, n, V1)
  <2>1. Load1(t, n) = t
    BY <1>2 DEF Load1
  <2>2. \A j \in 1..(k + 1) : j \in 1..k \/ j = k + 1
    OBVIOUS
  <2>3. 1..k \subseteq 1..(k + 1)
    OBVIOUS
  <2>4. QED
    BY <1>2, <2>1, <2>2, <2>3, Zenon DEF Loaded
<1>3. CASE ~Has(t, n, V1)
  <2> DEFINE u == Append(t, e)
  <2>1. Load1(t, n) = u
    BY <1>3 DEF Load1, FileEntry
  <2>2. t \in Seq(Entry) /\ Len(t) \in Nat /\ Len(Seeded) <= Len(t) /\ Len(Seeded) \in Nat
    BY SeededOnce DEF Loaded
  <2>3. /\ u \in Seq(Entry) /\ Len(u) = Len(t) + 1
        /\ u[Len(t) + 1] = e /\ \A i \in 1..Len(t) : u[i] = t[i]
    BY <1>1, <2>2
  <2> HIDE DEF u, e, n
  <2>4. Len(Seeded) <= Len(u) /\ \A i \in 1..Len(Seeded) : u[i] = Seeded[i]
    BY <2>2, <2>3 DEF Loaded
  <2>5. ASSUME NEW i \in 1..Len(u), Len(Seeded) < i
        PROVE  \E j \in 1..(k + 1) : u[i] = FileEntry(f[j])
    <3>1. CASE i = Len(t) + 1
      BY <2>3, <3>1 DEF e, n
    <3>2. CASE i \in 1..Len(t)
      <4>1. \E j \in 1..k : t[i] = FileEntry(f[j])
        BY <2>5, <3>2 DEF Loaded
      <4>2. QED
        BY <2>3, <3>2, <4>1
    <3>3. QED
      BY <2>2, <2>3, <3>1, <3>2
  <2>6. \A x \in Entries(t) : x \in Entries(u)
    BY <2>2, <2>3 DEF Entries, ToSet
  <2>7. e \in Entries(u)
    BY <2>2, <2>3 DEF Entries, ToSet
  <2>8. Has(u, n, V1)
    BY <1>1, <2>7 DEF Has
  <2>9. \A j \in 1..k : Has(u, f[j], V1)
    BY <2>6 DEF Loaded, Has
  <2>10. \A j \in 1..(k + 1) : Has(u, f[j], V1)
    BY <2>8, <2>9 DEF n
  <2>11. QED
    BY <2>1, <2>3, <2>4, <2>5, <2>10 DEF Loaded, n
<1>4. QED
  BY <1>2, <1>3
-----------------------------------------------------------------------------
(* The loop over the rows is well defined.                                 *)
LoadStep(g, f, i) == IF i = 0 THEN Seeded ELSE Load1(g[i - 1], f[i])

LEMMA LoadExists ==
  ASSUME NEW f \in Seq(Names)
  PROVE  \E g : g = [i \in 0..Len(f) |-> LoadStep(g, f, i)]
<1> DEFINE Bad == {k \in 0..Len(f) : ~ \E g : g = [i \in 0..k |-> LoadStep(g, f, i)]}
<1>1. ASSUME Bad # {} PROVE FALSE
  <2>b. Bad \in SUBSET Nat
    OBVIOUS
  <2>1. PICK k \in Bad : \A m \in Bad : k <= m
    <3> HIDE DEF Bad
    <3> QED
      BY <1>1, <2>b, LeastNumber
  <2>2. k \in 0..Len(f) /\ ~ \E g : g = [i \in 0..k |-> LoadStep(g, f, i)]
    OBVIOUS
  <2>3. CASE k = 0
    <3> DEFINE g == [i \in 0..0 |-> Seeded]
    <3>1. g = [i \in 0..0 |-> LoadStep(g, f, i)]
      BY DEF LoadStep
    <3>2. QED
      BY <2>2, <2>3, <3>1
  <2>4. CASE k # 0
    <3>1. k - 1 \in 0..Len(f) /\ k - 1 \notin Bad
      BY <2>1, <2>4
    <3>2. PICK g : g = [i \in 0..(k - 1) |-> LoadStep(g, f, i)]
      BY <3>1
    <3> DEFINE h == [i \in 0..k |-> IF i = k THEN Load1(g[k - 1], f[k]) ELSE g[i]]
    <3>3. \A i \in 0..k : h[i] = LoadStep(h, f, i)
      <4> SUFFICES ASSUME NEW i \in 0..k PROVE h[i] = LoadStep(h, f, i)
        OBVIOUS
      <4>1. CASE i = k
        <5>1. h[k] = Load1(g[k - 1], f[k]) /\ h[k - 1] = g[k - 1]
          BY <2>4
        <5>2. QED
          BY <2>4, <4>1, <5>1 DEF LoadStep
      <4>2. CASE i # k
        <5>1. h[i] = g[i] /\ i \in 0..(k - 1) /\ g[i] = LoadStep(g, f, i)
          BY <3>2, <4>2
        <5>2. i # 0 => h[i - 1] = g[i - 1]
          BY <4>2
        <5>3. QED
          BY <5>1, <5>2 DEF LoadStep
      <4>3. QED
        BY <4>1, <4>2
    <3>4. h = [i \in 0..k |-> LoadStep(h, f, i)]
      BY <3>3
    <3>5. QED
      BY <2>2, <3>4
  <2>5. QED
    BY <2>3, <2>4
<1>2. Len(f) \in 0..Len(f)
  OBVIOUS
<1>3. QED
  BY <1>1, <1>2

(* What an import of a readable file leaves in the store.                  *)
LEMMA ImportLoads ==
  ASSUME NEW f \in Seq(Names)
  PROVE  Loaded(Import(f), f, Len(f))
<1> DEFINE load == CHOOSE g : g = [i \in 0..Len(f) |-> LoadStep(g, f, i)]
<1>1. f # Torn
  BY RegistryAssumption
<1>2. load = [i \in 0..Len(f) |-> LoadStep(load, f, i)]
  BY LoadExists
<1>3. Import(f) = load[Len(f)]
  BY <1>1 DEF Import, LoadStep
<1> HIDE DEF load
<1>4. \A i \in 0..Len(f) : load[i] = LoadStep(load, f, i)
  BY <1>2
<1> DEFINE Bad == {k \in 0..Len(f) : ~Loaded(load[k], f, k)}
<1>5. ASSUME Bad # {} PROVE FALSE
  <2>b. Bad \in SUBSET Nat
    OBVIOUS
  <2>1. PICK k \in Bad : \A m \in Bad : k <= m
    <3> HIDE DEF Bad
    <3> QED
      BY <1>5, <2>b, LeastNumber
  <2>2. CASE k = 0
    <3>1. load[0] = Seeded
      BY <1>4, <2>2 DEF LoadStep
    <3>2. Loaded(Seeded, f, 0)
      BY SeededOnce DEF Loaded
    <3>3. QED
      BY <2>2, <3>1, <3>2
  <2>3. CASE k # 0
    <3>1. k - 1 \in 0..Len(f) /\ k - 1 \in Nat /\ k - 1 < Len(f) /\ k - 1 \notin Bad
      BY <2>1, <2>3
    <3>2. Loaded(load[k - 1], f, k - 1)
      BY <3>1
    <3>3. (k - 1) + 1 = k
      OBVIOUS
    <3>4. load[k] = Load1(load[k - 1], f[k])
      BY <1>4, <2>3 DEF LoadStep
    <3>5. Loaded(load[k], f, k)
      BY <3>1, <3>2, <3>3, <3>4, RowLoaded
    <3>6. QED
      BY <3>5
  <2>4. QED
    BY <2>2, <2>3
<1>6. Len(f) \in 0..Len(f)
  OBVIOUS
<1>7. QED
  BY <1>3, <1>5, <1>6
-----------------------------------------------------------------------------
(* The strengthening of BuiltinServes: in the store of the gateway the     *)
(* entry of a built-in tool comes before every other one of its name.      *)
First(ts) ==
  \A i, j \in DOMAIN ts : ts[i].from = "builtin" /\ ts[j].name = ts[i].name => i <= j
RegistryInv == TypeOKTools /\ First(tools)

(* An import never puts another entry before a built-in one, and leaves    *)
(* only entries of the seed and of rows of the file.                       *)
LEMMA ImportFirst ==
  ASSUME NEW f, f = Torn \/ f \in Seq(Names)
  PROVE  /\ Import(f) \in Seq(Entry)
         /\ First(Import(f))
         /\ \A i \in DOMAIN Import(f) :
              \/ Import(f)[i].from = "builtin"
              \/ Import(f)[i].from = "file" /\ f # Torn /\ Import(f)[i].name \in ToSet(f)
<1> DEFINE t == Import(f)
<1>s. Seeded \in Seq(Entry) /\ Len(Seeded) \in Nat /\ DOMAIN Seeded = 1..Len(Seeded)
  BY SeededOnce
<1>1. CASE f = Torn
  BY <1>1, SeededOnce DEF Import, First, SeedEntry
<1>2. CASE f \in Seq(Names)
  <2>1. Loaded(t, f, Len(f))
    BY <1>2, ImportLoads
  <2>2. t \in Seq(Entry) /\ DOMAIN t = 1..Len(t) /\ Len(t) \in Nat /\ Len(Seeded) <= Len(t)
    BY <2>1 DEF Loaded
  <2> HIDE DEF t
  <2>3. \A i \in 1..Len(t) : i <= Len(Seeded) => t[i] = Seeded[i]
    BY <1>s, <2>1, <2>2 DEF Loaded
  <2>4. \A i \in 1..Len(t) : Len(Seeded) < i =>
          t[i].from = "file" /\ t[i].name \in ToSet(f)
    <3> SUFFICES ASSUME NEW i \in 1..Len(t), Len(Seeded) < i
                 PROVE  t[i].from = "file" /\ t[i].name \in ToSet(f)
      OBVIOUS
    <3>1. PICK j \in 1..Len(f) : t[i] = FileEntry(f[j])
      BY <2>1 DEF Loaded
    <3>2. t[i].from = "file" /\ t[i].name = f[j]
      BY <3>1 DEF FileEntry
    <3>3. QED
      BY <1>2, <3>2 DEF ToSet
  <2>5. \A i \in 1..Len(t) : t[i].from = "builtin" => i <= Len(Seeded)
    BY <1>s, <2>4
  <2>6. First(t)
    <3> SUFFICES ASSUME NEW i \in 1..Len(t), NEW j \in 1..Len(t), t[i].from = "builtin",
                        t[j].name = t[i].name, j < i
                 PROVE  FALSE
      BY <2>2 DEF First
    <3>1. i \in 1..Len(Seeded) /\ j \in 1..Len(Seeded)
      BY <1>s, <2>5
    <3>2. t[i] = Seeded[i] /\ t[j] = Seeded[j]
      BY <1>s, <2>3, <3>1
    <3>3. QED
      BY <1>s, <3>1, <3>2, SeededOnce
  <2>7. \A i \in 1..Len(t) :
          t[i].from = "builtin" \/ (t[i].from = "file" /\ f # Torn /\ t[i].name \in ToSet(f))
    <3> SUFFICES ASSUME NEW i \in 1..Len(t), i <= Len(Seeded) PROVE t[i].from = "builtin"
      BY <1>2, <1>s, <2>4, RegistryAssumption
    <3>1. t[i] = Seeded[i] /\ i \in DOMAIN Seeded
      BY <1>s, <2>3
    <3>2. QED
      BY <3>1, SeededOnce DEF SeedEntry
  <2>8. QED
    BY <2>2, <2>6, <2>7 DEF t
<1>3. QED
  BY <1>1, <1>2

(* A row of the file is in the store after an import.                      *)
LEMMA RowIsVisible ==
  ASSUME NEW f \in Seq(Names), NEW n \in ToSet(f)
  PROVE  Has(Import(f), n, V1)
<1>1. PICK j \in 1..Len(f) : n = f[j]
  BY DEF ToSet
<1>2. QED
  BY <1>1, ImportLoads DEF Loaded

LEMMA InitRegistry == Init => RegistryInv
<1> SUFFICES ASSUME Init PROVE RegistryInv
  OBVIOUS
<1>1. <<>> \in Seq(Names)
  OBVIOUS
<1>2. QED
  BY <1>1, ImportFirst DEF Init, RegistryInv, TypeOKTools

LEMMA GatewayRegistry == RegistryInv /\ Gateway => RegistryInv'
<1> SUFFICES ASSUME RegistryInv, Gateway PROVE RegistryInv'
  OBVIOUS
<1> USE DEF RegistryInv, TypeOKTools
<1>1. ASSUME NEW n \in Names, NEW v \in Versions, ProposeTool(n, v) PROVE RegistryInv'
  <2> DEFINE e == [name |-> n, version |-> v, status |-> "proposed", from |-> "api"]
  <2>1. e \in Entry /\ e.from = "api"
    BY DEF Entry, Statuses, Origins
  <2>2. tools' = Append(tools, e) /\ UNCHANGED file
    BY <1>1 DEF ProposeTool
  <2> HIDE DEF e
  <2>3. /\ tools' \in Seq(Entry) /\ Len(tools) \in Nat /\ Len(tools') = Len(tools) + 1
        /\ tools'[Len(tools) + 1] = e /\ \A i \in 1..Len(tools) : tools'[i] = tools[i]
        /\ DOMAIN tools = 1..Len(tools) /\ DOMAIN tools' = 1..(Len(tools) + 1)
    BY <2>1, <2>2
  <2>4. First(tools')
    <3> SUFFICES ASSUME NEW i \in 1..(Len(tools) + 1), NEW j \in 1..(Len(tools) + 1),
                        tools'[i].from = "builtin", tools'[j].name = tools'[i].name
                 PROVE  i <= j
      BY <2>3 DEF First
    <3>1. i \in 1..Len(tools)
      BY <2>1, <2>3
    <3>2. CASE j \in 1..Len(tools)
      BY <2>3, <3>1, <3>2 DEF First
    <3>3. CASE j = Len(tools) + 1
      BY <2>3, <3>1, <3>3
    <3>4. QED
      BY <2>3, <3>2, <3>3
  <2>5. QED
    BY <2>2, <2>3, <2>4
<1>2. ASSUME NEW i \in DOMAIN tools, NEW st \in Statuses, SetStatus(i, st) PROVE RegistryInv'
  <2>1. /\ tools' \in Seq(Entry) /\ DOMAIN tools' = DOMAIN tools /\ UNCHANGED file
        /\ \A k \in DOMAIN tools : tools'[k].from = tools[k].from /\ tools'[k].name = tools[k].name
    <3>1. tools' = [tools EXCEPT ![i].status = st] /\ UNCHANGED file
      BY <1>2 DEF SetStatus
    <3>2. tools \in [1..Len(tools) -> Entry] /\ Len(tools) \in Nat
      OBVIOUS
    <3>3. /\ tools' \in [1..Len(tools) -> Entry]
          /\ \A k \in DOMAIN tools : tools'[k].from = tools[k].from /\ tools'[k].name = tools[k].name
      BY <3>1, <3>2 DEF Entry
    <3>4. QED
      BY <3>1, <3>2, <3>3
  <2>2. First(tools')
    BY <2>1 DEF First
  <2>3. QED
    BY <2>1, <2>2
<1>3. CASE Restart
  BY <1>3, ImportFirst DEF Restart
<1>4. QED
  BY <1>1, <1>2, <1>3 DEF Gateway, ApproveTool, InstallTool, RejectTool, Statuses

(* The first installed entry of a name, as calls look it up.               *)
LEMMA FirstServes == RegistryInv => BuiltinServes
<1> SUFFICES ASSUME RegistryInv, NEW n \in Builtin, NEW i \in DOMAIN tools, tools[i] = SeedEntry(n)
             PROVE  GetInstalled(tools, n) = i
  BY DEF BuiltinServes, SeedEntry
<1> DEFINE I == {j \in 1..Len(tools) : tools[j].name = n /\ tools[j].status = "installed"}
<1>1. tools \in Seq(Entry) /\ DOMAIN tools = 1..Len(tools)
  BY DEF RegistryInv, TypeOKTools
<1>2. tools[i].name = n /\ tools[i].status = "installed" /\ tools[i].from = "builtin"
  BY DEF SeedEntry
<1>3. i \in I /\ \A j \in I : i <= j
  BY <1>1, <1>2 DEF RegistryInv, First
<1>4. I \subseteq Nat
  BY <1>1
<1>5. GetInstalled(tools, n) = IF I # {} THEN Min(I) ELSE 0
  BY DEF GetInstalled, SelectInSeq
<1> HIDE DEF I
<1>6. \A x \in I : (\A y \in I : x <= y) => x = i
  BY <1>3, <1>4
<1>7. Min(I) = i
  BY <1>3, <1>6 DEF Min
<1>8. QED
  BY <1>3, <1>5, <1>7

(* What one step of the gateway may newly install, and that it keeps what  *)
(* is rejected unless it is a start.                                       *)
Reviewed ==
  /\ \A e \in Entries(tools') : e.status = "installed" /\ e \notin Entries(tools) =>
       \/ [e EXCEPT !.status = "approved"] \in Entries(tools)
       \/ /\ tools' = Import(file)
          /\ \/ e.from = "builtin"
             \/ e.from = "file" /\ file # Torn /\ e.name \in ToSet(file)
  /\ \A e \in Entries(tools) : e.status = "rejected" =>
       e \in Entries(tools') \/ tools' = Import(file)

LEMMA GatewayInstalls ==
  ASSUME RegistryInv, Gateway
  PROVE  Reviewed
<1> USE DEF RegistryInv, TypeOKTools
<1>t. tools \in [1..Len(tools) -> Entry] /\ Len(tools) \in Nat /\ DOMAIN tools = 1..Len(tools)
  OBVIOUS
<1>e. Entries(tools) = {tools[k] : k \in 1..Len(tools)}
  BY <1>t DEF Entries, ToSet
<1>1. ASSUME NEW n \in Names, NEW v \in Versions, ProposeTool(n, v) PROVE Reviewed
  <2> DEFINE e == [name |-> n, version |-> v, status |-> "proposed", from |-> "api"]
  <2>1. tools' = Append(tools, e) /\ e.status = "proposed"
    BY <1>1 DEF ProposeTool
  <2> HIDE DEF e
  <2>2. /\ DOMAIN tools' = 1..(Len(tools) + 1)
        /\ \A i \in 1..(Len(tools) + 1) : tools'[i] = IF i = Len(tools) + 1 THEN e ELSE tools[i]
    BY <2>1
  <2>3. Entries(tools') = {tools'[i] : i \in 1..(Len(tools) + 1)}
    BY <2>2 DEF Entries, ToSet
  <2>4. \A x \in Entries(tools') : x = e \/ x \in Entries(tools)
    BY <1>t, <1>e, <2>2, <2>3
  <2>5. \A x \in Entries(tools) : x \in Entries(tools')
    BY <1>t, <1>e, <2>2, <2>3
  <2>6. QED
    BY <2>1, <2>4, <2>5 DEF Reviewed
<1>2. ASSUME NEW k \in DOMAIN tools, NEW st \in Statuses, SetStatus(k, st)
      PROVE  /\ tools[k] \in Entry /\ tools[k] \in Entries(tools)
             /\ \A x \in Entries(tools') :
                  x \in Entries(tools) \/ x = [tools[k] EXCEPT !.status = st]
             /\ \A x \in Entries(tools) : x \in Entries(tools') \/ x = tools[k]
             /\ [tools[k] EXCEPT !.status = st] \in Entries(tools')
  <2>1. tools' = [tools EXCEPT ![k] = [tools[k] EXCEPT !.status = st]]
    BY <1>2 DEF SetStatus
  <2>2. /\ DOMAIN tools' = 1..Len(tools)
        /\ tools'[k] = [tools[k] EXCEPT !.status = st]
        /\ \A i \in 1..Len(tools) : i # k => tools'[i] = tools[i]
    BY <1>t, <2>1
  <2>3. Entries(tools') = {tools'[i] : i \in 1..Len(tools)}
    BY <2>2 DEF Entries, ToSet
  <2>4. QED
    BY <1>t, <1>e, <2>2, <2>3
<1>3. ASSUME NEW k \in DOMAIN tools, InstallTool(k) PROVE Reviewed
  <2>1. SetStatus(k, "installed") /\ tools[k].status = "approved"
    BY <1>3 DEF InstallTool
  <2>2. [[tools[k] EXCEPT !.status = "installed"] EXCEPT !.status = "approved"] = tools[k]
    BY <1>t, <2>1 DEF Entry
  <2>3. "installed" \in Statuses
    BY DEF Statuses
  <2>4. \A x \in Entries(tools') :
          x \in Entries(tools) \/ [x EXCEPT !.status = "approved"] \in Entries(tools)
    <3>1. ASSUME NEW x \in Entries(tools')
          PROVE  x \in Entries(tools) \/ x = [tools[k] EXCEPT !.status = "installed"]
      BY <1>2, <2>1, <2>3
    <3>2. tools[k] \in Entries(tools)
      BY <1>2, <2>1, <2>3
    <3>3. QED
      BY <2>2, <3>1, <3>2
  <2>5. \A x \in Entries(tools) : x \in Entries(tools') \/ x.status = "approved"
    BY <1>2, <2>1, <2>3
  <2>6. QED
    BY <2>4, <2>5 DEF Reviewed
<1>4. ASSUME NEW k \in DOMAIN tools, ApproveTool(k) PROVE Reviewed
  <2>1. SetStatus(k, "approved") /\ tools[k].status = "proposed"
    BY <1>4 DEF ApproveTool
  <2>2. [tools[k] EXCEPT !.status = "approved"].status = "approved"
    BY <1>t DEF Entry
  <2>3. QED
    BY <1>2, <2>1, <2>2 DEF Reviewed, Statuses
<1>5. ASSUME NEW k \in DOMAIN tools, RejectTool(k) PROVE Reviewed
  <2>1. SetStatus(k, "rejected")
    BY <1>5 DEF RejectTool
  <2>2. [tools[k] EXCEPT !.status = "rejected"].status = "rejected"
    BY <1>t DEF Entry
  <2>3. tools[k].status = "rejected" => [tools[k] EXCEPT !.status = "rejected"] = tools[k]
    BY <1>t DEF Entry
  <2>4. QED
    BY <1>2, <2>1, <2>2, <2>3 DEF Reviewed, Statuses
<1>6. CASE Restart
  <2>1. tools' = Import(file) /\ tools' \in Seq(Entry)
        /\ \A i \in DOMAIN tools' :
             \/ tools'[i].from = "builtin"
             \/ tools'[i].from = "file" /\ file # Torn /\ tools'[i].name \in ToSet(file)
    BY <1>6, ImportFirst DEF Restart
  <2>2. \A x \in Entries(tools') : \E i \in DOMAIN tools' : x = tools'[i]
    BY <2>1 DEF Entries, ToSet
  <2>3. QED
    BY <2>1, <2>2 DEF Reviewed
<1>7. QED
  BY <1>1, <1>3, <1>4, <1>5, <1>6 DEF Gateway
=============================================================================
