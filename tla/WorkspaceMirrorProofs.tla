------------------------- MODULE WorkspaceMirrorProofs -------------------------
(***************************************************************************)
(* Proofs about WorkspaceMirror, for any requests, plans, contents of any  *)
(* policy outcome, and any number of failures and crashes.                 *)
(***************************************************************************)
EXTENDS WorkspaceMirror, SequenceTheorems, TLAPS

USE DEF States, Events

(* A plan's directories, and whether any of them is there.                 *)
Dir        == [States -> Workspace \cup {NoDir}]
Evident(d) == \E s \in States : d[s] # NoDir

(* What plan p's directories say is backed by the approvals in G and the   *)
(* executed records in E.                                                  *)
Backed(d, p, G, E) ==
  /\ d["completed"] # NoDir => E[p] # None
  /\ \A s \in States : d[s] # NoDir =>
       /\ d[s].approval = "approved" => p \in G
       /\ d[s].result = "executed" => E[p] # None
       /\ Contains(d[s].log, "completed") => E[p] # None

Fine(d, p, G, E)   == d \in Dir /\ Evident(d) /\ Backed(d, p, G, E)
Usable(d, p, G, E) == d \in Dir /\ Exists(d) /\ Backed(d, p, G, E)

LEMMA UsableIsFine == ASSUME NEW d, NEW p, NEW G, NEW E, Usable(d, p, G, E) PROVE Fine(d, p, G, E)
  BY DEF Usable, Fine, Exists, Evident

LEMMA AppendedLog ==
  ASSUME NEW log \in Seq(Events), NEW e \in Events
  PROVE  /\ Append(log, e) \in Seq(Events)
         /\ Contains(Append(log, e), "completed") => e = "completed" \/ Contains(log, "completed")
  BY DEF Contains

(* A new value of the active workspace.                                    *)
LEMMA ActiveChanges ==
  ASSUME NEW d \in Dir, NEW p, NEW G, NEW E, Backed(d, p, G, E), NEW w \in Workspace,
         w.approval = "approved" => p \in G,
         w.result = "executed" => E[p] # None,
         Contains(w.log, "completed") => E[p] # None
  PROVE  Usable([d EXCEPT !["active"] = w], p, G, E)
<1> DEFINE v == [d EXCEPT !["active"] = w]
<1>1. v \in Dir /\ v["active"] = w /\ \A s \in States \ {"active"} : v[s] = d[s]
  BY DEF Dir
<1>2. w # NoDir
  BY ContentAssumption
<1> HIDE DEF v
<1>3. Backed(v, p, G, E)
  BY <1>1 DEF Backed
<1>4. Usable(v, p, G, E)
  BY <1>1, <1>2, <1>3 DEF Usable, Exists
<1>5. QED
  BY <1>4 DEF v

LEMMA EnsureUsable ==
  ASSUME NEW d \in Dir, NEW p, NEW G, NEW E, Backed(d, p, G, E), NEW c
  PROVE  Usable(Ensure(d, c), p, G, E)
<1>1. /\ Fresh(None) \in Workspace /\ Fresh(None).approval = "" /\ Fresh(None).result = ""
      /\ ~Contains(Fresh(None).log, "completed")
  BY DEF Fresh, Workspace, Contains
<1>2. QED
  BY <1>1, ActiveChanges DEF Ensure, Usable

(* The four writes of workspace.py.                                        *)
LEMMA WritesUsable ==
  ASSUME NEW p, NEW G, NEW E, NEW d, Usable(d, p, G, E)
  PROVE  /\ \A c \in Cores : Usable(WritePlan(d, c), p, G, E)
         /\ \A a \in {"pending", "approved", "rejected"} :
              (a = "approved" => p \in G) => Usable(WriteApproval(d, a), p, G, E)
         /\ \A t \in {"note", "executed"} :
              (t = "executed" => E[p] # None) => Usable(WriteResult(d, t), p, G, E)
         /\ \A e \in Events :
              (e = "completed" => E[p] # None) => Usable(AppendLog(d, e), p, G, E)
<1> DEFINE w == d["active"]
<1>1. w \in Workspace /\ Backed(d, p, G, E) /\ d \in Dir
      /\ (w.approval = "approved" => p \in G)
      /\ (w.result = "executed" => E[p] # None)
      /\ (Contains(w.log, "completed") => E[p] # None)
  BY DEF Usable, Exists, Dir, Backed
<1>2. ASSUME NEW v \in Workspace, v.approval = "approved" => p \in G,
             v.result = "executed" => E[p] # None,
             Contains(v.log, "completed") => E[p] # None
      PROVE  Usable([d EXCEPT !["active"] = v], p, G, E)
  BY <1>1, <1>2, ActiveChanges
<1>3. ASSUME NEW c \in Cores PROVE Usable(WritePlan(d, c), p, G, E)
  <2> DEFINE v == [w EXCEPT !.plan = c]
  <2>1. v \in Workspace /\ v.approval = w.approval /\ v.result = w.result /\ v.log = w.log
    BY <1>1 DEF Workspace
  <2>2. WritePlan(d, c) = [d EXCEPT !["active"] = v]
    BY DEF WritePlan, w
  <2> HIDE DEF v, w
  <2>3. QED
    BY <1>1, <1>2, <2>1, <2>2
<1>4. ASSUME NEW a \in {"pending", "approved", "rejected"}, a = "approved" => p \in G
      PROVE  Usable(WriteApproval(d, a), p, G, E)
  <2> DEFINE v == [w EXCEPT !.approval = a]
  <2>1. v \in Workspace /\ v.result = w.result /\ v.log = w.log /\ v.approval = a
    BY <1>4, <1>1 DEF Workspace
  <2>2. WriteApproval(d, a) = [d EXCEPT !["active"] = v]
    BY DEF WriteApproval, w
  <2> HIDE DEF v, w
  <2>3. QED
    BY <1>4, <1>1, <1>2, <2>1, <2>2
<1>5. ASSUME NEW t \in {"note", "executed"}, t = "executed" => E[p] # None
      PROVE  Usable(WriteResult(d, t), p, G, E)
  <2> DEFINE v == [w EXCEPT !.result = t]
  <2>1. v \in Workspace /\ v.approval = w.approval /\ v.log = w.log /\ v.result = t
    BY <1>5, <1>1 DEF Workspace
  <2>2. WriteResult(d, t) = [d EXCEPT !["active"] = v]
    BY DEF WriteResult, w
  <2> HIDE DEF v, w
  <2>3. QED
    BY <1>5, <1>1, <1>2, <2>1, <2>2
<1>6. ASSUME NEW e \in Events, e = "completed" => E[p] # None
      PROVE  Usable(AppendLog(d, e), p, G, E)
  <2> DEFINE l == Append(w.log, e)
             v == [w EXCEPT !.log = l]
  <2>1. w.log \in Seq(Events)
    BY <1>1 DEF Workspace
  <2>2. AppendLog(d, e) = [d EXCEPT !["active"] = v]
    BY DEF AppendLog
  <2>3. l \in Seq(Events) /\ (Contains(l, "completed") => e = "completed" \/ Contains(w.log, "completed"))
    BY <2>1, AppendedLog
  <2> HIDE DEF l
  <2>4. v \in Workspace /\ v.log = l /\ v.approval = w.approval /\ v.result = w.result
    BY <1>1, <2>3 DEF Workspace
  <2> HIDE DEF v, w
  <2>5. QED
    BY <1>1, <1>2, <1>6, <2>2, <2>3, <2>4
<1>7. QED
  BY <1>3, <1>4, <1>5, <1>6

LEMMA MoveFine ==
  ASSUME NEW p, NEW G, NEW E, NEW d, Usable(d, p, G, E), NEW s \in {"completed", "rejected"},
         s = "completed" => E[p] # None
  PROVE  Fine(ClearDestination(d, s), p, G, E) /\ Fine(Rename(d, s), p, G, E)
<1>1. d \in Dir /\ d["active"] # NoDir /\ Backed(d, p, G, E)
  BY DEF Usable, Exists
<1> DEFINE v == ClearDestination(d, s)
           w == Rename(d, s)
<1>2. /\ v \in Dir /\ v[s] = NoDir /\ \A x \in States \ {s} : v[x] = d[x]
      /\ w \in Dir /\ w[s] = d["active"] /\ w["active"] = NoDir
      /\ \A x \in States \ {s, "active"} : w[x] = d[x]
  BY <1>1 DEF ClearDestination, Rename, Dir
<1> HIDE DEF v, w
<1>3. Evident(v) /\ Evident(w)
  BY <1>1, <1>2 DEF Evident
<1>4. Backed(v, p, G, E)
  BY <1>1, <1>2 DEF Backed
<1>5. Backed(w, p, G, E)
  BY <1>1, <1>2 DEF Backed
<1>6. QED
  BY <1>2, <1>3, <1>4, <1>5 DEF Fine, v, w
-----------------------------------------------------------------------------
(* A mirror block: every value it goes through is fine, or what was there. *)
Passes(values, d, p, G, E) ==
  /\ Len(values) \in Nat \ {0}
  /\ \A i \in 1..Len(values) : values[i] = d \/ Fine(values[i], p, G, E)

LEMMA TwoPass ==
  ASSUME NEW d, NEW p, NEW G, NEW E, NEW a, a = d \/ Fine(a, p, G, E)
  PROVE  Passes(<<a>>, d, p, G, E) /\ Passes(<<d, a>>, d, p, G, E)
  BY DEF Passes

LEMMA ThreePass ==
  ASSUME NEW d, NEW p, NEW G, NEW E, NEW a, NEW b,
         a = d \/ Fine(a, p, G, E), Fine(b, p, G, E)
  PROVE  Passes(<<d, a, b>>, d, p, G, E)
  BY DEF Passes

LEMMA FivePass ==
  ASSUME NEW d, NEW p, NEW G, NEW E, NEW a, NEW b, NEW x, NEW y,
         Fine(a, p, G, E), Fine(b, p, G, E), Fine(x, p, G, E), Fine(y, p, G, E)
  PROVE  Passes(<<d, a, b>> \o <<x, y>>, d, p, G, E)
  BY DEF Passes

LEMMA ProposeBlocks ==
  ASSUME NEW d \in Dir, NEW p, NEW G, NEW E, Backed(d, p, G, E), NEW c \in Cores
  PROVE  Passes(ProposeBlock(d, c), d, p, G, E)
<1> DEFINE e == Ensure(d, c)
           v == WritePlan(e, c)
           w == WriteResult(v, "note")
           x == ClearDestination(w, "rejected")
           y == Rename(w, "rejected")
<1>0. ProposeBlock(d, c) = CASE c \in Denied       -> <<d, e, v, w>> \o <<x, y>>
                             [] c \in Unsupervised -> <<d, e, v, w>>
                             [] OTHER              -> <<d, e, v>>
  BY DEF ProposeBlock, MoveBlock
<1>1. Usable(e, p, G, E)
  BY EnsureUsable
<1> HIDE DEF e
<1>2. Usable(v, p, G, E)
  BY <1>1, WritesUsable
<1> HIDE DEF v
<1>3. Usable(w, p, G, E)
  BY <1>2, WritesUsable
<1> HIDE DEF w
<1>4. Fine(e, p, G, E) /\ Fine(v, p, G, E) /\ Fine(w, p, G, E)
  BY <1>1, <1>2, <1>3, UsableIsFine
<1>5. Fine(x, p, G, E) /\ Fine(y, p, G, E)
  BY <1>3, MoveFine
<1> HIDE DEF x, y
<1>6. Passes(<<d, e, v>>, d, p, G, E) /\ Passes(<<d, e, v, w>>, d, p, G, E)
  BY <1>4 DEF Passes
<1>7. Passes(<<d, e, v, w>> \o <<x, y>>, d, p, G, E)
  BY <1>4, <1>5 DEF Passes
<1>8. QED
  BY <1>0, <1>6, <1>7

(* The blocks of the handlers that need an active workspace.               *)
LEMMA BlockPasses ==
  ASSUME NEW d \in Dir, NEW p, NEW G, NEW E, Backed(d, p, G, E), NEW values,
         Usable(d, p, G, E) => Passes(values, d, p, G, E)
  PROVE  Passes(Block(d, values), d, p, G, E)
<1>1. Passes(<<d>>, d, p, G, E)
  BY TwoPass
<1>2. QED
  BY <1>1 DEF Block, Usable

LEMMA NoteBlocks ==
  ASSUME NEW d \in Dir, NEW p, NEW G, NEW E, Backed(d, p, G, E)
  PROVE  /\ \A a \in {"pending", "approved"} : (a = "approved" => p \in G) =>
              Passes(Block(d, <<d, WriteApproval(d, a)>>), d, p, G, E)
         /\ \A e \in {"started", "step"} : Passes(Block(d, <<d, AppendLog(d, e)>>), d, p, G, E)
<1>1. ASSUME NEW a \in {"pending", "approved"}, a = "approved" => p \in G, Usable(d, p, G, E)
      PROVE  Passes(<<d, WriteApproval(d, a)>>, d, p, G, E)
  BY <1>1, WritesUsable, UsableIsFine, TwoPass
<1>2. ASSUME NEW e \in {"started", "step"}, Usable(d, p, G, E)
      PROVE  Passes(<<d, AppendLog(d, e)>>, d, p, G, E)
  BY <1>2, WritesUsable, UsableIsFine, TwoPass
<1>3. QED
  BY <1>1, <1>2, BlockPasses

LEMMA EndBlocks ==
  ASSUME NEW d \in Dir, NEW p, NEW G, NEW E, Backed(d, p, G, E)
  PROVE  /\ Passes(RejectBlock(d), d, p, G, E)
         /\ E[p] # None => Passes(FinishBlock(d), d, p, G, E)
<1>1. ASSUME Usable(d, p, G, E), NEW a, Usable(a, p, G, E), NEW w, Usable(w, p, G, E),
             NEW s \in {"completed", "rejected"}, s = "completed" => E[p] # None
      PROVE  Passes(<<d, a, w>> \o MoveBlock(w, s), d, p, G, E)
  <2>1. Fine(ClearDestination(w, s), p, G, E) /\ Fine(Rename(w, s), p, G, E)
    BY <1>1, MoveFine
  <2>2. Fine(a, p, G, E) /\ Fine(w, p, G, E)
    BY <1>1, UsableIsFine
  <2>3. QED
    BY <2>1, <2>2, FivePass DEF MoveBlock
<1>2. Passes(RejectBlock(d), d, p, G, E)
  <2> DEFINE a == WriteApproval(d, "rejected")
             w == WriteResult(a, "note")
  <2>1. ASSUME Usable(d, p, G, E) PROVE Passes(<<d, a, w>> \o MoveBlock(w, "rejected"), d, p, G, E)
    <3>1. Usable(a, p, G, E)
      BY <2>1, WritesUsable
    <3> HIDE DEF a
    <3>2. Usable(w, p, G, E)
      BY <3>1, WritesUsable
    <3> HIDE DEF w
    <3>3. QED
      BY <1>1, <2>1, <3>1, <3>2
  <2>2. RejectBlock(d) = Block(d, <<d, a, w>> \o MoveBlock(w, "rejected"))
    BY DEF RejectBlock
  <2> HIDE DEF a, w
  <2>3. QED
    BY <2>1, <2>2, BlockPasses
<1>3. ASSUME E[p] # None PROVE Passes(FinishBlock(d), d, p, G, E)
  <2> DEFINE l == AppendLog(d, "completed")
             w == WriteResult(l, "executed")
  <2>1. ASSUME Usable(d, p, G, E) PROVE Passes(<<d, l, w>> \o MoveBlock(w, "completed"), d, p, G, E)
    <3>1. Usable(l, p, G, E)
      BY <1>3, <2>1, WritesUsable
    <3> HIDE DEF l
    <3>2. Usable(w, p, G, E)
      BY <1>3, <3>1, WritesUsable
    <3> HIDE DEF w
    <3>3. QED
      BY <1>1, <1>3, <2>1, <3>1, <3>2
  <2>2. FinishBlock(d) = Block(d, <<d, l, w>> \o MoveBlock(w, "completed"))
    BY DEF FinishBlock
  <2> HIDE DEF l, w
  <2>3. QED
    BY <2>1, <2>2, BlockPasses
<1>4. QED
  BY <1>2, <1>3

(* Where a block that passes leaves the directories, cut short or not.     *)
LEMMA MirrorLeaves ==
  ASSUME NEW p, NEW values, NEW d, NEW G, NEW E, Passes(values, d, p, G, E),
         Mirror(p, values) \/ MirrorCut(p, values)
  PROVE  \E v : (v = d \/ Fine(v, p, G, E)) /\ dir' = [dir EXCEPT ![p] = v]
  BY DEF Mirror, MirrorCut, Passes, Last
-----------------------------------------------------------------------------
(* The invariant of the plan store and of the requests.                    *)
Jobs == [at : Stages \cup {"idle"}, plan : Plans \cup {None}, core : Cores \cup {None}]

Job(j) ==
  \/ j = Idle
  \/ /\ j.at \in Stages /\ j.plan \in Plans
     /\ IF j.at = "saving" THEN j.core \in Cores ELSE j.core = None

Holding(j) == j.at \in {"running", "stepped", "ended"}

StoreType ==
  /\ pending \in [Plans -> Cores \cup {None}]
  /\ approved \in [Plans -> Cores \cup {None}]
  /\ executed \in [Plans -> Cores \cup {None}]
  /\ lock \in [Plans -> BOOLEAN]
  /\ granted \subseteq Plans
  /\ clean \in [Plans -> BOOLEAN]

JobType == job \in [Requests -> Jobs] /\ \A r \in Requests : Job(job[r])

(* A holder of a plan's lock is its only one; a run has an approved plan   *)
(* under it; a request that approved left its mark.                        *)
JobInv ==
  \A r \in Requests :
    /\ Holding(job[r]) =>
         /\ lock[job[r].plan] = TRUE
         /\ \A s \in Requests : Holding(job[s]) /\ job[s].plan = job[r].plan => s = r
    /\ job[r].at \in {"running", "stepped"} => approved[job[r].plan] # None
    /\ job[r].at = "approved" => job[r].plan \in granted

StoreInv == StoreType /\ JobType /\ JobInv

(* Only request r moves.                                                   *)
Only(r) == job' \in [Requests -> Jobs] /\ \A s \in Requests \ {r} : job'[s] = job[s]

Becomes(r, stage, p, c) ==
  /\ Only(r)
  /\ job'[r].at = stage /\ job'[r].plan = p /\ job'[r].core = c

LEMMA Moves ==
  ASSUME JobType, NEW r \in Requests, NEW stage \in Stages \cup {"idle"},
         NEW p \in Plans \cup {None}, NEW c \in Cores \cup {None}, NEW m,
         m = [job EXCEPT ![r] = [at |-> stage, plan |-> p, core |-> c]], job' = m
  PROVE  Becomes(r, stage, p, c)
  BY DEF JobType, Jobs, Becomes, Only

LEMMA Answers ==
  ASSUME JobType, NEW r \in Requests, Answer(r)
  PROVE  Becomes(r, "idle", None, None) /\ job'[r] = Idle
<1>1. Becomes(r, "idle", None, None)
  BY Moves DEF Answer, Idle
<1>2. job'[r] = Idle
  BY DEF Answer, JobType
<1>3. QED
  BY <1>1, <1>2

LEMMA Goes ==
  ASSUME JobType, NEW r \in Requests, NEW stage \in Stages, Go(r, stage)
  PROVE  Becomes(r, stage, job[r].plan, None)
<1> DEFINE m == [job EXCEPT ![r].at = stage, ![r].core = None]
<1>1. /\ m \in [Requests -> Jobs] /\ \A s \in Requests \ {r} : m[s] = job[s]
      /\ m[r].at = stage /\ m[r].plan = job[r].plan /\ m[r].core = None
  BY DEF JobType, Jobs
<1>2. job' = m
  BY DEF Go
<1> HIDE DEF m
<1>3. QED
  BY <1>1, <1>2 DEF Becomes, Only

LEMMA Enters ==
  ASSUME JobType, NEW r \in Requests, NEW stage \in Stages, NEW p \in Plans,
         NEW c \in Cores \cup {None}, Enter(r, stage, p, c)
  PROVE  Becomes(r, stage, p, c) /\ job[r] = Idle
  BY Moves DEF Enter

(* What a step may do to the lock: leave it with a holder it had, take it  *)
(* when free, or give it up with the run.                                  *)
KeepsLock(r)    == lock' = lock /\ (Holding(job'[r]) => Holding(job[r]) /\ job'[r].plan = job[r].plan)
TakesLock(r)    == lock[job'[r].plan] = FALSE /\ lock' = [lock EXCEPT ![job'[r].plan] = TRUE]
ReleasesLock(r) == Holding(job[r]) /\ job'[r] = Idle /\ lock' = [lock EXCEPT ![job[r].plan] = FALSE]

LEMMA RequestMoves ==
  ASSUME StoreInv, StoreType', NEW r \in Requests, Only(r), Job(job'[r]),
         KeepsLock(r) \/ TakesLock(r) \/ ReleasesLock(r),
         granted \subseteq granted',
         job'[r].at = "approved" => job'[r].plan \in granted',
         job'[r].at \in {"running", "stepped"} => approved'[job'[r].plan] # None,
         \A p \in Plans : lock[p] = TRUE /\ approved[p] # None /\ approved'[p] = None =>
            job[r].at \in {"running", "stepped"} /\ job[r].plan = p
  PROVE  StoreInv'
<1>1. JobType'
  BY DEF StoreInv, JobType, Only
<1>2. ASSUME NEW s \in Requests, Holding(job'[s])
      PROVE  job'[s].plan \in Plans
  BY <1>1, <1>2 DEF JobType, Job, Holding, Idle
<1>3. ASSUME NEW s \in Requests, Holding(job'[s])
      PROVE  lock'[job'[s].plan] = TRUE
  <2>1. CASE s = r
    BY <2>1, <1>2, <1>3 DEF StoreInv, StoreType, JobInv, KeepsLock, TakesLock, ReleasesLock, Holding, Idle
  <2>2. CASE s # r
    <3>1. job'[s] = job[s] /\ Holding(job[s]) /\ lock[job[s].plan] = TRUE
      BY <2>2, <1>3 DEF Only, StoreInv, JobInv
    <3>2. ReleasesLock(r) => job[r].plan # job[s].plan
      BY <2>2, <3>1 DEF StoreInv, JobInv, ReleasesLock
    <3>3. QED
      BY <1>2, <1>3, <3>1, <3>2 DEF StoreInv, StoreType, KeepsLock, TakesLock, ReleasesLock
  <2>3. QED
    BY <2>1, <2>2
<1>4. ASSUME NEW s \in Requests, NEW t \in Requests, Holding(job'[s]), Holding(job'[t]),
             job'[s].plan = job'[t].plan, s # t
      PROVE  FALSE
  <2>1. ASSUME NEW x \in Requests \ {r}, Holding(job'[x]), Holding(job'[r]), job'[x].plan = job'[r].plan
        PROVE  FALSE
    <3>1. job'[x] = job[x] /\ lock[job[x].plan] = TRUE
      BY <2>1 DEF Only, StoreInv, JobInv
    <3>2. KeepsLock(r)
      BY <2>1, <3>1 DEF TakesLock, ReleasesLock, Holding, Idle
    <3>3. QED
      BY <2>1, <3>1, <3>2 DEF KeepsLock, StoreInv, JobInv
  <2>2. CASE s # r /\ t # r
    BY <2>2, <1>4 DEF Only, StoreInv, JobInv
  <2>3. QED
    BY <2>1, <2>2, <1>4
<1>5. ASSUME NEW s \in Requests, job'[s].at \in {"running", "stepped"}
      PROVE  approved'[job'[s].plan] # None
  <2>1. CASE s # r
    <3>1. job'[s] = job[s] /\ Holding(job[s]) /\ lock[job[s].plan] = TRUE
          /\ approved[job[s].plan] # None /\ job[s].plan \in Plans
      BY <2>1, <1>2, <1>5 DEF Only, StoreInv, JobInv, Holding
    <3>2. ~(job[r].at \in {"running", "stepped"} /\ job[r].plan = job[s].plan)
      BY <2>1, <3>1 DEF StoreInv, JobInv, Holding
    <3>3. QED
      BY <3>1, <3>2
  <2>2. QED
    BY <2>1, <1>5
<1>6. ASSUME NEW s \in Requests, job'[s].at = "approved"
      PROVE  job'[s].plan \in granted'
  BY <1>6 DEF Only, StoreInv, JobInv
<1>7. QED
  BY <1>1, <1>3, <1>4, <1>5, <1>6 DEF StoreInv, JobInv

LEMMA StoreInit == Init => StoreInv
  BY DEF Init, StoreInv, StoreType, JobType, JobInv, Job, Jobs, Idle, Holding

LEMMA StagesApart ==
  ASSUME StoreInv, NEW r \in Requests
  PROVE  /\ job[r].at \in Stages => job[r] # Idle /\ job[r].plan \in Plans
         /\ job[r].at = "saving" => job[r].core \in Cores
         /\ Job(job[r]) /\ job[r] \in Jobs
  BY DEF StoreInv, JobType, Job, Idle, Stages

(* The clean history, whatever ends it.                                    *)
LEMMA CleanStays ==
  ASSUME StoreType, NEW p \in Plans, Spoil(p) \/ Join(p) \/ UNCHANGED clean
  PROVE  clean' \in [Plans -> BOOLEAN]
  BY DEF StoreType, Spoil, Join, Busy

LEMMA ArriveKeepsStore ==
  ASSUME StoreInv, NEW r \in Requests, Arrive(r)
  PROVE  StoreInv'
<1> USE DEF store, history
<1>1. PICK p \in Plans :
        \/ \E c \in Cores : Propose(r, p, c) \/ ProposeCut(r, p, c) \/ ProposeUnsaved(r, p, c)
        \/ Approve(r, p) \/ Reject(r, p) \/ Execute(r, p)
        \/ ApproveRaises(r, p) \/ RejectRaises(r, p) \/ StartCut(r, p)
  BY DEF Arrive
<1>2. StoreType /\ JobType
  BY DEF StoreInv
<1>3. CASE \E c \in Cores : ProposeCut(r, p, c) \/ ProposeUnsaved(r, p, c)
  <2>1. UNCHANGED <<store, job, granted>> /\ clean' \in [Plans -> BOOLEAN]
    BY <1>2, <1>3, CleanStays DEF ProposeCut, ProposeUnsaved
  <2>2. QED
    BY <2>1 DEF StoreInv, StoreType, JobType, JobInv
<1>4. ASSUME NEW c \in Cores, Propose(r, p, c) PROVE StoreInv'
  <2>1. Becomes(r, "saving", p, c)
    BY <1>2, <1>4, Enters DEF Propose, Stages
  <2>2. UNCHANGED <<store, granted>> /\ StoreType'
    BY <1>2, <1>4, CleanStays DEF Propose, StoreType
  <2>3. Job(job'[r]) /\ KeepsLock(r)
    BY <2>1, <2>2 DEF Becomes, Stages, Job, KeepsLock, Holding
  <2>4. QED
    BY <2>1, <2>2, <2>3, RequestMoves DEF Becomes
<1>5. CASE Approve(r, p)
  <2>1. Becomes(r, "approved", p, None)
    BY <1>2, <1>5, Enters DEF Approve, Grant, Stages
  <2>2. /\ lock[p] = FALSE /\ lock' = lock /\ granted' = granted \cup {p}
        /\ approved' = [approved EXCEPT ![p] = pending[p]] /\ pending[p] # None
    BY <1>2, <1>5 DEF Approve, Grant, StoreType
  <2>3. StoreType'
    <3>1. clean' \in [Plans -> BOOLEAN]
      BY <1>2, <1>5, CleanStays DEF Approve, Grant
    <3>2. QED
      BY <1>2, <1>5, <3>1 DEF Approve, Grant, StoreType
  <2>4. Job(job'[r]) /\ KeepsLock(r)
    BY <2>1, <2>2 DEF Becomes, Stages, Job, KeepsLock, Holding
  <2>5. \A q \in Plans : approved[q] # None => approved'[q] # None
    BY <1>2, <2>2 DEF StoreType
  <2>6. QED
    BY <2>1, <2>2, <2>3, <2>4, <2>5, RequestMoves DEF Becomes
<1>6. CASE Reject(r, p)
  <2>1. Becomes(r, "rejected", p, None)
    BY <1>2, <1>6, Enters DEF Reject, Stages
  <2>2. UNCHANGED <<lock, approved, granted>>
    BY <1>6 DEF Reject
  <2>3. StoreType'
    <3>1. clean' \in [Plans -> BOOLEAN]
      BY <1>2, <1>6, CleanStays DEF Reject
    <3>2. QED
      BY <1>2, <1>6, <3>1 DEF Reject, StoreType
  <2>4. Job(job'[r]) /\ KeepsLock(r)
    BY <2>1, <2>2 DEF Becomes, Stages, Job, KeepsLock, Holding
  <2>5. QED
    BY <2>1, <2>2, <2>3, <2>4, RequestMoves DEF Becomes
<1>7. CASE Execute(r, p) \/ StartCut(r, p)
  <2>0. /\ Begin(r, p) /\ lock[p] = FALSE /\ clean' \in [Plans -> BOOLEAN]
    BY <1>2, <1>7, CleanStays DEF Execute, Run, StartCut, StoreType
  <2>1. Becomes(r, "running", p, None)
    BY <1>2, <2>0, Enters DEF Begin, Stages
  <2>2. /\ UNCHANGED <<approved, granted>> /\ approved[p] # None
        /\ lock[p] = FALSE /\ lock' = [lock EXCEPT ![p] = TRUE]
    BY <2>0 DEF Begin
  <2>3. StoreType'
    BY <1>2, <2>0 DEF Begin, StoreType
  <2>4. Job(job'[r]) /\ TakesLock(r)
    BY <2>1, <2>2 DEF Becomes, Stages, Job, TakesLock
  <2>5. QED
    BY <2>1, <2>2, <2>3, <2>4, RequestMoves DEF Becomes
<1>8. CASE ApproveRaises(r, p) \/ RejectRaises(r, p)
  <2>1. /\ job[r] = Idle /\ job' = job /\ lock' = lock /\ lock[p] = FALSE
        /\ granted \subseteq granted' /\ \A q \in Plans \ {p} : approved'[q] = approved[q]
    BY <1>2, <1>8 DEF ApproveRaises, RejectRaises, StoreType
  <2>2. StoreType'
    <3>1. clean' \in [Plans -> BOOLEAN]
      BY <1>2, <1>8, CleanStays DEF ApproveRaises, RejectRaises
    <3>2. QED
      BY <1>2, <1>8, <3>1 DEF ApproveRaises, RejectRaises, StoreType
  <2>3. Only(r) /\ Job(job'[r]) /\ KeepsLock(r) /\ job'[r].at = "idle"
    BY <1>2, <2>1 DEF JobType, Only, Job, KeepsLock, Idle
  <2>4. QED
    BY <2>1, <2>2, <2>3, RequestMoves
<1>9. QED
  BY <1>1, <1>3, <1>4, <1>5, <1>6, <1>7, <1>8

LEMMA ProceedKeepsStore ==
  ASSUME StoreInv, NEW r \in Requests, Proceed(r) \/ Fail(r)
  PROVE  StoreInv'
<1> USE DEF store, history
<1> DEFINE p == job[r].plan
<1>1. StoreType /\ JobType
  BY DEF StoreInv
<1>2. Job(Idle) /\ Idle.at = "idle"
  BY DEF Job, Idle
<1>3. ASSUME NEW stage \in Stages \ {"saving"}, p \in Plans, Becomes(r, stage, p, None)
      PROVE  Job(job'[r])
  BY <1>3 DEF Job, Becomes, Stages
<1>4. CASE Save(r)
  <2>1. p \in Plans /\ job[r].core \in Cores
        /\ Becomes(r, "saved", p, None)
    BY <1>1, <1>4, Goes, StagesApart DEF Save, At, Stages
  <2>2. UNCHANGED <<lock, approved, granted>>
    BY <1>4 DEF Save
  <2>3. StoreType'
    BY <1>1, <1>4, <2>1 DEF Save, StoreType
  <2>4. Job(job'[r]) /\ KeepsLock(r)
    BY <1>3, <2>1, <2>2 DEF Becomes, Stages, KeepsLock, Holding
  <2>5. QED
    BY <2>1, <2>2, <2>3, <2>4, RequestMoves DEF Becomes
<1>5. CASE \/ SaveTimesOut(r) \/ MirrorPending(r) \/ MirrorApproved(r) \/ MirrorRejected(r)
           \/ DecisionCut(r)
  <2>1. p \in Plans
    BY <1>5, StagesApart DEF SaveTimesOut, MirrorPending, MirrorApproved, MirrorRejected, DecisionCut, At, Stages
  <2>2. Becomes(r, "idle", None, None) /\ job'[r] = Idle
    BY <1>1, <1>5, Answers DEF SaveTimesOut, MirrorPending, MirrorApproved, MirrorRejected, DecisionCut
  <2>3. UNCHANGED <<store, granted>> /\ (Spoil(p) \/ UNCHANGED clean)
    BY <1>5 DEF SaveTimesOut, MirrorPending, MirrorApproved, MirrorRejected, DecisionCut
  <2>4. StoreType'
    BY <1>1, <2>1, <2>3, CleanStays DEF StoreType
  <2>5. KeepsLock(r)
    BY <1>2, <2>2, <2>3 DEF KeepsLock, Holding
  <2>6. QED
    BY <1>2, <2>2, <2>3, <2>4, <2>5, RequestMoves DEF Becomes
<1>6. CASE StepDone(r) \/ StepCut(r)
  <2>1. p \in Plans /\ Becomes(r, "stepped", p, None)
        /\ job[r].at = "running"
    BY <1>1, <1>6, Goes, StagesApart DEF StepDone, StepCut, At, Stages
  <2>2. UNCHANGED <<store, granted>> /\ (Spoil(p) \/ UNCHANGED clean)
    BY <1>6 DEF StepDone, StepCut
  <2>3. StoreType'
    BY <1>1, <2>1, <2>2, CleanStays DEF StoreType
  <2>4. Job(job'[r]) /\ KeepsLock(r) /\ approved[p] # None
    BY <1>3, <2>1, <2>2 DEF Becomes, Stages, KeepsLock, Holding, StoreInv, JobInv
  <2>5. QED
    BY <2>1, <2>2, <2>3, <2>4, RequestMoves DEF Becomes
<1>7. CASE ToolRaises(r) \/ MarkFails(r) \/ Release(r)
  <2>1. p \in Plans /\ Holding(job[r])
    BY <1>7, StagesApart DEF ToolRaises, MarkFails, Release, At, Holding, Stages
  <2>2. Becomes(r, "idle", None, None) /\ job'[r] = Idle
    BY <1>1, <1>7, Answers DEF ToolRaises, MarkFails, Release
  <2>3. /\ UNCHANGED <<pending, approved, granted>> /\ (Spoil(p) \/ UNCHANGED clean)
        /\ executed' \in [Plans -> Cores \cup {None}] /\ lock' = [lock EXCEPT ![p] = FALSE]
    BY <1>1, <1>7, <2>1 DEF ToolRaises, MarkFails, Release, StoreType
  <2>4. StoreType'
    BY <1>1, <2>1, <2>3, CleanStays DEF StoreType
  <2>5. ReleasesLock(r)
    BY <2>1, <2>2, <2>3 DEF ReleasesLock
  <2>6. QED
    BY <1>2, <2>2, <2>3, <2>4, <2>5, RequestMoves DEF Becomes
<1>8. CASE Finish(r) \/ FinishCut(r)
  <2>1. Executed(r) /\ (Spoil(p) \/ UNCHANGED clean)
    BY <1>8 DEF Finish, FinishCut
  <2>2. p \in Plans /\ Becomes(r, "ended", p, None)
        /\ job[r].at = "stepped"
    BY <1>1, <2>1, Goes, StagesApart DEF Executed, At, Stages
  <2>3. /\ UNCHANGED <<pending, lock, granted>> /\ executed' = [executed EXCEPT ![p] = approved[p]]
        /\ approved' = [approved EXCEPT ![p] = None]
    BY <2>1 DEF Executed
  <2>4. StoreType'
    BY <1>1, <2>1, <2>2, <2>3, CleanStays DEF StoreType
  <2>5. Job(job'[r]) /\ KeepsLock(r)
    BY <1>3, <2>2, <2>3 DEF Becomes, Stages, KeepsLock, Holding
  <2>6. \A q \in Plans : approved'[q] = None /\ approved[q] # None => q = p
    BY <1>1, <2>3 DEF StoreType
  <2>7. QED
    BY <2>2, <2>3, <2>4, <2>5, <2>6, RequestMoves DEF Becomes
<1>9. CASE SaveRaises(r)
  <2>1. p \in Plans
    BY <1>9, StagesApart DEF SaveRaises, At, Stages
  <2>2. Becomes(r, "idle", None, None) /\ job'[r] = Idle
    BY <1>1, <1>9, Answers DEF SaveRaises
  <2>3. UNCHANGED <<lock, approved, granted>> /\ Spoil(p)
    BY <1>9 DEF SaveRaises
  <2>4. StoreType'
    <3>1. pending' \in [Plans -> Cores \cup {None}] /\ executed' = executed
      BY <1>1, <1>9, <2>1 DEF SaveRaises, StoreType
    <3>2. QED
      BY <1>1, <2>1, <2>3, <3>1, CleanStays DEF StoreType
  <2>5. KeepsLock(r)
    BY <1>2, <2>2, <2>3 DEF KeepsLock, Holding
  <2>6. QED
    BY <1>2, <2>2, <2>3, <2>4, <2>5, RequestMoves DEF Becomes
<1>10. QED
  BY <1>4, <1>5, <1>6, <1>7, <1>8, <1>9 DEF Proceed, Fail

LEMMA StoreStep == StoreInv /\ [Next]_vars => StoreInv'
<1> SUFFICES ASSUME StoreInv, [Next]_vars PROVE StoreInv'
  OBVIOUS
<1>1. CASE Crash
  <2>1. /\ job' = [r \in Requests |-> Idle] /\ UNCHANGED <<pending, approved, executed, lock, granted>>
        /\ clean' \in [Plans -> BOOLEAN]
    BY <1>1 DEF Crash, store, StoreInv, StoreType, Busy
  <2>2. Idle \in Jobs /\ Job(Idle) /\ Idle.at = "idle"
    BY DEF Idle, Jobs, Job
  <2>3. QED
    BY <2>1, <2>2 DEF StoreInv, StoreType, JobType, JobInv, Holding
<1>2. CASE UNCHANGED vars
  BY <1>2 DEF vars, store, history, StoreInv, StoreType, JobType, JobInv
<1>3. QED
  BY <1>1, <1>2, ArriveKeepsStore, ProceedKeepsStore DEF Next

LEMMA StoreInvariant == Spec => []StoreInv
  BY StoreInit, StoreStep, PTL DEF Spec
-----------------------------------------------------------------------------
(* The invariant of the mirror: what the directories of a plan say is      *)
(* backed by the store's history.                                          *)
MirrorInv == dir \in [Plans -> Dir] /\ \A p \in Plans : Backed(dir[p], p, granted, executed)

(* Approvals are never forgotten, nor is that a plan was executed.         *)
Grows == granted \subseteq granted' /\ \A p \in Plans : executed[p] # None => executed'[p] # None

(* A step rewrites the directories of at most one plan, and well.          *)
Rewrites(p) == \E v : /\ v = dir[p] \/ Fine(v, p, granted', executed')
                      /\ dir' = [dir EXCEPT ![p] = v]
StepsWell == Grows /\ (dir' = dir \/ \E p \in Plans : Rewrites(p))

LEMMA StillBacked ==
  ASSUME MirrorInv, Grows, NEW p \in Plans
  PROVE  dir[p] \in Dir /\ Backed(dir[p], p, granted', executed')
  BY DEF MirrorInv, Grows, Backed

LEMMA BlockRewrites ==
  ASSUME Grows, NEW p \in Plans, NEW values, Passes(values, dir[p], p, granted', executed'),
         Mirror(p, values) \/ MirrorCut(p, values)
  PROVE  StepsWell
  BY MirrorLeaves DEF StepsWell, Rewrites

LEMMA ArriveStepsWell ==
  ASSUME StoreInv, MirrorInv, NEW r \in Requests, Arrive(r)
  PROVE  StepsWell
<1>1. PICK p \in Plans :
        \/ \E c \in Cores : Propose(r, p, c) \/ ProposeCut(r, p, c) \/ ProposeUnsaved(r, p, c)
        \/ Approve(r, p) \/ Reject(r, p) \/ Execute(r, p)
        \/ ApproveRaises(r, p) \/ RejectRaises(r, p) \/ StartCut(r, p)
  BY DEF Arrive
<1>2. Grows
  BY <1>1 DEF Grows, Propose, ProposeCut, ProposeUnsaved, Approve, Grant, Reject, Execute, Run,
              Begin, StartCut, ApproveRaises, RejectRaises, store
<1>3. dir[p] \in Dir /\ Backed(dir[p], p, granted', executed')
  BY <1>2, StillBacked
<1>4. ASSUME NEW c \in Cores, Propose(r, p, c) \/ ProposeCut(r, p, c) \/ ProposeUnsaved(r, p, c)
      PROVE  StepsWell
  <2>1. Passes(ProposeBlock(dir[p], c), dir[p], p, granted', executed')
    BY <1>3, ProposeBlocks
  <2>2. QED
    BY <1>2, <1>4, <2>1, BlockRewrites DEF Propose, ProposeCut, ProposeUnsaved
<1>5. CASE Approve(r, p) \/ Reject(r, p) \/ ApproveRaises(r, p) \/ RejectRaises(r, p)
  BY <1>2, <1>5 DEF Approve, Grant, Reject, ApproveRaises, RejectRaises, StepsWell
<1>6. CASE Execute(r, p) \/ StartCut(r, p)
  <2>1. Passes(StartBlock(dir[p]), dir[p], p, granted', executed')
    BY <1>3, NoteBlocks DEF StartBlock
  <2>2. QED
    BY <1>2, <1>6, <2>1, BlockRewrites DEF Execute, Run, StartCut
<1>7. QED
  BY <1>1, <1>4, <1>5, <1>6

LEMMA ProceedStepsWell ==
  ASSUME StoreInv, MirrorInv, NEW r \in Requests, Proceed(r) \/ Fail(r)
  PROVE  StepsWell
<1> USE DEF store, history
<1> DEFINE p == job[r].plan
           d == dir[p]
<1>1. CASE \/ Save(r) \/ SaveTimesOut(r) \/ SaveRaises(r) \/ ToolRaises(r) \/ Release(r)
  BY <1>1 DEF Save, SaveTimesOut, SaveRaises, ToolRaises, Release, StepsWell, Grows
<1>2. CASE MirrorPending(r) \/ MirrorApproved(r) \/ MirrorRejected(r) \/ DecisionCut(r) \/ StepDone(r)
           \/ StepCut(r)
  <2>1. p \in Plans
    BY <1>2, StagesApart DEF MirrorPending, MirrorApproved, MirrorRejected, DecisionCut, StepDone, StepCut, At, Stages
  <2>2. UNCHANGED <<granted, executed>> /\ Grows
    BY <1>2 DEF MirrorPending, MirrorApproved, MirrorRejected, DecisionCut, StepDone, StepCut, Grows
  <2>3. d \in Dir /\ Backed(d, p, granted', executed')
    BY <2>1, <2>2, StillBacked
  <2>4. At(r, "approved") => p \in granted'
    BY <2>2 DEF At, StoreInv, JobInv
  <2>5. /\ Passes(Block(d, <<d, WriteApproval(d, "pending")>>), d, p, granted', executed')
        /\ At(r, "approved") =>
             Passes(Block(d, <<d, WriteApproval(d, "approved")>>), d, p, granted', executed')
        /\ Passes(StepBlock(d), d, p, granted', executed')
        /\ Passes(RejectBlock(d), d, p, granted', executed')
    BY <2>3, <2>4, NoteBlocks, EndBlocks DEF StepBlock
  <2>6. QED
    BY <1>2, <2>1, <2>2, <2>5, BlockRewrites
       DEF MirrorPending, MirrorApproved, MirrorRejected, DecisionCut, StepDone, StepCut
<1>3. CASE Finish(r) \/ FinishCut(r)
  <2>1. Executed(r) /\ (Mirror(p, FinishBlock(d)) \/ MirrorCut(p, FinishBlock(d)))
    BY <1>3 DEF Finish, FinishCut
  <2>2. p \in Plans /\ approved[p] # None
    BY <2>1, StagesApart DEF Executed, At, Stages, StoreInv, JobInv
  <2>3. granted' = granted /\ executed' = [executed EXCEPT ![p] = approved[p]]
    BY <2>1 DEF Executed
  <2>4. Grows /\ executed'[p] # None
    BY <2>2, <2>3 DEF Grows, StoreInv, StoreType
  <2>5. Passes(FinishBlock(d), d, p, granted', executed')
    BY <2>2, <2>4, StillBacked, EndBlocks
  <2>6. QED
    BY <2>1, <2>2, <2>4, <2>5, BlockRewrites
<1>4. CASE MarkFails(r)
  <2>1. p \in Plans /\ approved[p] # None
    BY <1>4, StagesApart DEF MarkFails, At, Stages, StoreInv, JobInv
  <2>2. UNCHANGED <<granted, dir>> /\ \E after \in {executed[p], approved[p]} :
                                    executed' = [executed EXCEPT ![p] = after]
    BY <1>4 DEF MarkFails
  <2>3. QED
    BY <2>1, <2>2 DEF StepsWell, Grows, StoreInv, StoreType
<1>5. QED
  BY <1>1, <1>2, <1>3, <1>4 DEF Proceed, Fail

LEMMA StepStepsWell ==
  ASSUME StoreInv, MirrorInv, [Next]_vars
  PROVE  StepsWell
<1>1. CASE Crash \/ UNCHANGED vars
  BY <1>1 DEF Crash, vars, store, history, StepsWell, Grows
<1>2. QED
  BY <1>1, ArriveStepsWell, ProceedStepsWell DEF Next

LEMMA MirrorInit == Init => MirrorInv
  BY DEF Init, MirrorInv, Dir, Backed

LEMMA MirrorStep == StoreInv /\ MirrorInv /\ [Next]_vars => MirrorInv'
<1> SUFFICES ASSUME StoreInv, MirrorInv, [Next]_vars PROVE MirrorInv'
  OBVIOUS
<1>1. StepsWell
  BY StepStepsWell
<1>2. CASE dir' = dir
  BY <1>1, <1>2, StillBacked DEF StepsWell, MirrorInv
<1>3. ASSUME NEW p \in Plans, Rewrites(p) PROVE MirrorInv'
  <2>1. PICK v : (v = dir[p] \/ Fine(v, p, granted', executed')) /\ dir' = [dir EXCEPT ![p] = v]
    BY <1>3 DEF Rewrites
  <2>2. v \in Dir /\ Backed(v, p, granted', executed')
    BY <1>1, <2>1, StillBacked DEF Fine, StepsWell
  <2>3. /\ dir' \in [Plans -> Dir] /\ dir'[p] = v /\ \A q \in Plans \ {p} : dir'[q] = dir[q]
    BY <2>1, <2>2 DEF MirrorInv
  <2>4. ASSUME NEW q \in Plans PROVE Backed(dir'[q], q, granted', executed')
    BY <1>1, <2>2, <2>3, StillBacked DEF StepsWell
  <2>5. QED
    BY <2>3, <2>4 DEF MirrorInv
<1>4. QED
  BY <1>1, <1>2, <1>3 DEF StepsWell

LEMMA MirrorInvariant == Spec => [](StoreInv /\ MirrorInv)
  BY StoreInit, StoreStep, MirrorInit, MirrorStep, PTL DEF Spec

(* A workspace says approved or executed, or lies under completed/, only   *)
(* after the plan store says so, whatever requests interleave, whichever   *)
(* file operation fails and however often the process dies: the mirror is  *)
(* marked after the store in the handlers that approve and execute, and    *)
(* one rename moves both the place and the content it vouches for.         *)
THEOREM EvidenceIsBacked == Spec => []EvidenceNeverAhead
<1>1. MirrorInv => EvidenceNeverAhead
  BY DEF MirrorInv, EvidenceNeverAhead, Backed, Dirs
<1>2. QED
  BY <1>1, MirrorInvariant, PTL

(* Once a plan has a workspace, some workspace of it stays readable: a     *)
(* mirror block only writes under an active workspace, and the move clears *)
(* the destination while the active one is still there.                    *)
THEOREM EvidenceRemains == Spec => EvidenceNeverVanishes
<1>1. ASSUME NEW d PROVE {d[s] : s \in States} \ {NoDir} # {} <=> Evident(d)
  BY DEF Evident
<1>2. ASSUME StoreInv, MirrorInv, [Next]_vars, NEW p \in Plans, Dirs(p) # {}
      PROVE  Dirs(p)' # {}
  <2>1. StepsWell
    BY <1>2, StepStepsWell
  <2>2. Evident(dir[p])
    BY <1>1, <1>2 DEF Dirs
  <2>3. Evident(dir'[p])
    <3>1. ASSUME NEW q \in Plans, Rewrites(q) PROVE Evident(dir'[p])
      BY <1>2, <2>2, <3>1 DEF Rewrites, Fine, MirrorInv
    <3>2. QED
      BY <2>1, <2>2, <3>1 DEF StepsWell
  <2>4. QED
    BY <1>1, <2>3 DEF Dirs
<1>3. StoreInv /\ MirrorInv /\ [Next]_vars => [\A p \in Plans : Dirs(p) # {} => Dirs(p)' # {}]_dir
  BY <1>2
<1>4. QED
  BY <1>3, MirrorInvariant, PTL DEF Spec, EvidenceNeverVanishes
-----------------------------------------------------------------------------
(* What a step does to one plan, in the terms of PlanAuthority.            *)
PlanStep(p) ==
  \/ (Runs(p)' <=> Runs(p)) /\ approved'[p] = approved[p]
  \/ ~Runs(p) /\ ~Runs(p)' /\ approved'[p] \in Cores \cup {None}
  \/ ~Runs(p) /\ Runs(p)' /\ approved[p] # None /\ approved'[p] = approved[p]
  \/ /\ Runs(p) /\ ~Runs(p)' /\ approved[p] # None
     /\ approved'[p] = None \/ approved'[p] = approved[p]

LEMMA RunnerIsAlone ==
  ASSUME StoreInv, NEW r \in Requests, Running(r)
  PROVE  /\ lock[job[r].plan] = TRUE /\ approved[job[r].plan] # None /\ job[r].plan \in Plans
         /\ \A s \in Requests : Running(s) /\ job[s].plan = job[r].plan => s = r
<1>1. Holding(job[r])
  BY DEF Running, Holding
<1>2. job[r].plan \in Plans
  BY StagesApart DEF Running, Stages
<1>3. QED
  BY <1>1, <1>2 DEF Running, Holding, StoreInv, JobInv

(* The running requests stay the same.                                     *)
LEMMA SameRuns ==
  ASSUME NEW r \in Requests, Only(r), Running(r) <=> Running(r)',
         Running(r) => job'[r].plan = job[r].plan, NEW p
  PROVE  (Runs(p)' <=> Runs(p))
<1>1. \A s \in Requests : /\ Running(s)' <=> Running(s)
                          /\ Running(s) => job'[s].plan = job[s].plan
  BY DEF Only, Running
<1>2. QED
  BY <1>1 DEF Runs

(* The run of request r ends.                                              *)
LEMMA RunEnds ==
  ASSUME StoreInv, NEW r \in Requests, Only(r), Running(r), ~Running(r)', NEW p
  PROVE  IF p = job[r].plan THEN Runs(p) /\ ~Runs(p)' ELSE Runs(p)' <=> Runs(p)
<1>1. \A s \in Requests \ {r} : (Running(s)' <=> Running(s)) /\ job'[s] = job[s]
  BY DEF Only, Running
<1>2. \A s \in Requests : Running(s)' => Running(s) /\ job'[s] = job[s] /\ s # r
  BY <1>1
<1>3. CASE p = job[r].plan
  <2>1. Runs(p)
    BY <1>3 DEF Runs
  <2>2. ASSUME NEW s \in Requests, Running(s)', job'[s].plan = p PROVE FALSE
    BY <1>2, <1>3, <2>2, RunnerIsAlone
  <2>3. ~Runs(p)'
    BY <2>2 DEF Runs
  <2>4. QED
    BY <1>3, <2>1, <2>3
<1>4. CASE p # job[r].plan
  <2>1. Runs(p)' <=> Runs(p)
    BY <1>1, <1>2, <1>4 DEF Runs
  <2>2. QED
    BY <1>4, <2>1
<1>5. QED
  BY <1>3, <1>4

LEMMA StepOfRequest ==
  ASSUME StoreInv, NEW r \in Requests, Arrive(r) \/ Proceed(r) \/ Fail(r), NEW p \in Plans
  PROVE  PlanStep(p)
<1> USE DEF store, history
<1>1. StoreType /\ JobType
  BY DEF StoreInv
<1>2. ASSUME Only(r), ~Running(r), ~Running(r)', approved' = approved PROVE PlanStep(p)
  BY <1>2, SameRuns DEF PlanStep
<1>3. ASSUME NEW q \in Plans, NEW c \in Cores,
             Propose(r, q, c) \/ ProposeCut(r, q, c) \/ ProposeUnsaved(r, q, c)
      PROVE  PlanStep(p)
  <2>1. CASE Propose(r, q, c)
    <3>1. Becomes(r, "saving", q, c) /\ job[r] = Idle
      BY <1>1, <2>1, Enters DEF Propose, Stages
    <3>2. QED
      BY <1>2, <2>1, <3>1 DEF Becomes, Running, Idle, Propose
  <2>2. CASE ProposeCut(r, q, c) \/ ProposeUnsaved(r, q, c)
    BY <2>2 DEF ProposeCut, ProposeUnsaved, PlanStep, Runs, Running
  <2>3. QED
    BY <1>3, <2>1, <2>2
<1>4. ASSUME NEW q \in Plans, Approve(r, q) PROVE PlanStep(p)
  <2>1. Becomes(r, "approved", q, None) /\ job[r] = Idle
    BY <1>1, <1>4, Enters DEF Approve, Grant, Stages
  <2>2. /\ lock[q] = FALSE /\ pending[q] \in Cores
        /\ approved' = [approved EXCEPT ![q] = pending[q]]
    BY <1>1, <1>4 DEF Approve, Grant, StoreType
  <2>3. Only(r) /\ ~Running(r) /\ ~Running(r)'
    BY <2>1 DEF Becomes, Running, Idle
  <2>4. (Runs(p)' <=> Runs(p)) /\ ~Runs(q)
    BY <2>2, <2>3, SameRuns, RunnerIsAlone DEF Runs
  <2>5. approved'[p] = IF p = q THEN pending[q] ELSE approved[p]
    BY <1>1, <2>2 DEF StoreType
  <2>6. QED
    BY <2>2, <2>4, <2>5 DEF PlanStep
<1>5. ASSUME NEW q \in Plans, Reject(r, q) PROVE PlanStep(p)
  <2>1. Becomes(r, "rejected", q, None) /\ job[r] = Idle
    BY <1>1, <1>5, Enters DEF Reject, Stages
  <2>2. QED
    BY <1>2, <1>5, <2>1 DEF Becomes, Running, Idle, Reject
<1>6. ASSUME NEW q \in Plans, Execute(r, q) \/ StartCut(r, q) PROVE PlanStep(p)
  <2>1. Becomes(r, "running", q, None) /\ job[r] = Idle
    BY <1>1, <1>6, Enters DEF Execute, Run, StartCut, Begin, Stages
  <2>2. lock[q] = FALSE /\ approved[q] # None /\ approved' = approved
    BY <1>1, <1>6 DEF Execute, Run, StartCut, Begin, StoreType
  <2>3. ~Runs(q)
    BY <2>2, RunnerIsAlone DEF Runs
  <2>4. Running(r)' /\ job'[r].plan = q /\ ~Running(r)
    BY <2>1 DEF Becomes, Running, Idle
  <2>5. Runs(q)'
    BY <2>4 DEF Runs
  <2>6. \A s \in Requests \ {r} : (Running(s)' <=> Running(s)) /\ job'[s] = job[s]
    BY <2>1 DEF Becomes, Only, Running
  <2>7. p # q => (Runs(p)' <=> Runs(p))
    BY <2>4, <2>6 DEF Runs
  <2>8. QED
    BY <2>2, <2>3, <2>5, <2>7 DEF PlanStep
<1>7. CASE Save(r)
  <2>1. Becomes(r, "saved", job[r].plan, None) /\ ~Running(r)
    BY <1>1, <1>7, Goes DEF Save, At, Stages, Running
  <2>2. QED
    BY <1>2, <1>7, <2>1 DEF Becomes, Running, Save
<1>8. CASE \/ SaveTimesOut(r) \/ MirrorPending(r) \/ MirrorApproved(r) \/ MirrorRejected(r)
           \/ DecisionCut(r) \/ Release(r) \/ SaveRaises(r)
  <2>1. Becomes(r, "idle", None, None)
    BY <1>1, <1>8, Answers
       DEF SaveTimesOut, MirrorPending, MirrorApproved, MirrorRejected, DecisionCut, Release, SaveRaises
  <2>2. ~Running(r) /\ approved' = approved
    BY <1>8 DEF SaveTimesOut, MirrorPending, MirrorApproved, MirrorRejected, DecisionCut, Release,
       SaveRaises, At, Running
  <2>3. QED
    BY <1>2, <2>1, <2>2 DEF Becomes, Running
<1>9. CASE StepDone(r) \/ StepCut(r)
  <2>1. Becomes(r, "stepped", job[r].plan, None) /\ approved' = approved /\ Running(r)
    BY <1>1, <1>9, Goes DEF StepDone, StepCut, At, Stages, Running
  <2>2. QED
    BY <2>1, SameRuns DEF Becomes, Running, PlanStep
<1>10. CASE ToolRaises(r) \/ MarkFails(r)
  <2>1. Becomes(r, "idle", None, None) /\ approved' = approved /\ Running(r)
    BY <1>1, <1>10, Answers DEF ToolRaises, MarkFails, At, Running
  <2>2. Only(r) /\ ~Running(r)'
    BY <2>1 DEF Becomes, Running
  <2>3. QED
    BY <2>1, <2>2, RunEnds, RunnerIsAlone DEF PlanStep
<1>11. CASE Finish(r) \/ FinishCut(r)
  <2>1. Executed(r)
    BY <1>11 DEF Finish, FinishCut
  <2>2. Becomes(r, "ended", job[r].plan, None) /\ Running(r)
    BY <1>1, <2>1, Goes DEF Executed, At, Stages, Running
  <2>3. Only(r) /\ ~Running(r)'
    BY <2>2 DEF Becomes, Running
  <2>4. approved'[p] = IF p = job[r].plan THEN None ELSE approved[p]
    BY <1>1, <2>1 DEF Executed, StoreType
  <2>5. QED
    BY <2>2, <2>3, <2>4, RunEnds, RunnerIsAlone DEF PlanStep
<1>12. ASSUME NEW q \in Plans, ApproveRaises(r, q) \/ RejectRaises(r, q) PROVE PlanStep(p)
  <2>1. job' = job /\ lock[q] = FALSE
    BY <1>1, <1>12 DEF ApproveRaises, RejectRaises, StoreType
  <2>2. ~Runs(q) /\ (Runs(p)' <=> Runs(p))
    BY <2>1, RunnerIsAlone DEF Runs, Running
  <2>3. approved'[p] = approved[p] \/ (p = q /\ approved'[p] \in Cores \cup {None})
    BY <1>1, <1>12 DEF ApproveRaises, RejectRaises, StoreType
  <2>4. QED
    BY <2>2, <2>3 DEF PlanStep
<1>13. QED
  BY <1>3, <1>4, <1>5, <1>6, <1>7, <1>8, <1>9, <1>10, <1>11, <1>12 DEF Arrive, Proceed, Fail

LEMMA StepOfAll ==
  ASSUME StoreInv, [Next]_vars, NEW p \in Plans
  PROVE  PlanStep(p)
<1>1. CASE Crash
  <2>1. ~Runs(p)' /\ approved' = approved
    BY <1>1 DEF Crash, store, Runs, Running, Idle
  <2>2. QED
    BY <2>1, RunnerIsAlone DEF PlanStep, Runs
<1>2. CASE UNCHANGED vars
  BY <1>2 DEF vars, store, PlanStep, Runs, Running
<1>3. QED
  BY <1>1, <1>2, StepOfRequest DEF Next

(* The plan store the mirror's endpoints use keeps the promise of          *)
(* PlanAuthority: a run starts only on approved content, alone, and takes  *)
(* the approval with it.                                                   *)
THEOREM StoreRefines == Spec => StoreImplementsAuthority
<1>1. Init => Authority!Init
  BY DEF Init, Authority!Init, Runs, Running, Idle
<1>2. ASSUME StoreInv, [Next]_vars PROVE Authority!Next
  <2>1. \A p \in Plans : PlanStep(p)
    BY <1>2, StepOfAll
  <2>2. QED
    BY <2>1, ContentAssumption
       DEF PlanStep, Authority!Next, Authority!Grant, Authority!Lose, Authority!Start, Authority!Finish,
           Authority!Abort, Authority!Rest
<1>3. QED
  BY <1>1, <1>2, StoreInvariant, PTL DEF Spec, StoreImplementsAuthority, Authority!Spec
-----------------------------------------------------------------------------
(* What the workspace of a plan with a clean history shows: between        *)
(* requests, and at each stage of the one request on it.                   *)
Shows(p, c, log) ==
  /\ dir[p]["active"] # NoDir
  /\ dir[p]["active"].plan = c
  /\ dir[p]["active"].log = log

Settled(p) ==
  /\ decided[p] = "executed" =>
       dir[p]["completed"].plan = executed[p] /\ dir[p]["completed"].log = Whole
  /\ decided[p] = "rejected" => dir[p]["rejected"].approval = "rejected"

AtRest(p) ==
  /\ Settled(p)
  /\ \/ pending[p] = None /\ approved[p] = None /\ dir[p]["active"] = NoDir
     \/ /\ pending[p] # None /\ approved[p] = None
        /\ Shows(p, pending[p], <<>>) /\ dir[p]["active"].approval = "pending"
     \/ /\ pending[p] = None /\ approved[p] # None
        /\ Shows(p, approved[p], <<>>) /\ dir[p]["active"].approval = "approved"

InFlight(r, p) ==
  /\ job[r].at # "rejected" => Settled(p)
  /\ job[r].at = "saving"   => approved[p] = None /\ Shows(p, job[r].core, <<>>)
  /\ job[r].at = "saved"    => pending[p] # None /\ approved[p] = None /\ Shows(p, pending[p], <<>>)
  /\ job[r].at # "saving" /\ job[r].at # "saved" => pending[p] = None
  /\ job[r].at = "approved" => approved[p] # None /\ Shows(p, approved[p], <<>>)
  /\ job[r].at = "rejected" => /\ approved[p] = None /\ decided[p] = "rejected"
                          /\ dir[p]["active"] # NoDir
  /\ job[r].at = "running"  => approved[p] # None /\ Shows(p, approved[p], <<"started">>)
  /\ job[r].at = "stepped"  => approved[p] # None /\ Shows(p, approved[p], <<"started", "step">>)
  /\ job[r].at = "ended"    => approved[p] = None /\ dir[p]["active"] = NoDir

Tracked(p) == clean[p] = TRUE =>
  /\ (\A r \in Requests : job[r].plan # p) => AtRest(p)
  /\ \A r \in Requests : job[r].plan = p =>
       InFlight(r, p) /\ \A s \in Requests : job[s].plan = p => s = r

TrackInv ==
  /\ decided \in [Plans -> {"none", "executed", "rejected"}]
  /\ \A p \in Plans : Tracked(p)

(* A request on p leaves every other plan alone.                           *)
Local(r, p) ==
  /\ Only(r) /\ job[r].plan \in {None, p} /\ job'[r].plan \in {None, p}
  /\ \A q \in Plans \ {p} :
       /\ pending'[q] = pending[q] /\ approved'[q] = approved[q] /\ executed'[q] = executed[q]
       /\ dir'[q] = dir[q] /\ decided'[q] = decided[q] /\ clean'[q] = clean[q]

LEMMA ElsewhereTracked ==
  ASSUME NEW r \in Requests, NEW p \in Plans, Local(r, p), NEW q \in Plans \ {p}, Tracked(q)
  PROVE  Tracked(q)'
<1>1. /\ \A s \in Requests : job'[s].plan = q <=> job[s].plan = q
      /\ \A s \in Requests : job'[s].plan = q => job'[s] = job[s]
  BY ContentAssumption DEF Local, Only
<1>2. (Settled(q)' <=> Settled(q)) /\ (AtRest(q)' <=> AtRest(q))
  BY DEF Local, Settled, AtRest, Shows
<1>3. ASSUME NEW s \in Requests, job'[s].plan = q PROVE InFlight(s, q)' <=> InFlight(s, q)
  BY <1>1, <1>2, <1>3 DEF Local, InFlight, Shows
<1>4. QED
  BY <1>1, <1>2, <1>3 DEF Tracked, Local

(* The three ways a request moves on its plan.                             *)
LEMMA EnterTracks ==
  ASSUME NEW r \in Requests, NEW p \in Plans, Only(r), job'[r].plan = p,
         clean'[p] = TRUE => ~Busy(p) /\ InFlight(r, p)'
  PROVE  Tracked(p)'
  BY DEF Tracked, Busy, Only

LEMMA GoTracks ==
  ASSUME NEW r \in Requests, NEW p \in Plans, Only(r), job[r].plan = p, job'[r].plan = p, Tracked(p),
         clean'[p] = TRUE => clean[p] = TRUE /\ InFlight(r, p)'
  PROVE  Tracked(p)'
  BY DEF Tracked, Only

LEMMA AnswerTracks ==
  ASSUME NEW r \in Requests, NEW p \in Plans, Only(r), job[r].plan = p, job'[r].plan = None, Tracked(p),
         clean'[p] = TRUE => clean[p] = TRUE /\ AtRest(p)'
  PROVE  Tracked(p)'
  BY ContentAssumption DEF Tracked, Only

LEMMA Joined ==
  ASSUME StoreType, NEW p \in Plans, Join(p)
  PROVE  /\ clean'[p] = TRUE => clean[p] = TRUE /\ ~Busy(p)
         /\ \A q \in Plans \ {p} : clean'[q] = clean[q]
<1>1. clean' = [clean EXCEPT ![p] = (clean[p] /\ ~Busy(p))] /\ clean \in [Plans -> BOOLEAN]
  BY DEF Join, StoreType
<1>2. clean'[p] = (clean[p] /\ ~Busy(p)) /\ \A q \in Plans \ {p} : clean'[q] = clean[q]
  BY <1>1
<1>3. clean[p] \in BOOLEAN
  BY <1>1
<1>4. clean'[p] = TRUE => clean[p] = TRUE /\ ~Busy(p)
  BY <1>2, <1>3, Zenon
<1>5. QED
  BY <1>2, <1>4

LEMMA Spoiled ==
  ASSUME StoreType, NEW p \in Plans, Spoil(p)
  PROVE  clean'[p] = FALSE /\ \A q \in Plans \ {p} : clean'[q] = clean[q]
  BY DEF StoreType, Spoil

(* Where a block that runs to its end leaves the directories.              *)
Changed(v, d, c, a, log) ==
  /\ v \in Dir /\ v["active"] # NoDir
  /\ v["active"].plan = c /\ v["active"].approval = a /\ v["active"].log = log
  /\ v["completed"] = d["completed"] /\ v["rejected"] = d["rejected"]

LEMMA ChangedBy ==
  ASSUME NEW d \in Dir, NEW w \in Workspace
  PROVE  Changed([d EXCEPT !["active"] = w], d, w.plan, w.approval, w.log)
<1> DEFINE v == [d EXCEPT !["active"] = w]
<1>1. v \in Dir /\ v["active"] = w /\ v["completed"] = d["completed"] /\ v["rejected"] = d["rejected"]
  BY DEF Dir
<1>2. w # NoDir
  BY ContentAssumption
<1> HIDE DEF v
<1>3. Changed(v, d, w.plan, w.approval, w.log)
  BY <1>1, <1>2 DEF Changed
<1>4. QED
  BY <1>3 DEF v

LEMMA WritesChange ==
  ASSUME NEW d \in Dir, d["active"] # NoDir, NEW w, w = d["active"]
  PROVE  /\ \A c \in Cores : Changed(WritePlan(d, c), d, c, w.approval, w.log)
         /\ \A a \in {"pending", "approved", "rejected"} :
              Changed(WriteApproval(d, a), d, w.plan, a, w.log)
         /\ \A t \in {"note", "executed"} :
              Changed(WriteResult(d, t), d, w.plan, w.approval, w.log)
         /\ \A e \in Events :
              Changed(AppendLog(d, e), d, w.plan, w.approval, Append(w.log, e))
<1>1. w \in Workspace
  BY DEF Dir
<1>2. ASSUME NEW c \in Cores PROVE Changed(WritePlan(d, c), d, c, w.approval, w.log)
  <2> DEFINE v == [w EXCEPT !.plan = c]
  <2>1. v \in Workspace /\ v.plan = c /\ v.approval = w.approval /\ v.log = w.log
    BY <1>1 DEF Workspace
  <2>2. WritePlan(d, c) = [d EXCEPT !["active"] = v]
    BY DEF WritePlan
  <2> HIDE DEF v
  <2>3. QED
    BY <2>1, <2>2, ChangedBy
<1>3. ASSUME NEW a \in {"pending", "approved", "rejected"}
      PROVE  Changed(WriteApproval(d, a), d, w.plan, a, w.log)
  <2> DEFINE v == [w EXCEPT !.approval = a]
  <2>1. v \in Workspace /\ v.plan = w.plan /\ v.approval = a /\ v.log = w.log
    BY <1>1 DEF Workspace
  <2>2. WriteApproval(d, a) = [d EXCEPT !["active"] = v]
    BY DEF WriteApproval
  <2> HIDE DEF v
  <2>3. QED
    BY <2>1, <2>2, ChangedBy
<1>4. ASSUME NEW t \in {"note", "executed"}
      PROVE  Changed(WriteResult(d, t), d, w.plan, w.approval, w.log)
  <2> DEFINE v == [w EXCEPT !.result = t]
  <2>1. v \in Workspace /\ v.plan = w.plan /\ v.approval = w.approval /\ v.log = w.log
    BY <1>1 DEF Workspace
  <2>2. WriteResult(d, t) = [d EXCEPT !["active"] = v]
    BY DEF WriteResult
  <2> HIDE DEF v
  <2>3. QED
    BY <2>1, <2>2, ChangedBy
<1>5. ASSUME NEW e \in Events
      PROVE  Changed(AppendLog(d, e), d, w.plan, w.approval, Append(w.log, e))
  <2> DEFINE l == Append(w.log, e)
             v == [w EXCEPT !.log = l]
  <2>1. w.log \in Seq(Events)
    BY <1>1 DEF Workspace
  <2>2. l \in Seq(Events)
    BY <2>1
  <2>3. AppendLog(d, e) = [d EXCEPT !["active"] = v]
    BY DEF AppendLog
  <2> HIDE DEF l
  <2>4. v \in Workspace /\ v.plan = w.plan /\ v.approval = w.approval /\ v.log = l
    BY <1>1, <2>2 DEF Workspace
  <2> HIDE DEF v
  <2>5. Changed(AppendLog(d, e), d, w.plan, w.approval, l)
    BY <2>3, <2>4, ChangedBy
  <2>6. QED
    BY <2>5 DEF l
<1>6. QED
  BY <1>2, <1>3, <1>4, <1>5

LEMMA ProposeLeaves ==
  ASSUME NEW d \in Dir, NEW c \in Cores \ (Denied \cup Unsupervised),
         d["active"] # NoDir => d["active"].log = <<>>
  PROVE  \E a : Changed(Last(ProposeBlock(d, c)), d, c, a, <<>>)
<1> DEFINE e == Ensure(d, c)
<1>1. PICK a : e \in Dir /\ e["active"] # NoDir /\ e["active"].approval = a /\ e["active"].log = <<>>
                /\ e["completed"] = d["completed"] /\ e["rejected"] = d["rejected"]
  <2>1. CASE d["active"] # NoDir
    BY <2>1 DEF Ensure, Exists
  <2>2. CASE d["active"] = NoDir
    <3>1. Fresh(None) \in Workspace /\ Fresh(None).log = <<>>
      BY DEF Fresh, Workspace
    <3>2. Changed(e, d, Fresh(None).plan, Fresh(None).approval, <<>>)
      BY <2>2, <3>1, ChangedBy DEF Ensure, Exists
    <3>3. QED
      BY <3>2 DEF Changed
  <2>3. QED
    BY <2>1, <2>2
<1> HIDE DEF e
<1>2. Changed(WritePlan(e, c), e, c, a, <<>>)
  BY <1>1, WritesChange
<1>3. Last(ProposeBlock(d, c)) = WritePlan(e, c)
  <2> DEFINE v == WritePlan(e, c)
  <2>1. ProposeBlock(d, c) = <<d, e, v>>
    BY DEF ProposeBlock, e
  <2> HIDE DEF v
  <2>2. Last(<<d, e, v>>) = v
    BY DEF Last
  <2>3. QED
    BY <2>1, <2>2 DEF v
<1>4. QED
  BY <1>1, <1>2, <1>3 DEF Changed

LEMMA NotesLeave ==
  ASSUME NEW d \in Dir, d["active"] # NoDir, NEW w, w = d["active"]
  PROVE  /\ \A a \in {"pending", "approved"} :
              Changed(Last(Block(d, <<d, WriteApproval(d, a)>>)), d, w.plan, a, w.log)
         /\ \A e \in {"started", "step"} :
              Changed(Last(Block(d, <<d, AppendLog(d, e)>>)), d, w.plan, w.approval, Append(w.log, e))
<1>1. \A v : Last(Block(d, <<d, v>>)) = v
  BY DEF Block, Exists, Last
<1>2. QED
  BY <1>1, WritesChange

LEMMA EndsLeave ==
  ASSUME NEW d \in Dir, d["active"] # NoDir, NEW w, w = d["active"]
  PROVE  /\ LET v == Last(RejectBlock(d))
             IN  /\ v["active"] = NoDir /\ v["completed"] = d["completed"]
                 /\ v["rejected"].approval = "rejected"
         /\ LET v == Last(FinishBlock(d))
             IN  /\ v["active"] = NoDir /\ v["rejected"] = d["rejected"]
                 /\ v["completed"].plan = w.plan
                 /\ v["completed"].log = Append(w.log, "completed")
<1>1. ASSUME NEW a, NEW x \in Dir, NEW s \in {"completed", "rejected"}
      PROVE  LET v == Last(Block(d, <<d, a, x>> \o MoveBlock(x, s)))
             IN  v["active"] = NoDir /\ v[s] = x["active"] /\ \A t \in States \ {s, "active"} : v[t] = x[t]
  <2>1. Last(Block(d, <<d, a, x>> \o MoveBlock(x, s))) = Rename(x, s)
    <3> DEFINE u == ClearDestination(x, s)
               y == Rename(x, s)
    <3>1. Block(d, <<d, a, x>> \o MoveBlock(x, s)) = <<d, a, x>> \o <<u, y>>
      BY DEF Block, Exists, MoveBlock
    <3> HIDE DEF u, y
    <3>2. Last(<<d, a, x>> \o <<u, y>>) = y
      BY DEF Last
    <3>3. QED
      BY <3>1, <3>2 DEF y
  <2>2. QED
    BY <2>1 DEF Rename, Dir
<1>2. LET v == Last(RejectBlock(d))
      IN  /\ v["active"] = NoDir /\ v["completed"] = d["completed"]
          /\ v["rejected"].approval = "rejected"
  <2> DEFINE a == WriteApproval(d, "rejected")
             x == WriteResult(a, "note")
             v == Last(RejectBlock(d))
  <2>1. Changed(a, d, w.plan, "rejected", w.log)
    BY WritesChange
  <2>2. RejectBlock(d) = Block(d, <<d, a, x>> \o MoveBlock(x, "rejected"))
    BY DEF RejectBlock
  <2> HIDE DEF a
  <2>3. Changed(x, a, w.plan, "rejected", w.log)
    BY <2>1, WritesChange DEF Changed
  <2> HIDE DEF x
  <2>4. /\ v["active"] = NoDir /\ v["rejected"] = x["active"] /\ v["completed"] = x["completed"]
    BY <2>2, <2>3, <1>1 DEF Changed
  <2>5. QED
    BY <2>1, <2>3, <2>4 DEF Changed
<1>3. LET v == Last(FinishBlock(d))
      IN  /\ v["active"] = NoDir /\ v["rejected"] = d["rejected"]
          /\ v["completed"].plan = w.plan
          /\ v["completed"].log = Append(w.log, "completed")
  <2> DEFINE a == AppendLog(d, "completed")
             x == WriteResult(a, "executed")
             v == Last(FinishBlock(d))
             l == Append(w.log, "completed")
  <2>1. Changed(a, d, w.plan, w.approval, l)
    BY WritesChange
  <2>2. FinishBlock(d) = Block(d, <<d, a, x>> \o MoveBlock(x, "completed"))
    BY DEF FinishBlock
  <2> HIDE DEF a, l
  <2>3. Changed(x, a, w.plan, w.approval, l)
    BY <2>1, WritesChange DEF Changed
  <2> HIDE DEF x
  <2>4. /\ v["active"] = NoDir /\ v["completed"] = x["active"] /\ v["rejected"] = x["rejected"]
    BY <2>2, <2>3, <1>1 DEF Changed
  <2>5. QED
    BY <2>1, <2>3, <2>4 DEF Changed, l
<1>4. QED
  BY <1>2, <1>3

LEMMA AppendsTo ==
  ASSUME NEW a, NEW b, NEW c
  PROVE  Append(<<a>>, b) = <<a, b>> /\ Append(<<a, b>>, c) = <<a, b, c>>
<1> DEFINE S == {a, b, c}
<1>0. a \in S /\ b \in S /\ c \in S
  OBVIOUS
<1> HIDE DEF S
<1>1. /\ Append(<<a>>, b) \in Seq(S) /\ <<a, b>> \in Seq(S)
      /\ Len(Append(<<a>>, b)) = 2 /\ Len(<<a, b>>) = 2
      /\ \A i \in 1..2 : Append(<<a>>, b)[i] = <<a, b>>[i]
  BY <1>0
<1>2. /\ Append(<<a, b>>, c) \in Seq(S) /\ <<a, b, c>> \in Seq(S)
      /\ Len(Append(<<a, b>>, c)) = 3 /\ Len(<<a, b, c>>) = 3
      /\ \A i \in 1..3 : Append(<<a, b>>, c)[i] = <<a, b, c>>[i]
  BY <1>0
<1>3. QED
  BY <1>1, <1>2, SeqEqual

DecidedType == decided \in [Plans -> {"none", "executed", "rejected"}]

LEMMA PlanTracked ==
  ASSUME TrackInv, NEW r \in Requests, NEW p \in Plans, Local(r, p), DecidedType', Tracked(p)'
  PROVE  TrackInv'
<1>1. ASSUME NEW q \in Plans PROVE Tracked(q)'
  BY ElsewhereTracked DEF TrackInv
<1>2. QED
  BY <1>1 DEF TrackInv, DecidedType

LEMMA MirrorAt ==
  ASSUME MirrorInv, NEW p \in Plans, NEW values
  PROVE  /\ Mirror(p, values) => dir'[p] = Last(values) /\ \A q \in Plans \ {p} : dir'[q] = dir[q]
         /\ MirrorCut(p, values) => \A q \in Plans \ {p} : dir'[q] = dir[q]
  BY DEF Mirror, MirrorCut, MirrorInv

LEMMA ArriveTracks ==
  ASSUME StoreInv, MirrorInv, TrackInv, NEW r \in Requests, Arrive(r)
  PROVE  TrackInv'
<1> USE DEF store, history
<1>1. PICK p \in Plans :
        \/ \E c \in Cores : Propose(r, p, c) \/ ProposeCut(r, p, c) \/ ProposeUnsaved(r, p, c)
        \/ Approve(r, p) \/ Reject(r, p) \/ Execute(r, p)
        \/ ApproveRaises(r, p) \/ RejectRaises(r, p) \/ StartCut(r, p)
  BY DEF Arrive
<1>2. StoreType /\ JobType /\ DecidedType /\ dir[p] \in Dir
  BY DEF StoreInv, TrackInv, MirrorInv, DecidedType
<1>3. clean[p] = TRUE /\ ~Busy(p) => AtRest(p)
  BY DEF TrackInv, Tracked, Busy
<1>4. ASSUME job[r] = Idle, Only(r), job'[r].plan \in {None, p},
             \A q \in Plans \ {p} : /\ pending'[q] = pending[q] /\ approved'[q] = approved[q]
                                    /\ executed'[q] = executed[q] /\ dir'[q] = dir[q]
                                    /\ decided'[q] = decided[q] /\ clean'[q] = clean[q]
      PROVE  Local(r, p)
  BY <1>4 DEF Local, Idle
<1>5. ASSUME NEW c \in Cores, ProposeCut(r, p, c) \/ ProposeUnsaved(r, p, c)
      PROVE  TrackInv'
  <2>1. /\ UNCHANGED <<store, job, decided>> /\ job[r] = Idle
        /\ \A q \in Plans \ {p} : dir'[q] = dir[q]
    BY <1>5, MirrorAt DEF ProposeCut, ProposeUnsaved
  <2>2. clean'[p] = FALSE /\ \A q \in Plans \ {p} : clean'[q] = clean[q]
    BY <1>2, <1>5, Spoiled DEF ProposeCut, ProposeUnsaved
  <2>3. Only(r) /\ job'[r].plan = None
    BY <1>2, <2>1 DEF JobType, Only, Idle
  <2>4. Local(r, p)
    BY <1>4, <2>1, <2>2, <2>3
  <2>5. Tracked(p)' /\ DecidedType'
    BY <1>2, <2>1, <2>2 DEF Tracked, DecidedType
  <2>6. QED
    BY <2>4, <2>5, PlanTracked
<1>6. ASSUME NEW c \in Cores, Propose(r, p, c) PROVE TrackInv'
  <2>1. Becomes(r, "saving", p, c) /\ job[r] = Idle
    BY <1>2, <1>6, Enters DEF Propose, Stages
  <2>2. /\ UNCHANGED <<store, decided>> /\ dir'[p] = Last(ProposeBlock(dir[p], c))
        /\ \A q \in Plans \ {p} : dir'[q] = dir[q]
    BY <1>6, MirrorAt DEF Propose
  <2>3. /\ clean'[p] = TRUE => approved[p] = None /\ clean[p] = TRUE /\ ~Busy(p)
        /\ \A q \in Plans \ {p} : clean'[q] = clean[q]
    BY <1>2, <1>6, Joined, Spoiled DEF Propose
  <2>4. ASSUME AtRest(p), approved[p] = None PROVE InFlight(r, p)'
    <3>1. dir[p]["active"] # NoDir => dir[p]["active"].log = <<>>
      BY <2>4 DEF AtRest, Shows
    <3>2. PICK a : Changed(dir'[p], dir[p], c, a, <<>>)
      BY <1>2, <1>6, <2>2, <3>1, ProposeLeaves DEF Propose
    <3>3. Shows(p, c, <<>>)' /\ Settled(p)'
      BY <2>2, <2>4, <3>2 DEF Changed, Shows, Settled, AtRest
    <3>4. QED
      BY <2>1, <2>2, <2>4, <3>3 DEF InFlight, Becomes
  <2>5. Tracked(p)'
    BY <1>3, <2>1, <2>3, <2>4, EnterTracks DEF Becomes
  <2>6. Local(r, p) /\ DecidedType'
    BY <1>2, <1>4, <2>1, <2>2, <2>3 DEF Becomes, DecidedType
  <2>7. QED
    BY <2>5, <2>6, PlanTracked
<1>7. CASE Approve(r, p)
  <2>1. Becomes(r, "approved", p, None) /\ job[r] = Idle
    BY <1>2, <1>7, Enters DEF Approve, Grant, Stages
  <2>2. /\ UNCHANGED <<executed, dir, decided>> /\ pending[p] # None
        /\ approved'[p] = pending[p] /\ pending'[p] = None
        /\ \A q \in Plans \ {p} : pending'[q] = pending[q] /\ approved'[q] = approved[q]
    BY <1>2, <1>7 DEF Approve, Grant, StoreType
  <2>3. /\ clean'[p] = TRUE => clean[p] = TRUE /\ ~Busy(p)
        /\ \A q \in Plans \ {p} : clean'[q] = clean[q]
    BY <1>2, <1>7, Joined DEF Approve, Grant
  <2>4. AtRest(p) => InFlight(r, p)'
    BY <2>1, <2>2 DEF AtRest, Settled, Shows, InFlight, Becomes
  <2>5. Tracked(p)'
    BY <1>3, <2>1, <2>3, <2>4, EnterTracks DEF Becomes
  <2>6. Local(r, p) /\ DecidedType'
    BY <1>2, <1>4, <2>1, <2>2, <2>3 DEF Becomes, DecidedType
  <2>7. QED
    BY <2>5, <2>6, PlanTracked
<1>8. CASE Reject(r, p)
  <2>1. Becomes(r, "rejected", p, None) /\ job[r] = Idle
    BY <1>2, <1>8, Enters DEF Reject, Stages
  <2>2. /\ UNCHANGED <<approved, executed, dir>> /\ pending[p] # None /\ pending'[p] = None
        /\ decided' = [decided EXCEPT ![p] = "rejected"]
        /\ \A q \in Plans \ {p} : pending'[q] = pending[q]
    BY <1>2, <1>8 DEF Reject, StoreType
  <2>3. /\ clean'[p] = TRUE => clean[p] = TRUE /\ ~Busy(p)
        /\ \A q \in Plans \ {p} : clean'[q] = clean[q]
    BY <1>2, <1>8, Joined DEF Reject
  <2>4. DecidedType' /\ decided'[p] = "rejected" /\ \A q \in Plans \ {p} : decided'[q] = decided[q]
    BY <1>2, <2>2 DEF DecidedType
  <2>5. AtRest(p) => InFlight(r, p)'
    BY <2>1, <2>2, <2>4 DEF AtRest, Shows, InFlight, Becomes
  <2>6. Tracked(p)'
    BY <1>3, <2>1, <2>3, <2>5, EnterTracks DEF Becomes
  <2>7. Local(r, p)
    BY <1>4, <2>1, <2>2, <2>3, <2>4 DEF Becomes
  <2>8. QED
    BY <2>4, <2>6, <2>7, PlanTracked
<1>9. CASE Execute(r, p)
  <2>1. Becomes(r, "running", p, None) /\ job[r] = Idle
    BY <1>2, <1>9, Enters DEF Execute, Run, Begin, Stages
  <2>2. /\ UNCHANGED <<pending, approved, executed, decided>> /\ approved[p] # None
        /\ dir'[p] = Last(Block(dir[p], <<dir[p], AppendLog(dir[p], "started")>>))
        /\ \A q \in Plans \ {p} : dir'[q] = dir[q]
    BY <1>9, MirrorAt DEF Execute, Run, Begin, StartBlock
  <2>3. /\ clean'[p] = TRUE => clean[p] = TRUE /\ ~Busy(p)
        /\ \A q \in Plans \ {p} : clean'[q] = clean[q]
    BY <1>2, <1>9, Joined DEF Execute, Run
  <2>4. ASSUME AtRest(p) PROVE InFlight(r, p)'
    <3>1. Shows(p, approved[p], <<>>) /\ pending[p] = None
      BY <2>2, <2>4 DEF AtRest
    <3>2. Changed(dir'[p], dir[p], approved[p], dir[p]["active"].approval, Append(<<>>, "started"))
      BY <1>2, <2>2, <3>1, NotesLeave DEF Shows
    <3>3. Append(<<>>, "started") = <<"started">>
      OBVIOUS
    <3>4. Shows(p, approved[p], <<"started">>)' /\ Settled(p)'
      BY <2>2, <2>4, <3>2, <3>3 DEF Changed, Shows, Settled, AtRest
    <3>5. QED
      BY <2>1, <2>2, <3>1, <3>4 DEF InFlight, Becomes
  <2>5. Tracked(p)'
    BY <1>3, <2>1, <2>3, <2>4, EnterTracks DEF Becomes
  <2>6. Local(r, p) /\ DecidedType'
    BY <1>2, <1>4, <2>1, <2>2, <2>3 DEF Becomes, DecidedType
  <2>7. QED
    BY <2>5, <2>6, PlanTracked
<1>10. CASE ApproveRaises(r, p) \/ RejectRaises(r, p)
  <2>1. /\ UNCHANGED <<executed, job, dir, decided>> /\ job[r] = Idle
        /\ \A q \in Plans \ {p} : pending'[q] = pending[q] /\ approved'[q] = approved[q]
    BY <1>2, <1>10 DEF ApproveRaises, RejectRaises, StoreType
  <2>2. clean'[p] = FALSE /\ \A q \in Plans \ {p} : clean'[q] = clean[q]
    BY <1>2, <1>10, Spoiled DEF ApproveRaises, RejectRaises
  <2>3. Only(r) /\ job'[r].plan = None
    BY <1>2, <2>1 DEF JobType, Only, Idle
  <2>4. Local(r, p)
    BY <1>4, <2>1, <2>2, <2>3
  <2>5. Tracked(p)' /\ DecidedType'
    BY <1>2, <2>1, <2>2 DEF Tracked, DecidedType
  <2>6. QED
    BY <2>4, <2>5, PlanTracked
<1>11. CASE StartCut(r, p)
  <2>1. Becomes(r, "running", p, None) /\ job[r] = Idle
    BY <1>2, <1>11, Enters DEF StartCut, Begin, Stages
  <2>2. UNCHANGED <<pending, approved, executed, decided>> /\ \A q \in Plans \ {p} : dir'[q] = dir[q]
    BY <1>11, MirrorAt DEF StartCut, Begin
  <2>3. clean'[p] = FALSE /\ \A q \in Plans \ {p} : clean'[q] = clean[q]
    BY <1>2, <1>11, Spoiled DEF StartCut
  <2>4. Local(r, p) /\ Tracked(p)' /\ DecidedType'
    BY <1>2, <1>4, <2>1, <2>2, <2>3 DEF Becomes, Tracked, DecidedType
  <2>5. QED
    BY <2>4, PlanTracked
<1>12. QED
  BY <1>1, <1>5, <1>6, <1>7, <1>8, <1>9, <1>10, <1>11

LEMMA ProceedTracks ==
  ASSUME StoreInv, MirrorInv, TrackInv, NEW r \in Requests, Proceed(r) \/ Fail(r)
  PROVE  TrackInv'
<1> USE DEF store, history
<1> DEFINE Quiet == /\ \/ SaveTimesOut(r) \/ SaveRaises(r) \/ DecisionCut(r)
                       \/ ToolRaises(r) \/ MarkFails(r)
           Tells == MirrorPending(r) \/ MirrorApproved(r) \/ MirrorRejected(r) \/ Release(r)
<1>0. job[r].at \in Stages
  BY DEF Proceed, Fail, Save, SaveTimesOut, MirrorPending, MirrorApproved, MirrorRejected, StepDone,
         Finish, Executed, Release, SaveRaises, ToolRaises, MarkFails, DecisionCut, StepCut,
         FinishCut, At, Stages
<1>1. PICK p \in Plans : job[r].plan = p
  BY <1>0, StagesApart
<1>2. StoreType /\ JobType /\ DecidedType /\ dir[p] \in Dir /\ Tracked(p)
  BY DEF StoreInv, TrackInv, MirrorInv, DecidedType
<1>3. clean[p] = TRUE => InFlight(r, p)
  BY <1>1, <1>2 DEF Tracked
<1>4. CASE Quiet
  <2>1. Becomes(r, "idle", None, None)
    BY <1>2, <1>4, Answers DEF SaveTimesOut, SaveRaises, DecisionCut, ToolRaises, MarkFails
  <2>2. /\ UNCHANGED <<approved, decided>> /\ Spoil(p)
        /\ \A q \in Plans \ {p} : /\ dir'[q] = dir[q] /\ pending'[q] = pending[q]
                                  /\ executed'[q] = executed[q]
    BY <1>1, <1>2, <1>4, MirrorAt
       DEF SaveTimesOut, SaveRaises, DecisionCut, ToolRaises, MarkFails, StoreType
  <2>3. clean'[p] = FALSE /\ \A q \in Plans \ {p} : clean'[q] = clean[q]
    BY <1>2, <2>2, Spoiled
  <2>4. Local(r, p) /\ Tracked(p)' /\ DecidedType'
    BY <1>1, <1>2, <2>1, <2>2, <2>3 DEF Local, Becomes, Tracked, DecidedType
  <2>5. QED
    BY <2>4, PlanTracked
<1>5. CASE Save(r)
  <2>1. Becomes(r, "saved", p, None) /\ job[r].at = "saving" /\ job[r].core \in Cores
    BY <1>1, <1>2, <1>5, Goes, StagesApart DEF Save, At, Stages
  <2>2. /\ UNCHANGED <<approved, executed, dir, history>> /\ pending'[p] = job[r].core
        /\ \A q \in Plans \ {p} : pending'[q] = pending[q]
    BY <1>1, <1>2, <1>5 DEF Save, StoreType
  <2>3. InFlight(r, p) => InFlight(r, p)'
    BY <2>1, <2>2, ContentAssumption DEF InFlight, Shows, Settled, Becomes
  <2>4. Tracked(p)'
    BY <1>1, <1>2, <1>3, <2>1, <2>2, <2>3, GoTracks DEF Becomes
  <2>5. Local(r, p) /\ DecidedType'
    BY <1>1, <1>2, <2>1, <2>2 DEF Local, Becomes, DecidedType
  <2>6. QED
    BY <2>4, <2>5, PlanTracked
<1>6. CASE Tells
  <2>1. Becomes(r, "idle", None, None)
    BY <1>2, <1>6, Answers DEF MirrorPending, MirrorApproved, MirrorRejected, Release
  <2>2. UNCHANGED <<pending, approved, executed, history>> /\ \A q \in Plans \ {p} : dir'[q] = dir[q]
    BY <1>1, <1>6, MirrorAt DEF MirrorPending, MirrorApproved, MirrorRejected, Release
  <2>3. ASSUME InFlight(r, p) PROVE AtRest(p)'
    <3>1. CASE MirrorPending(r)
      <4>1. /\ job[r].at = "saved"
            /\ dir'[p] = Last(Block(dir[p], <<dir[p], WriteApproval(dir[p], "pending")>>))
        BY <1>1, <3>1, MirrorAt DEF MirrorPending, At
      <4>2. Shows(p, pending[p], <<>>) /\ pending[p] # None /\ approved[p] = None /\ Settled(p)
        BY <2>3, <4>1 DEF InFlight
      <4>3. Changed(dir'[p], dir[p], pending[p], "pending", <<>>)
        BY <1>2, <4>1, <4>2, NotesLeave DEF Shows
      <4>4. QED
        BY <2>2, <4>2, <4>3 DEF AtRest, Shows, Settled, Changed
    <3>2. CASE MirrorApproved(r)
      <4>1. /\ job[r].at = "approved"
            /\ dir'[p] = Last(Block(dir[p], <<dir[p], WriteApproval(dir[p], "approved")>>))
        BY <1>1, <3>2, MirrorAt DEF MirrorApproved, At
      <4>2. Shows(p, approved[p], <<>>) /\ pending[p] = None /\ approved[p] # None /\ Settled(p)
        BY <2>3, <4>1 DEF InFlight
      <4>3. Changed(dir'[p], dir[p], approved[p], "approved", <<>>)
        BY <1>2, <4>1, <4>2, NotesLeave DEF Shows
      <4>4. QED
        BY <2>2, <4>2, <4>3 DEF AtRest, Shows, Settled, Changed
    <3>3. CASE MirrorRejected(r)
      <4>1. job[r].at = "rejected" /\ dir'[p] = Last(RejectBlock(dir[p]))
        BY <1>1, <3>3, MirrorAt DEF MirrorRejected, At
      <4>2. /\ pending[p] = None /\ approved[p] = None /\ decided[p] = "rejected"
            /\ dir[p]["active"] # NoDir
        BY <2>3, <4>1 DEF InFlight
      <4>3. dir'[p]["active"] = NoDir /\ dir'[p]["rejected"].approval = "rejected"
        BY <1>2, <4>1, <4>2, EndsLeave
      <4>4. QED
        BY <2>2, <4>2, <4>3 DEF AtRest, Settled
    <3>4. CASE Release(r)
      BY <2>2, <2>3, <3>4 DEF Release, At, InFlight, AtRest, Settled
    <3>5. QED
      BY <1>6, <3>1, <3>2, <3>3, <3>4
  <2>4. Tracked(p)'
    BY <1>1, <1>2, <1>3, <2>1, <2>2, <2>3, AnswerTracks DEF Becomes
  <2>5. Local(r, p) /\ DecidedType'
    BY <1>1, <1>2, <2>1, <2>2 DEF Local, Becomes, DecidedType
  <2>6. QED
    BY <2>4, <2>5, PlanTracked
<1>7. CASE StepDone(r)
  <2>1. Becomes(r, "stepped", p, None) /\ job[r].at = "running"
    BY <1>1, <1>2, <1>7, Goes DEF StepDone, At, Stages
  <2>2. /\ UNCHANGED <<store, history>>
        /\ dir'[p] = Last(Block(dir[p], <<dir[p], AppendLog(dir[p], "step")>>))
        /\ \A q \in Plans \ {p} : dir'[q] = dir[q]
    BY <1>1, <1>7, MirrorAt DEF StepDone, StepBlock
  <2>3. ASSUME InFlight(r, p) PROVE InFlight(r, p)'
    <3>1. /\ Shows(p, approved[p], <<"started">>) /\ pending[p] = None /\ approved[p] # None
          /\ Settled(p)
      BY <2>1, <2>3 DEF InFlight
    <3>2. Changed(dir'[p], dir[p], approved[p], dir[p]["active"].approval, Append(<<"started">>, "step"))
      BY <1>2, <2>2, <3>1, NotesLeave DEF Shows
    <3>3. Append(<<"started">>, "step") = <<"started", "step">>
      BY AppendsTo
    <3>4. Shows(p, approved[p], <<"started", "step">>)' /\ Settled(p)'
      BY <2>2, <3>1, <3>2, <3>3 DEF Changed, Shows, Settled
    <3>5. QED
      BY <2>1, <2>2, <3>1, <3>4 DEF InFlight, Becomes
  <2>4. Tracked(p)'
    BY <1>1, <1>2, <1>3, <2>1, <2>2, <2>3, GoTracks DEF Becomes
  <2>5. Local(r, p) /\ DecidedType'
    BY <1>1, <1>2, <2>1, <2>2 DEF Local, Becomes, DecidedType
  <2>6. QED
    BY <2>4, <2>5, PlanTracked
<1>8. CASE Finish(r) \/ FinishCut(r)
  <2>1. Becomes(r, "ended", p, None) /\ job[r].at = "stepped"
    BY <1>1, <1>2, <1>8, Goes DEF Finish, FinishCut, Executed, At, Stages
  <2>2. /\ UNCHANGED pending /\ executed'[p] = approved[p] /\ approved'[p] = None
        /\ decided' = [decided EXCEPT ![p] = "executed"]
        /\ \A q \in Plans \ {p} : /\ approved'[q] = approved[q] /\ executed'[q] = executed[q]
                                  /\ dir'[q] = dir[q]
    <3>1. \A q \in Plans \ {p} : dir'[q] = dir[q]
      BY <1>1, <1>8, MirrorAt DEF Finish, FinishCut
    <3>2. QED
      BY <1>1, <1>2, <1>8, <3>1 DEF Finish, FinishCut, Executed, StoreType
  <2>3. DecidedType' /\ decided'[p] = "executed" /\ \A q \in Plans \ {p} : decided'[q] = decided[q]
    BY <1>2, <2>2 DEF DecidedType
  <2>4. /\ \A q \in Plans \ {p} : clean'[q] = clean[q]
        /\ clean'[p] = TRUE => Finish(r) /\ clean[p] = TRUE
    <3>1. CASE Finish(r)
      BY <3>1 DEF Finish
    <3>2. CASE FinishCut(r)
      BY <1>1, <1>2, <3>2, Spoiled DEF FinishCut
    <3>3. QED
      BY <1>8, <3>1, <3>2
  <2>5. ASSUME InFlight(r, p), Finish(r) PROVE InFlight(r, p)'
    <3>1. /\ Shows(p, approved[p], <<"started", "step">>) /\ pending[p] = None /\ approved[p] # None
          /\ Settled(p)
      BY <2>1, <2>5 DEF InFlight
    <3>2. dir'[p] = Last(FinishBlock(dir[p]))
      BY <1>1, <2>5, MirrorAt DEF Finish
    <3>3. /\ dir'[p]["active"] = NoDir /\ dir'[p]["completed"].plan = approved[p]
          /\ dir'[p]["completed"].log = Append(<<"started", "step">>, "completed")
      <4> DEFINE w == dir[p]["active"]
      <4>1. w # NoDir /\ w.plan = approved[p] /\ w.log = <<"started", "step">>
        BY <3>1 DEF Shows
      <4>2. /\ dir'[p]["active"] = NoDir /\ dir'[p]["completed"].plan = w.plan
            /\ dir'[p]["completed"].log = Append(w.log, "completed")
        <5>1. w # NoDir /\ w = dir[p]["active"]
          BY <4>1
        <5> HIDE DEF w
        <5>2. QED
          BY <1>2, <3>2, <5>1, EndsLeave
      <4> HIDE DEF w
      <4>3. QED
        BY <4>1, <4>2
    <3>4. Append(<<"started", "step">>, "completed") = Whole
      BY AppendsTo DEF Whole
    <3>5. QED
      BY <2>1, <2>2, <2>3, <3>1, <3>3, <3>4 DEF InFlight, Settled, Becomes
  <2>6. Tracked(p)'
    BY <1>1, <1>2, <1>3, <2>1, <2>4, <2>5, GoTracks DEF Becomes
  <2>7. Local(r, p)
    BY <1>1, <1>2, <2>1, <2>2, <2>3, <2>4 DEF Local, Becomes
  <2>8. QED
    BY <2>3, <2>6, <2>7, PlanTracked
<1>9. CASE StepCut(r)
  <2>1. Becomes(r, "stepped", p, None)
    BY <1>1, <1>2, <1>9, Goes DEF StepCut, At, Stages
  <2>2. UNCHANGED <<store, decided>> /\ \A q \in Plans \ {p} : dir'[q] = dir[q]
    BY <1>1, <1>9, MirrorAt DEF StepCut
  <2>3. clean'[p] = FALSE /\ \A q \in Plans \ {p} : clean'[q] = clean[q]
    BY <1>1, <1>2, <1>9, Spoiled DEF StepCut
  <2>4. Local(r, p) /\ Tracked(p)' /\ DecidedType'
    BY <1>1, <1>2, <2>1, <2>2, <2>3 DEF Local, Becomes, Tracked, DecidedType
  <2>5. QED
    BY <2>4, PlanTracked
<1>10. QED
  BY <1>4, <1>5, <1>6, <1>7, <1>8, <1>9 DEF Proceed, Fail

LEMMA TrackInit == Init => TrackInv
  BY ContentAssumption DEF Init, TrackInv, Tracked, AtRest, Settled, Idle

LEMMA TrackStep == StoreInv /\ MirrorInv /\ TrackInv /\ [Next]_vars => TrackInv'
<1> SUFFICES ASSUME StoreInv, MirrorInv, TrackInv, [Next]_vars PROVE TrackInv'
  OBVIOUS
<1>1. CASE Crash
  <2>1. /\ job' = [r \in Requests |-> Idle] /\ UNCHANGED <<pending, approved, executed, dir, decided>>
        /\ clean' = [p \in Plans |-> clean[p] /\ ~Busy(p)]
    BY <1>1 DEF Crash, store
  <2>2. ASSUME NEW p \in Plans PROVE Tracked(p)'
    <3>1. clean'[p] = (clean[p] /\ ~Busy(p)) /\ clean[p] \in BOOLEAN
      BY <2>1 DEF StoreInv, StoreType
    <3>2. clean'[p] = TRUE => clean[p] = TRUE /\ ~Busy(p)
      BY <3>1, Zenon
    <3>3. AtRest(p)' <=> AtRest(p)
      BY <2>1 DEF AtRest, Settled, Shows
    <3>4. clean'[p] = TRUE => AtRest(p)'
      BY <3>2, <3>3 DEF TrackInv, Tracked, Busy
    <3>5. \A r \in Requests : job'[r].plan # p
      BY <2>1, ContentAssumption DEF Idle
    <3>6. QED
      BY <3>4, <3>5 DEF Tracked
  <2>3. QED
    BY <2>1, <2>2 DEF TrackInv
<1>2. CASE UNCHANGED vars
  BY <1>2 DEF vars, store, history, TrackInv, Tracked, AtRest, InFlight, Settled, Shows
<1>3. QED
  BY <1>1, <1>2, ArriveTracks, ProceedTracks DEF Next

(* As long as a plan id is used one request at a time and nothing fails    *)
(* around it, the workspace is where the plan is, shows its content and    *)
(* the decision, and a completed one holds the whole log, whatever other   *)
(* plans go through (the mirror blocks of routers/plans.py).               *)
THEOREM CleanMirrorIsFaithful == Spec => []MirrorFaithful
<1>1. StoreInv /\ TrackInv => MirrorFaithful
  <2> SUFFICES ASSUME StoreInv, TrackInv, NEW p \in Plans, clean[p], ~Busy(p)
               PROVE  LET w == dir[p]["active"]
                      IN  /\ (pending[p] = None /\ approved[p] = None) = (w = NoDir)
                          /\ pending[p] # None =>
                               approved[p] = None /\ w.plan = pending[p] /\ w.approval = "pending"
                          /\ approved[p] # None => w.plan = approved[p] /\ w.approval = "approved"
                          /\ w # NoDir => w.log = <<>>
                          /\ decided[p] = "executed" =>
                               /\ dir[p]["completed"].plan = executed[p]
                               /\ dir[p]["completed"].log = Whole
                          /\ decided[p] = "rejected" => dir[p]["rejected"].approval = "rejected"
    BY DEF MirrorFaithful
  <2>1. clean[p] \in BOOLEAN
    BY DEF StoreInv, StoreType
  <2>2. clean[p] = TRUE
    BY <2>1, Zenon
  <2>3. AtRest(p)
    BY <2>2 DEF TrackInv, Tracked, Busy
  <2>4. QED
    BY <2>3 DEF AtRest, Settled, Shows
<1>2. QED
  BY <1>1, MirrorInvariant, TrackInit, TrackStep, PTL DEF Spec
-----------------------------------------------------------------------------
(* How long the execution logs grow.  The active one is at most n long,    *)
(* and none is longer than m.                                              *)
Bounded(d, n, m) ==
  /\ d["active"] # NoDir => Len(d["active"].log) <= n
  /\ \A s \in States : d[s] # NoDir => Len(d[s].log) <= m

AllBounded(values, n, m) ==
  /\ Len(values) \in Nat \ {0}
  /\ \A i \in 1..Len(values) : Bounded(values[i], n, m)

LEMMA LogLength ==
  ASSUME NEW d \in Dir, NEW s \in States, d[s] # NoDir
  PROVE  d[s].log \in Seq(Events) /\ Len(d[s].log) \in Nat
<1>1. d[s] \in Workspace
  BY DEF Dir
<1>2. d[s].log \in Seq(Events)
  BY <1>1, Zenon DEF Workspace
<1>3. QED
  BY <1>2, LenProperties

LEMMA LooserBound ==
  ASSUME NEW d \in Dir, NEW n \in Nat, NEW m \in Nat, NEW k \in Nat, NEW l \in Nat,
         Bounded(d, n, m), n <= k, m <= l
  PROVE  Bounded(d, k, l)
<1>1. \A s \in States : d[s] # NoDir => Len(d[s].log) \in Nat
  BY LogLength
<1>2. QED
  BY <1>1 DEF Bounded

LEMMA ChangeBounded ==
  ASSUME NEW d \in Dir, NEW n \in Nat, NEW m \in Nat, Bounded(d, n, m), NEW v,
         NEW c, NEW a, NEW log, Changed(v, d, c, a, log), Len(log) <= n, n <= m, Len(log) \in Nat
  PROVE  Bounded(v, n, m)
  BY DEF Bounded, Changed

LEMMA MoveBounded ==
  ASSUME NEW d \in Dir, NEW n \in Nat, NEW m \in Nat, Bounded(d, n, m), n <= m,
         d["active"] # NoDir, NEW s \in {"completed", "rejected"}
  PROVE  /\ Bounded(ClearDestination(d, s), n, m) /\ Bounded(Rename(d, s), n, m)
         /\ Rename(d, s) \in Dir /\ Rename(d, s)["active"] = NoDir
<1> DEFINE v == ClearDestination(d, s)
           w == Rename(d, s)
<1>1. /\ v \in Dir /\ v[s] = NoDir /\ \A x \in States \ {s} : v[x] = d[x]
      /\ w \in Dir /\ w[s] = d["active"] /\ w["active"] = NoDir
      /\ \A x \in States \ {s, "active"} : w[x] = d[x]
  BY DEF ClearDestination, Rename, Dir
<1>2. Len(d["active"].log) \in Nat
  BY LogLength
<1> HIDE DEF v, w
<1>3. Bounded(v, n, m) /\ Bounded(w, n, m)
  BY <1>1, <1>2 DEF Bounded
<1>4. QED
  BY <1>1, <1>3 DEF v, w

LEMMA WritesBounded ==
  ASSUME NEW d \in Dir, NEW n \in Nat, NEW m \in Nat, Bounded(d, n, m), d["active"] # NoDir, n <= m
  PROVE  /\ \A c \in Cores :
              /\ Bounded(WritePlan(d, c), n, m)
              /\ WritePlan(d, c) \in Dir /\ WritePlan(d, c)["active"] # NoDir
         /\ \A a \in {"pending", "approved", "rejected"} :
              /\ Bounded(WriteApproval(d, a), n, m)
              /\ WriteApproval(d, a) \in Dir /\ WriteApproval(d, a)["active"] # NoDir
         /\ \A t \in {"note", "executed"} :
              /\ Bounded(WriteResult(d, t), n, m)
              /\ WriteResult(d, t) \in Dir /\ WriteResult(d, t)["active"] # NoDir
         /\ n < m => \A e \in Events :
              /\ Bounded(AppendLog(d, e), n + 1, m)
              /\ AppendLog(d, e) \in Dir /\ AppendLog(d, e)["active"] # NoDir
<1> DEFINE w == d["active"]
<1>1. w.log \in Seq(Events) /\ Len(w.log) \in Nat /\ Len(w.log) <= n
  BY LogLength DEF Bounded
<1>2. \A e \in Events : Len(Append(w.log, e)) = Len(w.log) + 1
  BY <1>1
<1> HIDE DEF w
<1>3. w = d["active"]
  BY DEF w
<1>4. ASSUME NEW c \in Cores
      PROVE  /\ Bounded(WritePlan(d, c), n, m)
             /\ WritePlan(d, c) \in Dir /\ WritePlan(d, c)["active"] # NoDir
  <2>1. Changed(WritePlan(d, c), d, c, w.approval, w.log)
    BY <1>3, WritesChange
  <2>2. QED
    BY <1>1, <2>1, ChangeBounded DEF Changed
<1>5. ASSUME NEW a \in {"pending", "approved", "rejected"}
      PROVE  /\ Bounded(WriteApproval(d, a), n, m)
             /\ WriteApproval(d, a) \in Dir /\ WriteApproval(d, a)["active"] # NoDir
  <2>1. Changed(WriteApproval(d, a), d, w.plan, a, w.log)
    BY <1>3, WritesChange
  <2>2. QED
    BY <1>1, <2>1, ChangeBounded DEF Changed
<1>6. ASSUME NEW t \in {"note", "executed"}
      PROVE  /\ Bounded(WriteResult(d, t), n, m)
             /\ WriteResult(d, t) \in Dir /\ WriteResult(d, t)["active"] # NoDir
  <2>1. Changed(WriteResult(d, t), d, w.plan, w.approval, w.log)
    BY <1>3, WritesChange
  <2>2. QED
    BY <1>1, <2>1, ChangeBounded DEF Changed
<1>7. ASSUME n < m, NEW e \in Events
      PROVE  /\ Bounded(AppendLog(d, e), n + 1, m)
             /\ AppendLog(d, e) \in Dir /\ AppendLog(d, e)["active"] # NoDir
  <2>1. Changed(AppendLog(d, e), d, w.plan, w.approval, Append(w.log, e))
    BY <1>3, WritesChange
  <2>2. Bounded(d, n + 1, m)
    BY LooserBound
  <2> DEFINE l == Append(w.log, e)
  <2>3. Len(l) \in Nat /\ Len(l) <= n + 1 /\ n + 1 \in Nat /\ n + 1 <= m
    BY <1>1, <1>2, <1>7
  <2> HIDE DEF l
  <2>4. Changed(AppendLog(d, e), d, w.plan, w.approval, l)
    BY <2>1 DEF l
  <2>5. Bounded(AppendLog(d, e), n + 1, m)
    BY <2>2, <2>3, <2>4, ChangeBounded
  <2>6. QED
    BY <2>4, <2>5 DEF Changed
<1>8. QED
  BY <1>4, <1>5, <1>6, <1>7

(* The blocks of the handlers: all but those that log leave the bounds.    *)
LEMMA ProposeBounded ==
  ASSUME NEW d \in Dir, NEW n \in Nat, NEW m \in Nat, Bounded(d, n, m), n <= m, NEW c \in Cores
  PROVE  AllBounded(ProposeBlock(d, c), n, m)
<1> DEFINE e == Ensure(d, c)
           v == WritePlan(e, c)
           w == WriteResult(v, "note")
           x == ClearDestination(w, "rejected")
           y == Rename(w, "rejected")
<1>0. ProposeBlock(d, c) = CASE c \in Denied       -> <<d, e, v, w>> \o <<x, y>>
                             [] c \in Unsupervised -> <<d, e, v, w>>
                             [] OTHER              -> <<d, e, v>>
  BY DEF ProposeBlock, MoveBlock
<1>1. e \in Dir /\ e["active"] # NoDir /\ Bounded(e, n, m)
  <2>1. CASE Exists(d)
    BY <2>1 DEF Ensure, Exists
  <2>2. CASE ~Exists(d)
    <3>1. Fresh(None) \in Workspace /\ Fresh(None).log = <<>>
      BY DEF Fresh, Workspace
    <3>2. Changed(e, d, Fresh(None).plan, Fresh(None).approval, <<>>)
      BY <2>2, <3>1, ChangedBy DEF Ensure
    <3>3. Len(<<>>) = 0
      OBVIOUS
    <3>4. QED
      BY <3>2, <3>3, ChangeBounded DEF Changed
  <2>3. QED
    BY <2>1, <2>2
<1> HIDE DEF e
<1>2. v \in Dir /\ v["active"] # NoDir /\ Bounded(v, n, m)
  BY <1>1, WritesBounded
<1> HIDE DEF v
<1>3. w \in Dir /\ w["active"] # NoDir /\ Bounded(w, n, m)
  BY <1>2, WritesBounded
<1> HIDE DEF w
<1>4. Bounded(x, n, m) /\ Bounded(y, n, m)
  BY <1>3, MoveBounded
<1> HIDE DEF x, y
<1>5. AllBounded(<<d, e, v>>, n, m) /\ AllBounded(<<d, e, v, w>>, n, m)
  BY <1>1, <1>2, <1>3 DEF AllBounded
<1>6. AllBounded(<<d, e, v, w>> \o <<x, y>>, n, m)
  BY <1>1, <1>2, <1>3, <1>4 DEF AllBounded
<1>7. QED
  BY <1>0, <1>5, <1>6

LEMMA NoteBounded ==
  ASSUME NEW d \in Dir, NEW n \in Nat, NEW m \in Nat, Bounded(d, n, m), n <= m
  PROVE  /\ \A a \in {"pending", "approved"} : AllBounded(Block(d, <<d, WriteApproval(d, a)>>), n, m)
         /\ n < m => \A e \in Events : AllBounded(Block(d, <<d, AppendLog(d, e)>>), n + 1, m)
<1>1. AllBounded(<<d>>, n, m) /\ (n < m => AllBounded(<<d>>, n + 1, m) /\ Bounded(d, n + 1, m))
  BY LooserBound DEF AllBounded
<1>2. ASSUME NEW v, NEW k \in Nat, Bounded(d, k, m), Bounded(v, k, m)
      PROVE  AllBounded(<<d, v>>, k, m)
  BY <1>2 DEF AllBounded
<1>3. ASSUME Exists(d), NEW a \in {"pending", "approved"}
      PROVE  AllBounded(<<d, WriteApproval(d, a)>>, n, m)
  BY <1>2, <1>3, WritesBounded DEF Exists
<1>4. ASSUME Exists(d), n < m, NEW e \in Events
      PROVE  AllBounded(<<d, AppendLog(d, e)>>, n + 1, m)
  BY <1>1, <1>2, <1>4, WritesBounded DEF Exists
<1>5. QED
  BY <1>1, <1>3, <1>4 DEF Block

LEMMA EndBounded ==
  ASSUME NEW d \in Dir, NEW n \in Nat, NEW m \in Nat, Bounded(d, n, m), n <= m
  PROVE  /\ AllBounded(RejectBlock(d), n, m)
         /\ n < m => AllBounded(FinishBlock(d), n + 1, m) /\ Last(FinishBlock(d))["active"] = NoDir
<1>1. AllBounded(<<d>>, n, m) /\ (n < m => AllBounded(<<d>>, n + 1, m) /\ Bounded(d, n + 1, m))
  BY LooserBound DEF AllBounded
<1>2. ASSUME NEW k \in Nat, k <= m, Bounded(d, k, m), NEW a, Bounded(a, k, m), NEW w \in Dir,
             Bounded(w, k, m), w["active"] # NoDir, NEW s \in {"completed", "rejected"}
      PROVE  /\ AllBounded(<<d, a, w>> \o MoveBlock(w, s), k, m)
             /\ Last(<<d, a, w>> \o MoveBlock(w, s))["active"] = NoDir
  <2> DEFINE x == ClearDestination(w, s)
             y == Rename(w, s)
  <2>1. Bounded(x, k, m) /\ Bounded(y, k, m) /\ y["active"] = NoDir
    BY <1>2, MoveBounded
  <2>2. MoveBlock(w, s) = <<x, y>>
    BY DEF MoveBlock
  <2> HIDE DEF x, y
  <2>3. AllBounded(<<d, a, w>> \o <<x, y>>, k, m) /\ Last(<<d, a, w>> \o <<x, y>>) = y
    BY <1>2, <2>1 DEF AllBounded, Last
  <2>4. QED
    BY <2>1, <2>2, <2>3
<1>3. AllBounded(RejectBlock(d), n, m)
  <2> DEFINE a == WriteApproval(d, "rejected")
             w == WriteResult(a, "note")
  <2>1. RejectBlock(d) = Block(d, <<d, a, w>> \o MoveBlock(w, "rejected"))
    BY DEF RejectBlock
  <2>2. ASSUME Exists(d) PROVE AllBounded(<<d, a, w>> \o MoveBlock(w, "rejected"), n, m)
    <3>1. a \in Dir /\ a["active"] # NoDir /\ Bounded(a, n, m)
      BY <2>2, WritesBounded DEF Exists
    <3> HIDE DEF a
    <3>2. w \in Dir /\ w["active"] # NoDir /\ Bounded(w, n, m)
      BY <3>1, WritesBounded
    <3> HIDE DEF w
    <3>3. QED
      BY <1>2, <3>1, <3>2
  <2> HIDE DEF a, w
  <2>3. QED
    BY <1>1, <2>1, <2>2 DEF Block
<1>4. ASSUME n < m
      PROVE  AllBounded(FinishBlock(d), n + 1, m) /\ Last(FinishBlock(d))["active"] = NoDir
  <2> DEFINE l == AppendLog(d, "completed")
             w == WriteResult(l, "executed")
  <2>1. FinishBlock(d) = Block(d, <<d, l, w>> \o MoveBlock(w, "completed"))
    BY DEF FinishBlock
  <2>2. ASSUME Exists(d)
        PROVE  /\ AllBounded(<<d, l, w>> \o MoveBlock(w, "completed"), n + 1, m)
               /\ Last(<<d, l, w>> \o MoveBlock(w, "completed"))["active"] = NoDir
    <3>1. l \in Dir /\ l["active"] # NoDir /\ Bounded(l, n + 1, m)
      BY <1>4, <2>2, WritesBounded DEF Exists
    <3> HIDE DEF l
    <3>2. w \in Dir /\ w["active"] # NoDir /\ Bounded(w, n + 1, m)
      BY <1>4, <3>1, WritesBounded
    <3> HIDE DEF w
    <3>3. QED
      BY <1>1, <1>2, <1>4, <3>1, <3>2
  <2>3. ~Exists(d) => Last(<<d>>)["active"] = NoDir
    BY DEF Exists, Last
  <2> HIDE DEF l, w
  <2>4. QED
    BY <1>1, <1>4, <2>1, <2>2, <2>3 DEF Block
<1>5. QED
  BY <1>3, <1>4

LEMMA MirrorBounded ==
  ASSUME MirrorInv, NEW p \in Plans, NEW values, NEW n, NEW m, AllBounded(values, n, m),
         Mirror(p, values) \/ MirrorCut(p, values)
  PROVE  Bounded(dir'[p], n, m)
  BY DEF AllBounded, Mirror, MirrorCut, Last, MirrorInv

(* A log has room for the three entries of a run per fault so far, and the *)
(* active one also for what the run under way has logged.                  *)
Lead(p) == IF \E r \in Requests : job[r].at = "stepped" /\ job[r].plan = p THEN 2
           ELSE IF \E r \in Requests : job[r].at = "running" /\ job[r].plan = p THEN 1 ELSE 0
Room(k) == 3 * (MaxFaults - left) + k
LogInv  == /\ left \in 0..MaxFaults
           /\ \A p \in Plans : Bounded(dir[p], Room(Lead(p)), Room(3))

LEMMA Rooms ==
  ASSUME LogInv, NEW p \in Plans
  PROVE  /\ Lead(p) \in 0..2 /\ Lead(p)' \in 0..2
         /\ Room(Lead(p)) \in Nat /\ Room(3) \in Nat /\ Room(Lead(p)) < Room(3)
         /\ Bounded(dir[p], Room(Lead(p)), Room(3))
<1>1. Lead(p) \in 0..2 /\ Lead(p)' \in 0..2
  BY DEF Lead
<1>2. QED
  BY <1>1, ContentAssumption DEF LogInv, Room

LEMMA LeadIs ==
  ASSUME StoreInv, NEW r \in Requests, NEW p \in Plans
  PROVE  /\ job[r].plan = p /\ job[r].at = "running" => Lead(p) = 1
         /\ lock[p] = FALSE => Lead(p) = 0
<1>1. \A s \in Requests : job[s].at \in {"running", "stepped"} /\ job[s].plan = p => lock[p] = TRUE
  BY DEF StoreInv, JobInv, Holding
<1>2. ASSUME job[r].plan = p, job[r].at = "running", NEW s \in Requests,
             job[s].at = "stepped", job[s].plan = p
      PROVE  FALSE
  BY <1>2 DEF StoreInv, JobInv, Holding
<1>3. QED
  BY <1>1, <1>2 DEF Lead

(* The faults that are left, and the plan r works on before and after.     *)
Spends(k) == left' = left - k /\ left' \in 0..MaxFaults
On(r, p)  == /\ Only(r)
             /\ Running(r) => job[r].plan = p
             /\ Running(r)' => job'[r].plan = p
             /\ \A q \in Plans \ {p} : dir'[q] = dir[q]

LEMMA PlanBounded ==
  ASSUME LogInv, MirrorInv, NEW r \in Requests, NEW p \in Plans, On(r, p),
         Spends(0) \/ Spends(1), Bounded(dir'[p], Room(Lead(p))', Room(3)')
  PROVE  LogInv'
<1>1. ASSUME NEW q \in Plans \ {p} PROVE Bounded(dir'[q], Room(Lead(q))', Room(3)')
  <2>1. Lead(q)' = Lead(q)
    BY DEF On, Only, Running, Lead
  <2>2. Lead(q) \in 0..2 /\ Bounded(dir[q], Room(Lead(q)), Room(3))
        /\ Room(Lead(q)) \in Nat /\ Room(3) \in Nat
    BY Rooms
  <2>3. /\ Room(Lead(q))' \in Nat /\ Room(3)' \in Nat
        /\ Room(Lead(q)) <= Room(Lead(q))' /\ Room(3) <= Room(3)'
    BY <2>1, <2>2, ContentAssumption DEF LogInv, Spends, Room
  <2>4. dir[q] \in Dir /\ dir'[q] = dir[q]
    BY DEF MirrorInv, On
  <2>5. QED
    BY <2>2, <2>3, <2>4, LooserBound
<1>2. QED
  BY <1>1 DEF LogInv, Spends

(* Three ways to stay within bounds: no run involved, a log entry for the  *)
(* run, or a fault.                                                        *)
LEMMA QuietBounded ==
  ASSUME LogInv, MirrorInv, MirrorInv', NEW r \in Requests, NEW p \in Plans, On(r, p),
         ~Running(r), ~Running(r)', Spends(0) \/ Spends(1),
         Bounded(dir'[p], Room(Lead(p)), Room(3))
  PROVE  LogInv'
<1>1. Lead(p)' = Lead(p)
  BY DEF On, Only, Running, Lead
<1>2. /\ Room(Lead(p))' \in Nat /\ Room(3)' \in Nat /\ Room(Lead(p)) \in Nat /\ Room(3) \in Nat
      /\ Room(Lead(p)) <= Room(Lead(p))' /\ Room(3) <= Room(3)'
  BY <1>1, Rooms, ContentAssumption DEF LogInv, Spends, Room
<1>3. dir'[p] \in Dir
  BY DEF MirrorInv
<1>4. QED
  BY <1>2, <1>3, LooserBound, PlanBounded

LEMMA LoggedBounded ==
  ASSUME LogInv, MirrorInv, MirrorInv', NEW r \in Requests, NEW p \in Plans, On(r, p),
         Spends(0) \/ Spends(1), Lead(p)' = Lead(p) + 1,
         Bounded(dir'[p], Room(Lead(p)) + 1, Room(3))
  PROVE  LogInv'
<1>1. /\ Room(Lead(p))' \in Nat /\ Room(3)' \in Nat /\ Room(Lead(p)) + 1 \in Nat /\ Room(3) \in Nat
      /\ Room(Lead(p)) + 1 <= Room(Lead(p))' /\ Room(3) <= Room(3)'
  BY Rooms, ContentAssumption DEF LogInv, Spends, Room
<1>2. dir'[p] \in Dir
  BY DEF MirrorInv
<1>3. QED
  BY <1>1, <1>2, LooserBound, PlanBounded

LEMMA FaultBounded ==
  ASSUME LogInv, MirrorInv, MirrorInv', NEW r \in Requests, NEW p \in Plans, On(r, p),
         Spends(1), Bounded(dir'[p], Room(Lead(p)) + 1, Room(3))
  PROVE  LogInv'
<1>1. /\ Room(Lead(p))' \in Nat /\ Room(3)' \in Nat /\ Room(Lead(p)) + 1 \in Nat /\ Room(3) \in Nat
      /\ Room(Lead(p)) + 1 <= Room(Lead(p))' /\ Room(3) <= Room(3)'
  BY Rooms, ContentAssumption DEF LogInv, Spends, Room
<1>2. dir'[p] \in Dir
  BY DEF MirrorInv
<1>3. QED
  BY <1>1, <1>2, LooserBound, PlanBounded

LEMMA ArriveBounded ==
  ASSUME StoreInv, MirrorInv, MirrorInv', LogInv, NEW r \in Requests, Arrive(r)
  PROVE  LogInv'
<1> USE DEF store, history
<1>1. PICK p \in Plans :
        \/ \E c \in Cores : Propose(r, p, c) \/ ProposeCut(r, p, c) \/ ProposeUnsaved(r, p, c)
        \/ Approve(r, p) \/ Reject(r, p) \/ Execute(r, p)
        \/ ApproveRaises(r, p) \/ RejectRaises(r, p) \/ StartCut(r, p)
  BY DEF Arrive
<1>2. StoreType /\ JobType /\ dir[p] \in Dir /\ left \in 0..MaxFaults /\ MaxFaults \in Nat
  BY ContentAssumption DEF StoreInv, MirrorInv, LogInv
<1> DEFINE n == Room(Lead(p))
           m == Room(3)
<1>3. n \in Nat /\ m \in Nat /\ n < m /\ n <= m /\ Bounded(dir[p], n, m)
  BY Rooms
<1> HIDE DEF n, m
<1>4. ASSUME NEW c \in Cores, Propose(r, p, c) \/ ProposeCut(r, p, c) \/ ProposeUnsaved(r, p, c)
      PROVE  LogInv'
  <2>1. Only(r) /\ ~Running(r) /\ ~Running(r)'
    <3>1. CASE Propose(r, p, c)
      <4>1. Becomes(r, "saving", p, c) /\ job[r] = Idle
        BY <1>2, <3>1, Enters DEF Propose, Stages
      <4>2. QED
        BY <4>1 DEF Becomes, Running, Idle
    <3>2. CASE ProposeCut(r, p, c) \/ ProposeUnsaved(r, p, c)
      BY <1>2, <3>2 DEF ProposeCut, ProposeUnsaved, JobType, Only, Running, Idle
    <3>3. QED
      BY <1>4, <3>1, <3>2
  <2>2. /\ Mirror(p, ProposeBlock(dir[p], c)) \/ MirrorCut(p, ProposeBlock(dir[p], c))
        /\ Spends(0) \/ Spends(1)
    BY <1>2, <1>4 DEF Propose, ProposeCut, ProposeUnsaved, Mirror, MirrorCut, Strike, Spends
  <2>3. Bounded(dir'[p], n, m)
    BY <1>2, <1>3, <2>2, ProposeBounded, MirrorBounded
  <2>4. On(r, p)
    BY <2>1, <2>2, MirrorAt DEF On
  <2>5. QED
    BY <2>1, <2>2, <2>3, <2>4, QuietBounded DEF n, m
<1>5. CASE Approve(r, p) \/ Reject(r, p) \/ ApproveRaises(r, p) \/ RejectRaises(r, p)
  <2>1. Only(r) /\ ~Running(r) /\ ~Running(r)'
    <3>1. CASE Approve(r, p)
      <4>1. Becomes(r, "approved", p, None) /\ job[r] = Idle
        BY <1>2, <3>1, Enters DEF Approve, Grant, Stages
      <4>2. QED
        BY <4>1 DEF Becomes, Running, Idle
    <3>2. CASE Reject(r, p)
      <4>1. Becomes(r, "rejected", p, None) /\ job[r] = Idle
        BY <1>2, <3>2, Enters DEF Reject, Stages
      <4>2. QED
        BY <4>1 DEF Becomes, Running, Idle
    <3>3. CASE ApproveRaises(r, p) \/ RejectRaises(r, p)
      BY <1>2, <3>3 DEF ApproveRaises, RejectRaises, JobType, Only, Running, Idle
    <3>4. QED
      BY <1>5, <3>1, <3>2, <3>3
  <2>2. dir' = dir /\ (Spends(0) \/ Spends(1))
    BY <1>2, <1>5 DEF Approve, Grant, Reject, ApproveRaises, RejectRaises, Strike, Spends
  <2>3. QED
    BY <1>3, <2>1, <2>2, QuietBounded DEF On, n, m
<1>6. CASE Execute(r, p) \/ StartCut(r, p)
  <2>1. Becomes(r, "running", p, None) /\ job[r] = Idle /\ lock[p] = FALSE
    BY <1>2, <1>6, Enters DEF Execute, Run, StartCut, Begin, Stages, StoreType
  <2>2. /\ Mirror(p, StartBlock(dir[p])) \/ MirrorCut(p, StartBlock(dir[p]))
        /\ Spends(0) \/ Spends(1)
    BY <1>2, <1>6 DEF Execute, Run, StartCut, Mirror, MirrorCut, Strike, Spends
  <2>3. Lead(p) = 0 /\ Lead(p)' = 1
    <3>1. Lead(p) = 0
      BY <2>1, LeadIs
    <3>2. \A s \in Requests : ~(job[s].at = "stepped" /\ job[s].plan = p)
      BY <3>1 DEF Lead
    <3>3. QED
      BY <2>1, <3>1, <3>2 DEF Lead, Becomes, Only
  <2>4. Bounded(dir'[p], n + 1, m)
    BY <1>2, <1>3, <2>2, NoteBounded, MirrorBounded DEF StartBlock
  <2>5. On(r, p)
    BY <2>1, <2>2, MirrorAt DEF On, Becomes, Running, Idle
  <2>6. QED
    BY <2>2, <2>3, <2>4, <2>5, LoggedBounded DEF n, m
<1>7. QED
  BY <1>1, <1>4, <1>5, <1>6

LEMMA ProceedBounded ==
  ASSUME StoreInv, StoreInv', MirrorInv, MirrorInv', LogInv, NEW r \in Requests, Proceed(r) \/ Fail(r)
  PROVE  LogInv'
<1> USE DEF store, history
<1>0. job[r].at \in Stages
  BY DEF Proceed, Fail, Save, SaveTimesOut, MirrorPending, MirrorApproved, MirrorRejected, StepDone,
         Finish, Executed, Release, SaveRaises, ToolRaises, MarkFails, DecisionCut, StepCut,
         FinishCut, At, Stages
<1>1. PICK p \in Plans : job[r].plan = p
  BY <1>0, StagesApart
<1>2. StoreType /\ JobType /\ dir[p] \in Dir /\ left \in 0..MaxFaults /\ MaxFaults \in Nat
  BY ContentAssumption DEF StoreInv, MirrorInv, LogInv
<1> DEFINE n == Room(Lead(p))
           m == Room(3)
           d == dir[p]
<1>3. n \in Nat /\ m \in Nat /\ n < m /\ n <= m /\ Bounded(d, n, m)
  BY Rooms
<1> HIDE DEF n, m
<1>4. CASE Save(r) \/ SaveTimesOut(r) \/ SaveRaises(r) \/ Release(r)
  <2>1. ~Running(r) /\ dir' = dir /\ (Spends(0) \/ Spends(1))
    BY <1>2, <1>4 DEF Save, SaveTimesOut, SaveRaises, Release, At, Running, Strike, Spends
  <2>2. Only(r) /\ ~Running(r)'
    <3>1. CASE Save(r)
      <4>1. Becomes(r, "saved", p, None)
        BY <1>1, <1>2, <3>1, Goes DEF Save, Stages
      <4>2. QED
        BY <4>1 DEF Becomes, Running
    <3>2. CASE SaveTimesOut(r) \/ SaveRaises(r) \/ Release(r)
      <4>1. Becomes(r, "idle", None, None)
        BY <1>2, <3>2, Answers DEF SaveTimesOut, SaveRaises, Release
      <4>2. QED
        BY <4>1 DEF Becomes, Running
    <3>3. QED
      BY <1>4, <3>1, <3>2
  <2>3. QED
    BY <1>3, <2>1, <2>2, QuietBounded DEF On, n, m
<1>5. CASE MirrorPending(r) \/ MirrorApproved(r) \/ MirrorRejected(r) \/ DecisionCut(r)
  <2>1. ~Running(r) /\ \E values \in {Block(d, <<d, WriteApproval(d, "pending")>>),
                                      Block(d, <<d, WriteApproval(d, "approved")>>), RejectBlock(d)} :
                        Mirror(p, values) \/ MirrorCut(p, values)
    BY <1>1, <1>5 DEF MirrorPending, MirrorApproved, MirrorRejected, DecisionCut, At, Running
  <2>2. Spends(0) \/ Spends(1)
    BY <1>2, <2>1 DEF Mirror, MirrorCut, Strike, Spends
  <2>3. Becomes(r, "idle", None, None)
    BY <1>2, <1>5, Answers DEF MirrorPending, MirrorApproved, MirrorRejected, DecisionCut
  <2>4. Bounded(dir'[p], n, m)
    <3>1. AllBounded(Block(d, <<d, WriteApproval(d, "pending")>>), n, m)
      BY <1>2, <1>3, NoteBounded
    <3>2. AllBounded(Block(d, <<d, WriteApproval(d, "approved")>>), n, m)
      BY <1>2, <1>3, NoteBounded
    <3>3. AllBounded(RejectBlock(d), n, m)
      BY <1>2, <1>3, EndBounded
    <3>4. PICK values \in {Block(d, <<d, WriteApproval(d, "pending")>>),
                           Block(d, <<d, WriteApproval(d, "approved")>>), RejectBlock(d)} :
                 Mirror(p, values) \/ MirrorCut(p, values)
      BY <2>1
    <3>5. AllBounded(values, n, m)
      BY <3>1, <3>2, <3>3, <3>4
    <3>6. QED
      BY <1>2, <3>4, <3>5, MirrorBounded
  <2>5. On(r, p)
    BY <2>1, <2>3, MirrorAt DEF On, Becomes, Running
  <2>6. QED
    BY <2>1, <2>2, <2>3, <2>4, <2>5, QuietBounded DEF n, m, Becomes, Running
<1>6. CASE StepDone(r) \/ StepCut(r)
  <2>1. Becomes(r, "stepped", p, None) /\ job[r].at = "running"
    BY <1>1, <1>2, <1>6, Goes DEF StepDone, StepCut, At, Stages
  <2>2. /\ Mirror(p, StepBlock(d)) \/ MirrorCut(p, StepBlock(d))
        /\ Spends(0) \/ Spends(1)
    BY <1>1, <1>2, <1>6 DEF StepDone, StepCut, Mirror, MirrorCut, Strike, Spends
  <2>3. Lead(p) = 1 /\ Lead(p)' = 2
    BY <1>1, <2>1, LeadIs DEF Lead, Becomes
  <2>4. Bounded(dir'[p], n + 1, m)
    BY <1>2, <1>3, <2>2, NoteBounded, MirrorBounded DEF StepBlock
  <2>5. On(r, p)
    BY <1>1, <2>1, <2>2, MirrorAt DEF On, Becomes
  <2>6. QED
    BY <2>2, <2>3, <2>4, <2>5, LoggedBounded DEF n, m
<1>7. CASE ToolRaises(r) \/ MarkFails(r)
  <2>1. dir' = dir /\ Spends(1)
    BY <1>2, <1>7 DEF ToolRaises, MarkFails, Strike, Spends
  <2>2. Becomes(r, "idle", None, None)
    BY <1>2, <1>7, Answers DEF ToolRaises, MarkFails
  <2>3. Bounded(dir'[p], n + 1, m)
    BY <1>2, <1>3, <2>1, LooserBound
  <2>4. On(r, p)
    BY <1>1, <2>1, <2>2 DEF On, Becomes, Running
  <2>5. QED
    BY <2>1, <2>3, <2>4, FaultBounded DEF n, m
<1>8. CASE Finish(r) \/ FinishCut(r)
  <2>1. Becomes(r, "ended", p, None)
    BY <1>1, <1>2, <1>8, Goes DEF Finish, FinishCut, Executed, At, Stages
  <2>2. Mirror(p, FinishBlock(d)) \/ MirrorCut(p, FinishBlock(d))
    BY <1>1, <1>8 DEF Finish, FinishCut
  <2>3. Bounded(dir'[p], n + 1, m)
    BY <1>2, <1>3, <2>2, EndBounded, MirrorBounded
  <2>4. On(r, p)
    BY <1>1, <2>1, <2>2, MirrorAt DEF On, Becomes, Running
  <2>5. CASE MirrorCut(p, FinishBlock(d))
    <3>1. Spends(1)
      BY <1>2, <2>5 DEF MirrorCut, Strike, Spends
    <3>2. QED
      BY <2>3, <2>4, <3>1, FaultBounded DEF n, m
  <2>6. CASE Mirror(p, FinishBlock(d))
    <3>1. Spends(0) /\ left' = left
      BY <1>2, <2>6 DEF Mirror, Spends
    <3>2. dir'[p]["active"] = NoDir
      BY <1>2, <1>3, <2>6, EndBounded, MirrorAt
    <3>3. m = Room(3)'
      BY <3>1 DEF m, Room
    <3>4. Bounded(dir'[p], Room(Lead(p))', Room(3)')
      BY <2>3, <3>2, <3>3 DEF Bounded
    <3>5. QED
      BY <2>4, <3>1, <3>4, PlanBounded
  <2>7. QED
    BY <2>2, <2>5, <2>6
<1>9. QED
  BY <1>4, <1>5, <1>6, <1>7, <1>8 DEF Proceed, Fail

LEMMA LogInit == Init => LogInv
<1>1. Init => left = MaxFaults /\ \A p \in Plans : \A k, l : Bounded(dir[p], k, l)
  BY DEF Init, Bounded
<1>2. QED
  BY <1>1, ContentAssumption DEF LogInv, Init

LEMMA LogStep == StoreInv /\ StoreInv' /\ MirrorInv /\ MirrorInv' /\ LogInv /\ [Next]_vars => LogInv'
<1> SUFFICES ASSUME StoreInv, StoreInv', MirrorInv, MirrorInv', LogInv, [Next]_vars PROVE LogInv'
  OBVIOUS
<1>1. CASE Crash
  <2>1. left' = left - 1 /\ left' \in 0..MaxFaults /\ dir' = dir
    BY <1>1, ContentAssumption DEF Crash, Strike, LogInv
  <2>2. ASSUME NEW p \in Plans PROVE Bounded(dir'[p], Room(Lead(p))', Room(3)')
    <3>1. /\ Room(Lead(p))' \in Nat /\ Room(3)' \in Nat /\ Room(Lead(p)) \in Nat /\ Room(3) \in Nat
          /\ Room(Lead(p)) <= Room(Lead(p))' /\ Room(3) <= Room(3)'
      BY <2>1, Rooms, ContentAssumption DEF LogInv, Room
    <3>2. dir[p] \in Dir /\ dir'[p] = dir[p] /\ Bounded(dir[p], Room(Lead(p)), Room(3))
      BY <2>1, Rooms DEF MirrorInv
    <3>3. QED
      BY <3>1, <3>2, LooserBound
  <2>3. QED
    BY <2>1, <2>2 DEF LogInv
<1>2. CASE UNCHANGED vars
  BY <1>2 DEF vars, LogInv, Bounded, Room, Lead
<1>3. QED
  BY <1>1, <1>2, ArriveBounded, ProceedBounded DEF Next

(* Every variable keeps its range: the store's files hold plan contents, a *)
(* request is in one of the handlers' stages, a running plan is locked and *)
(* approved, and a log holds one run and at most one more per fault        *)
(* (routers/plans.py, workspace.py).                                       *)
THEOREM TypesHold == Spec => []TypeOK
<1>1. StoreInv /\ MirrorInv /\ TrackInv /\ LogInv => TypeOK
  <2> SUFFICES ASSUME StoreInv, MirrorInv, TrackInv, LogInv PROVE TypeOK
    OBVIOUS
  <2>1. \A r \in Requests : job[r] = Idle \/
          /\ job[r].at \in Stages /\ job[r].plan \in Plans
          /\ IF At(r, "saving") THEN job[r].core \in Cores ELSE job[r].core = None
    BY StagesApart DEF Job, At
  <2>2. \A r \in Requests : Running(r) => lock[job[r].plan] /\ approved[job[r].plan] # None
    BY DEF Running, StoreInv, JobInv, Holding
  <2>3. \A p \in Plans, s \in States : dir[p][s] = NoDir \/ dir[p][s] \in Workspace
    BY DEF MirrorInv, Dir
  <2>4. left \in 0..MaxFaults /\ Room(3) = 3 * (MaxFaults - left + 1)
    BY ContentAssumption DEF LogInv, Room
  <2>5. \A p \in Plans, s \in States :
          dir[p][s] # NoDir => Len(dir[p][s].log) <= 3 * (MaxFaults - left + 1)
    BY <2>4 DEF LogInv, Bounded
  <2>6. QED
    BY <2>1, <2>2, <2>3, <2>4, <2>5 DEF TypeOK, StoreInv, StoreType, TrackInv
<1>2. QED
  BY <1>1, StoreInvariant, MirrorInvariant, MirrorInit, MirrorStep, StoreInit, StoreStep,
     TrackInit, TrackStep, LogInit, LogStep, PTL DEF Spec
=============================================================================
