-------------------------- MODULE PlanLifecycleProofs --------------------------
(***************************************************************************)
(* Proofs about PlanLifecycle, for any requests, plans, contents, tools    *)
(* and any budget of faults: the locks; that only granted content runs;    *)
(* the moves between the folders; and that it implements PlanAuthority.    *)
(***************************************************************************)
EXTENDS PlanLifecycle, TLAPS

USE DEF Folders, Ops, Faults, PCs

LEMMA Folding == \A o \in Ops : Src(o) \in Folders /\ Dst(o) \in Folders
  BY DEF Src, Dst

LEMMA InitTyped == Init => TypeOK
  BY NullAssumption, ToolAssumption, BoundAssumption
  DEF Init, TypeOK, File, InCritical, At

LEMMA NextTyped == TypeOK /\ [Next]_vars => TypeOK'
<1> SUFFICES ASSUME TypeOK, [Next]_vars PROVE TypeOK'
  OBVIOUS
<1> USE DEF TypeOK, InCritical, At, disk, job, history
<1>1. ASSUME NEW r \in Requests, NEW p \in Plans, NEW c \in Cores, Propose(r, p, c)
      PROVE  TypeOK'
  BY <1>1, NullAssumption DEF Propose, Accept, Doc
<1>2. ASSUME NEW r \in Requests, NEW p \in Plans, NEW o \in Ops, Ask(r, o, p)
      PROVE  TypeOK'
  BY <1>2, NullAssumption DEF Ask, Accept
<1>3. ASSUME NEW r \in Requests, Proceed(r) PROVE TypeOK'
  <2>1. CASE TryLock(r)
    BY <2>1 DEF TryLock, Lock, Go
  <2>2. CASE GiveUp(r)
    BY <2>2 DEF GiveUp, Answer
  <2>3. CASE CheckApprove(r)
    BY <2>3 DEF CheckApprove, ApproveAdmits, Digest, GoWith, Doc
  <2>4. CASE CheckReject(r)
    BY <2>4 DEF CheckReject, RejectAdmits, GoWith
  <2>5. CASE StartRun(r)
    BY <2>5 DEF StartRun, ExecuteAdmits, GoWith
  <2>6. CASE Refuse(r)
    BY <2>6 DEF Refuse, Go
  <2>7. CASE CallTool(r)
    BY <2>7 DEF CallTool, Go
  <2>8. CASE MissTool(r)
    BY <2>8 DEF MissTool
  <2>9. CASE ToolReturns(r)
    BY <2>9 DEF ToolReturns
  <2>10. CASE FinishRun(r)
    BY <2>10 DEF FinishRun, Go
  <2>11. CASE Write(r)
    BY <2>11, Folding, NullAssumption DEF Write, Go, Payload, File, Digest, Doc
  <2>12. CASE Unlink(r)
    BY <2>12, Folding DEF Unlink, Go, File
  <2>13. CASE Release(r)
    BY <2>13 DEF Release, Answer
  <2>14. QED
    BY <1>3, <2>1, <2>2, <2>3, <2>4, <2>5, <2>6, <2>7, <2>8, <2>9, <2>10, <2>11,
       <2>12, <2>13 DEF Proceed
<1>4. ASSUME NEW r \in Requests, Fail(r) PROVE TypeOK'
  <2>1. CASE ToolRaises(r)
    BY <2>1 DEF ToolRaises, StepFails, Spend, Go
  <2>2. CASE WriteFails(r)
    BY <2>2, Folding DEF WriteFails, WriteBreaks, StepFails, Spend, Go, File
  <2>3. CASE UnlinkFails(r)
    BY <2>3 DEF UnlinkFails, StepFails, Spend, Go
  <2>4. CASE ReleaseFails(r)
    BY <2>4 DEF ReleaseFails, Spend, Answer
  <2>5. QED
    BY <1>4, <2>1, <2>2, <2>3, <2>4 DEF Fail
<1>5. CASE Crash
  BY <1>5, ToolAssumption DEF Crash, Spend, File
<1>6. ASSUME NEW p \in Plans, NEW f \in {"pending", "approved"}, NEW c \in Cores, Edit(p, f, c)
      PROVE  TypeOK'
  BY <1>6 DEF Edit, Spend, File, Doc
<1>7. ASSUME NEW t \in Tools, InstallTool(t) \/ WithdrawTool(t)
      PROVE  TypeOK'
  BY <1>7 DEF InstallTool, WithdrawTool
<1>8. CASE UNCHANGED vars
  BY <1>8 DEF vars
<1>9. QED
  BY <1>1, <1>2, <1>3, <1>4, <1>5, <1>6, <1>7, <1>8 DEF Next, Arrive, Environment

(* Type correctness of the lifecycle state.                                *)
THEOREM TypeCorrect == Spec => []TypeOK
  BY InitTyped, NextTyped, PTL DEF Spec
-----------------------------------------------------------------------------
(* Mutual exclusion.  LockExclusive is inductive by itself: mkdir succeeds *)
(* only where no lock directory is, hence where no request is inside.      *)

LEMMA InitExclusive == Init => LockExclusive
  BY DEF Init, LockExclusive, InCritical

LEMMA NextExclusive == TypeOK /\ LockExclusive /\ [Next]_vars => LockExclusive'
<1> SUFFICES ASSUME TypeOK, LockExclusive, [Next]_vars PROVE LockExclusive'
  OBVIOUS
<1> USE DEF LockExclusive, Owner, InCritical, At, disk, job
<1>t. /\ pc \in [Requests -> PCs] /\ plan \in [Requests -> Plans \cup {NoPlan}]
      /\ lock \in [Plans -> BOOLEAN]
      /\ \A r \in Requests : pc[r] # "idle" => plan[r] \in Plans
  BY DEF TypeOK
<1>1. ASSUME NEW r \in Requests, NEW p \in Plans, NEW c \in Cores, Propose(r, p, c)
      PROVE  LockExclusive'
  BY <1>t, <1>1 DEF Propose, Accept
<1>2. ASSUME NEW r \in Requests, NEW p \in Plans, NEW o \in Ops, Ask(r, o, p)
      PROVE  LockExclusive'
  BY <1>t, <1>2 DEF Ask, Accept
<1>3. ASSUME NEW r \in Requests, Proceed(r) PROVE LockExclusive'
  <2>1. CASE TryLock(r)
    BY <1>t, <2>1 DEF TryLock, Lock, Go
  <2>2. CASE GiveUp(r)
    BY <1>t, <2>2 DEF GiveUp, Answer
  <2>3. CASE CheckApprove(r)
    BY <1>t, <2>3 DEF CheckApprove, GoWith
  <2>4. CASE CheckReject(r)
    BY <1>t, <2>4 DEF CheckReject, GoWith
  <2>5. CASE StartRun(r)
    BY <1>t, <2>5 DEF StartRun, GoWith
  <2>6. CASE Refuse(r)
    BY <1>t, <2>6 DEF Refuse, Go
  <2>7. CASE CallTool(r)
    BY <1>t, <2>7 DEF CallTool, Go
  <2>8. CASE MissTool(r)
    BY <1>t, <2>8 DEF MissTool
  <2>9. CASE ToolReturns(r)
    BY <1>t, <2>9 DEF ToolReturns
  <2>10. CASE FinishRun(r)
    BY <1>t, <2>10 DEF FinishRun, Go
  <2>11. CASE Write(r)
    BY <1>t, <2>11 DEF Write, Go
  <2>12. CASE Unlink(r)
    BY <1>t, <2>12 DEF Unlink, Go
  <2>13. CASE Release(r)
    BY <1>t, <2>13, NullAssumption DEF Release, Answer
  <2>14. QED
    BY <1>3, <2>1, <2>2, <2>3, <2>4, <2>5, <2>6, <2>7, <2>8, <2>9, <2>10, <2>11,
       <2>12, <2>13 DEF Proceed
<1>4. ASSUME NEW r \in Requests, Fail(r) PROVE LockExclusive'
  <2>1. CASE ToolRaises(r)
    BY <1>t, <2>1 DEF ToolRaises, Go
  <2>2. CASE WriteFails(r)
    BY <1>t, <2>2 DEF WriteFails, WriteBreaks, Go
  <2>3. CASE UnlinkFails(r)
    BY <1>t, <2>3 DEF UnlinkFails, Go
  <2>4. CASE ReleaseFails(r)
    BY <1>t, <2>4 DEF ReleaseFails, Answer
  <2>5. QED
    BY <1>4, <2>1, <2>2, <2>3, <2>4 DEF Fail
<1>5. CASE Crash
  BY <1>t, <1>5 DEF Crash
<1>6. ASSUME NEW p \in Plans, NEW f \in {"pending", "approved"}, NEW c \in Cores, Edit(p, f, c)
      PROVE  LockExclusive'
  BY <1>6 DEF Edit
<1>7. ASSUME NEW t \in Tools, InstallTool(t) \/ WithdrawTool(t)
      PROVE  LockExclusive'
  BY <1>7 DEF InstallTool, WithdrawTool
<1>8. CASE UNCHANGED vars
  BY <1>8 DEF vars
<1>9. QED
  BY <1>1, <1>2, <1>3, <1>4, <1>5, <1>6, <1>7, <1>8 DEF Next, Arrive, Environment

(* A plan's critical section admits one request at a time, whatever fails. *)
THEOREM Exclusive == Spec => []LockExclusive
  BY InitExclusive, NextExclusive, TypeCorrect, PTL DEF Spec
-----------------------------------------------------------------------------
(* Grants.  A plan runs only content that was hashed by a propose and      *)
(* granted by an approve, and one approval is good for one run.            *)

(* The strengthening that makes RunsOnlyGranted inductive: a digest on     *)
(* disk or in a handler's memory always stands for a content the gateway   *)
(* hashed.  Edits change contents, never digests, so it survives them.     *)
ReviewedOnDisk ==
  \A p \in Plans : LET d == file[p]["pending"]
                   IN  d \in Doc /\ d.reviewed # NoHash => d.reviewed \in proposed[p]
ApprovedOnDisk ==
  \A p \in Plans : LET d == file[p]["approved"]
                   IN  d \in Doc /\ d.approved # NoHash => d.approved \in granted[p]
ApproveInHand ==
  \A r \in Requests : op[r] = "approve" /\ At(r, "writing") =>
    hand[r].approved = hand[r].core /\ hand[r].core \in proposed[plan[r]]
GrantInv ==
  /\ \A p \in Plans : granted[p] \subseteq proposed[p]
  /\ ReviewedOnDisk
  /\ ApprovedOnDisk
  /\ ApproveInHand
  /\ RunsOnlyGranted

LEMMA InitGrant == Init => GrantInv
<1>1. Init => ReviewedOnDisk /\ ApprovedOnDisk
  BY NullAssumption DEF Init, ReviewedOnDisk, ApprovedOnDisk, Folders
<1>2. Init => ApproveInHand /\ RunsOnlyGranted
  BY DEF Init, ApproveInHand, RunsOnlyGranted, Executing, At
<1>3. QED
  BY <1>1, <1>2 DEF Init, GrantInv

LEMMA NextGrant == TypeOK /\ TypeOK' /\ GrantInv /\ [Next]_vars => GrantInv'
<1> SUFFICES ASSUME TypeOK, TypeOK', GrantInv, [Next]_vars PROVE GrantInv'
  OBVIOUS
<1> USE DEF GrantInv, ReviewedOnDisk, ApprovedOnDisk, ApproveInHand, RunsOnlyGranted,
            Executing, At, disk, job, history
<1>t. /\ pc \in [Requests -> PCs]
      /\ op \in [Requests -> Ops \cup {"none"}]
      /\ plan \in [Requests -> Plans \cup {NoPlan}]
      /\ hand \in [Requests -> Doc \cup {Absent}]
      /\ file \in [Plans -> [Folders -> File]]
      /\ proposed \in [Plans -> SUBSET Cores]
      /\ granted \in [Plans -> SUBSET Cores]
      /\ \A r \in Requests :
           /\ pc[r] # "idle" => plan[r] \in Plans /\ op[r] \in Ops
           /\ pc[r] = "checking" => op[r] # "propose"
           /\ pc[r] \in {"running", "inTool", "writing", "unlinking"} => hand[r] \in Doc
           /\ pc[r] \in {"running", "inTool"} => op[r] = "execute"
           /\ pc[r] = "unlinking" => op[r] # "propose"
  BY DEF TypeOK, InCritical
<1>1. ASSUME NEW r \in Requests, NEW p \in Plans, NEW c \in Cores, Propose(r, p, c)
      PROVE  GrantInv'
  BY <1>t, <1>1 DEF Propose, Accept
<1>2. ASSUME NEW r \in Requests, NEW p \in Plans, NEW o \in Ops, Ask(r, o, p)
      PROVE  GrantInv'
  BY <1>t, <1>2 DEF Ask, Accept
<1>3. ASSUME NEW r \in Requests, Proceed(r) PROVE GrantInv'
  <2>1. CASE TryLock(r)
    BY <1>t, <2>1 DEF TryLock, Lock, Go
  <2>2. CASE GiveUp(r)
    BY <1>t, <2>2 DEF GiveUp, Answer
  <2>3. CASE CheckApprove(r)
    BY <1>t, <2>3 DEF CheckApprove, ApproveAdmits, GoWith, Digest
  <2>4. CASE CheckReject(r)
    BY <1>t, <2>4 DEF CheckReject, GoWith
  <2>5. CASE StartRun(r)
    BY <1>t, <2>5 DEF StartRun, ExecuteAdmits, GoWith, Digest
  <2>6. CASE Refuse(r)
    BY <1>t, <2>6 DEF Refuse, Go
  <2>7. CASE CallTool(r)
    BY <1>t, <2>7 DEF CallTool, Go
  <2>8. CASE MissTool(r)
    BY <1>t, <2>8 DEF MissTool
  <2>9. CASE ToolReturns(r)
    BY <1>t, <2>9 DEF ToolReturns
  <2>10. CASE FinishRun(r)
    BY <1>t, <2>10 DEF FinishRun, Go
  <2>11. CASE Write(r)
    <3>1. CASE op[r] = "propose"
      BY <1>t, <2>11, <3>1 DEF Write, Go, Payload, Dst, Digest, Doc
    <3>2. CASE op[r] = "approve"
      BY <1>t, <2>11, <3>2 DEF Write, Go, Payload, Dst
    <3>3. CASE op[r] = "reject"
      BY <1>t, <2>11, <3>3 DEF Write, Go, Payload, Dst
    <3>4. CASE op[r] = "execute"
      BY <1>t, <2>11, <3>4 DEF Write, Go, Payload, Dst
    <3>5. op[r] \in Ops
      BY <1>t, <2>11 DEF Write
    <3>6. QED
      <4> HIDE DEF GrantInv
      <4> QED
        BY <3>1, <3>2, <3>3, <3>4, <3>5
  <2>12. CASE Unlink(r)
    BY <1>t, <2>12, NullAssumption DEF Unlink, Go, Src
  <2>13. CASE Release(r)
    BY <1>t, <2>13 DEF Release, Answer
  <2>14. QED
    BY <1>3, <2>1, <2>2, <2>3, <2>4, <2>5, <2>6, <2>7, <2>8, <2>9, <2>10, <2>11,
       <2>12, <2>13 DEF Proceed
<1>4. ASSUME NEW r \in Requests, Fail(r) PROVE GrantInv'
  <2>1. CASE ToolRaises(r)
    BY <1>t, <2>1 DEF ToolRaises, StepFails, Go
  <2>2. CASE WriteFails(r)
    BY <1>t, <2>2, Folding, NullAssumption DEF WriteFails, WriteBreaks, StepFails, Go
  <2>3. CASE UnlinkFails(r)
    BY <1>t, <2>3 DEF UnlinkFails, StepFails, Go
  <2>4. CASE ReleaseFails(r)
    BY <1>t, <2>4 DEF ReleaseFails, Answer
  <2>5. QED
    BY <1>4, <2>1, <2>2, <2>3, <2>4 DEF Fail
<1>5. CASE Crash
  <2>1. \A p \in Plans, f \in Folders : file'[p][f] \in {Torn, file[p][f]}
    BY <1>t, <1>5 DEF Crash
  <2>2. \A r \in Requests : pc'[r] = "idle"
    BY <1>5 DEF Crash
  <2>3. UNCHANGED <<proposed, granted>>
    BY <1>5 DEF Crash
  <2>4. ReviewedOnDisk' /\ ApprovedOnDisk'
    BY <2>1, <2>3, NullAssumption
  <2>5. ApproveInHand' /\ RunsOnlyGranted'
    BY <2>2
  <2>6. QED
    <3> HIDE DEF ReviewedOnDisk, ApprovedOnDisk, ApproveInHand, RunsOnlyGranted
    <3> QED
      BY <2>3, <2>4, <2>5
<1>6. ASSUME NEW p \in Plans, NEW f \in {"pending", "approved"}, NEW c \in Cores, Edit(p, f, c)
      PROVE  GrantInv'
  BY <1>t, <1>6 DEF Edit, Doc
<1>7. ASSUME NEW t \in Tools, InstallTool(t) \/ WithdrawTool(t)
      PROVE  GrantInv'
  BY <1>7 DEF InstallTool, WithdrawTool
<1>8. CASE UNCHANGED vars
  BY <1>8 DEF vars
<1>9. QED
  BY <1>1, <1>2, <1>3, <1>4, <1>5, <1>6, <1>7, <1>8 DEF Next, Arrive, Environment

(* What runs was proposed to, hashed by and approved through the gateway,  *)
(* for any edits of the stored files, torn writes and crashes.             *)
THEOREM RunsAreGranted == Spec => []RunsOnlyGranted
<1>1. GrantInv => RunsOnlyGranted
  BY DEF GrantInv
<1>2. QED
  BY InitGrant, NextGrant, TypeCorrect, <1>1, PTL DEF Spec
-----------------------------------------------------------------------------
(* One run per approval.  A spent approval still on disk is guarded: its   *)
(* lock directory exists, held by the run itself or by nobody (a crash     *)
(* left it behind).                                                        *)
OneRunInv ==
  \A p \in Plans :
    (file[p]["approved"] \in Doc /\ ~unspent[p]) =>
      lock[p] /\ \A r \in Requests : Owner(r, p) => Executing(r)

LEMMA InitOneRun == Init => OneRunInv
  BY NullAssumption DEF Init, OneRunInv

LEMMA NextOneRun ==
  ASSUME TypeOK, LockExclusive, OneRunInv, [Next]_vars
  PROVE  OneRunInv'
<1> USE DEF OneRunInv, Owner, InCritical, Executing, At, disk, job, history
<1>t. /\ pc \in [Requests -> PCs]
      /\ op \in [Requests -> Ops \cup {"none"}]
      /\ plan \in [Requests -> Plans \cup {NoPlan}]
      /\ file \in [Plans -> [Folders -> File]]
      /\ lock \in [Plans -> BOOLEAN]
      /\ unspent \in [Plans -> BOOLEAN]
      /\ left \in [Faults -> Nat]
      /\ \A r \in Requests :
           /\ pc[r] # "idle" => plan[r] \in Plans /\ op[r] \in Ops
           /\ pc[r] = "checking" => op[r] # "propose"
           /\ pc[r] \in {"running", "inTool"} => op[r] = "execute"
           /\ pc[r] = "unlinking" => op[r] # "propose"
  BY DEF TypeOK
<1>l. \A r, s \in Requests : InCritical(r) /\ InCritical(s) /\ plan[r] = plan[s] => r = s
  BY DEF LockExclusive
<1>1. ASSUME NEW r \in Requests, NEW p \in Plans, NEW c \in Cores, Propose(r, p, c)
      PROVE  OneRunInv'
  BY <1>t, <1>1 DEF Propose, Accept
<1>2. ASSUME NEW r \in Requests, NEW p \in Plans, NEW o \in Ops, Ask(r, o, p)
      PROVE  OneRunInv'
  BY <1>t, <1>2 DEF Ask, Accept
<1>3. ASSUME NEW r \in Requests, Proceed(r) PROVE OneRunInv'
  <2>1. CASE TryLock(r)
    BY <1>t, <2>1 DEF TryLock, Lock, Go
  <2>2. CASE GiveUp(r)
    BY <1>t, <2>2 DEF GiveUp, Answer
  <2>3. CASE CheckApprove(r)
    BY <1>t, <2>3 DEF CheckApprove, GoWith
  <2>4. CASE CheckReject(r)
    BY <1>t, <2>4 DEF CheckReject, GoWith
  <2>5. CASE StartRun(r)
    BY <1>t, <1>l, <2>5 DEF StartRun, GoWith, LockExclusive
  <2>6. CASE Refuse(r)
    BY <1>t, <2>6 DEF Refuse, Go
  <2>7. CASE CallTool(r)
    BY <1>t, <2>7 DEF CallTool, Go
  <2>8. CASE MissTool(r)
    BY <1>t, <2>8 DEF MissTool
  <2>9. CASE ToolReturns(r)
    BY <1>t, <2>9 DEF ToolReturns
  <2>10. CASE FinishRun(r)
    BY <1>t, <2>10 DEF FinishRun, Go
  <2>11. CASE Write(r)
    <3>1. CASE op[r] = "propose"
      BY <1>t, <2>11, <3>1 DEF Write, Go, Dst
    <3>2. CASE op[r] = "approve"
      BY <1>t, <2>11, <3>2 DEF Write, Go, Dst
    <3>3. CASE op[r] = "reject"
      BY <1>t, <2>11, <3>3 DEF Write, Go, Dst
    <3>4. CASE op[r] = "execute"
      BY <1>t, <2>11, <3>4 DEF Write, Go, Dst
    <3>5. op[r] \in Ops
      BY <1>t, <2>11 DEF Write
    <3>6. QED
      <4> HIDE DEF OneRunInv
      <4> QED
        BY <3>1, <3>2, <3>3, <3>4, <3>5
  <2>12. CASE Unlink(r)
    <3>1. CASE op[r] = "execute"
      BY <1>t, <1>l, <2>12, <3>1, NullAssumption DEF Unlink, Go, Src
    <3>2. CASE op[r] # "execute"
      BY <1>t, <2>12, <3>2 DEF Unlink, Go, Src
    <3>3. QED
      BY <3>1, <3>2
  <2>13. CASE Release(r)
    BY <1>t, <2>13 DEF Release, Answer
  <2>14. QED
    BY <1>3, <2>1, <2>2, <2>3, <2>4, <2>5, <2>6, <2>7, <2>8, <2>9, <2>10, <2>11,
       <2>12, <2>13 DEF Proceed
<1>4. ASSUME NEW r \in Requests, Fail(r) PROVE OneRunInv'
  <2>1. CASE ToolRaises(r)
    BY <1>t, <2>1 DEF ToolRaises, StepFails, Go
  <2>2. CASE WriteFails(r)
    BY <1>t, <2>2, Folding, NullAssumption DEF WriteFails, WriteBreaks, StepFails, Go
  <2>3. CASE UnlinkFails(r)
    BY <1>t, <2>3 DEF UnlinkFails, StepFails, Go
  <2>4. CASE ReleaseFails(r)
    BY <1>t, <2>4 DEF ReleaseFails, Answer
  <2>5. QED
    BY <1>4, <2>1, <2>2, <2>3, <2>4 DEF Fail
<1>5. CASE Crash
  <2>1. \A p \in Plans : file'[p]["approved"] \in {Torn, file[p]["approved"]}
    BY <1>t, <1>5 DEF Crash
  <2>2. /\ \A r \in Requests : pc'[r] = "idle"
        /\ UNCHANGED <<lock, unspent>>
    BY <1>5 DEF Crash
  <2>3. QED
    BY <2>1, <2>2, NullAssumption
<1>6. ASSUME NEW p \in Plans, NEW f \in {"pending", "approved"}, NEW c \in Cores, Edit(p, f, c)
      PROVE  OneRunInv'
  BY <1>t, <1>6 DEF Edit, Spend
<1>7. ASSUME NEW t \in Tools, InstallTool(t) \/ WithdrawTool(t)
      PROVE  OneRunInv'
  BY <1>7 DEF InstallTool, WithdrawTool
<1>8. CASE UNCHANGED vars
  BY <1>8 DEF vars
<1>9. QED
  BY <1>1, <1>2, <1>3, <1>4, <1>5, <1>6, <1>7, <1>8 DEF Next, Arrive, Environment

LEMMA OnlyStartBegins ==
  ASSUME TypeOK, [Next]_vars, NEW r \in Requests, RunBegins(r)
  PROVE  StartRun(r)
<1> USE DEF RunBegins, At
<1>t. pc \in [Requests -> PCs]
  BY DEF TypeOK
<1>1. ~ UNCHANGED pc
  OBVIOUS
<1>2. ASSUME NEW s \in Requests, Arrive(s) PROVE FALSE
  BY <1>t, <1>2 DEF Arrive, Propose, Ask, Accept
<1>3. ASSUME NEW s \in Requests, Fail(s) PROVE FALSE
  BY <1>t, <1>3 DEF Fail, ToolRaises, WriteFails, WriteBreaks, UnlinkFails, ReleaseFails, Go, Answer
<1>4. ASSUME NEW s \in Requests, Proceed(s) PROVE StartRun(r)
  <2>1. CASE StartRun(s)
    BY <1>t, <2>1 DEF StartRun, GoWith
  <2>2. CASE ~StartRun(s)
    BY <1>t, <1>1, <1>4, <2>2 DEF Proceed, TryLock, Lock, GiveUp, CheckApprove, CheckReject, Refuse,
       CallTool, MissTool, ToolReturns, FinishRun, Write, Unlink, Release, Go, GoWith, Answer
  <2>3. QED
    BY <2>1, <2>2
<1>5. CASE Environment
  BY <1>t, <1>1, <1>5 DEF Environment, Crash, Edit, InstallTool, WithdrawTool
<1>6. QED
  BY <1>1, <1>2, <1>3, <1>4, <1>5 DEF Next, vars

(* Between two runs of a plan lies an approve, or a failure of the first   *)
(* run's own request; a crash opens no way to a second run.                *)
THEOREM ApprovalIsForOneRun == Spec => OneRunPerApproval
<1>1. TypeOK /\ OneRunInv /\ [Next]_vars =>
        [\A r \in Requests : RunBegins(r) => unspent[plan[r]]]_vars
  <2> SUFFICES ASSUME TypeOK, OneRunInv, [Next]_vars, NEW r \in Requests, RunBegins(r)
               PROVE  unspent[plan[r]]
    BY Zenon
  <2>1. StartRun(r)
    BY OnlyStartBegins
  <2>2. QED
    BY <2>1 DEF StartRun, ExecuteAdmits, OneRunInv, Owner, InCritical, Executing, At, TypeOK
<1>2. QED
  BY InitOneRun, NextOneRun, TypeCorrect, Exclusive, <1>1, PTL DEF Spec, OneRunPerApproval
-----------------------------------------------------------------------------
(* The moves between folders, where nobody edits the stored files by hand: *)
(* a run's approved file is stable, an executed record is what ran, and a  *)
(* plan stops being readable only in an overwrite that is cut short.       *)

NoEdits == Budget["edit"] = 0

(* The strengthening of ApprovedStableWhileRunning: what a handler has in  *)
(* memory is what its source file holds, until the source is unlinked; and *)
(* once it is about to unlink, the destination holds it too.               *)
SourceInHand ==
  \A r \in Requests : op[r] \in {"approve", "reject"} /\ pc[r] \in {"writing", "unlinking"} =>
    /\ file[plan[r]]["pending"] \in Doc
    /\ file[plan[r]]["pending"].core = hand[r].core
CopyWritten ==
  \A r \in Requests : At(r, "unlinking") =>
    /\ file[plan[r]][Dst(op[r])] \in Doc
    /\ file[plan[r]][Dst(op[r])].core = hand[r].core
AllStepsDone ==
  \A r \in Requests : op[r] = "execute" /\ pc[r] \in {"writing", "unlinking"} => ~ToolsLeft(r)
MoveInv ==
  /\ left["edit"] = 0
  /\ SourceInHand
  /\ CopyWritten
  /\ AllStepsDone
  /\ ApprovedStableWhileRunning

LEMMA InitMove == ASSUME NoEdits, Init PROVE MoveInv
  BY DEF NoEdits, Init, MoveInv, SourceInHand, CopyWritten, AllStepsDone,
     ApprovedStableWhileRunning, Executing, At

LEMMA NextMove ==
  ASSUME TypeOK, LockExclusive, MoveInv, [Next]_vars
  PROVE  MoveInv'
<1> USE DEF MoveInv, SourceInHand, CopyWritten, AllStepsDone, ToolsLeft,
            ApprovedStableWhileRunning, Executing, At, disk, job, history
<1>t. /\ pc \in [Requests -> PCs]
      /\ op \in [Requests -> Ops \cup {"none"}]
      /\ plan \in [Requests -> Plans \cup {NoPlan}]
      /\ hand \in [Requests -> Doc \cup {Absent}]
      /\ step \in [Requests -> Nat]
      /\ file \in [Plans -> [Folders -> File]]
      /\ left \in [Faults -> Nat]
      /\ \A r \in Requests :
           /\ pc[r] # "idle" => plan[r] \in Plans /\ op[r] \in Ops
           /\ pc[r] = "checking" => op[r] # "propose"
           /\ pc[r] \in {"running", "inTool", "writing", "unlinking"} => hand[r] \in Doc
           /\ pc[r] \in {"running", "inTool"} => op[r] = "execute"
           /\ pc[r] = "unlinking" => op[r] # "propose"
  BY DEF TypeOK, InCritical
<1>l. \A r, s \in Requests : InCritical(r) /\ InCritical(s) /\ plan[r] = plan[s] => r = s
  BY DEF LockExclusive, Owner
<1>1. ASSUME NEW r \in Requests, NEW p \in Plans, NEW c \in Cores, Propose(r, p, c)
      PROVE  MoveInv'
  BY <1>t, <1>1 DEF Propose, Accept
<1>2. ASSUME NEW r \in Requests, NEW p \in Plans, NEW o \in Ops, Ask(r, o, p)
      PROVE  MoveInv'
  BY <1>t, <1>2 DEF Ask, Accept
<1>3. ASSUME NEW r \in Requests, Proceed(r) PROVE MoveInv'
  <2>1. CASE TryLock(r)
    BY <1>t, <2>1 DEF TryLock, Lock, Go
  <2>2. CASE GiveUp(r)
    BY <1>t, <2>2 DEF GiveUp, Answer
  <2>3. CASE CheckApprove(r)
    BY <1>t, <2>3 DEF CheckApprove, ApproveAdmits, GoWith
  <2>4. CASE CheckReject(r)
    BY <1>t, <2>4 DEF CheckReject, RejectAdmits, GoWith
  <2>5. CASE StartRun(r)
    BY <1>t, <2>5 DEF StartRun, GoWith
  <2>6. CASE Refuse(r)
    BY <1>t, <2>6 DEF Refuse, Go
  <2>7. CASE CallTool(r)
    BY <1>t, <2>7 DEF CallTool, Go
  <2>8. CASE MissTool(r)
    BY <1>t, <2>8 DEF MissTool
  <2>9. CASE ToolReturns(r)
    BY <1>t, <2>9 DEF ToolReturns
  <2>10. CASE FinishRun(r)
    BY <1>t, <2>10 DEF FinishRun, Go
  <2>11. CASE Write(r)
    <3>0. \A s \in Requests \ {r} : InCritical(s) => file'[plan[s]] = file[plan[s]]
      BY <1>t, <1>l, <2>11 DEF Write, InCritical
    <3>1. CASE op[r] = "propose"
      <4>1. /\ \A s \in Requests \ {r} : pc'[s] = pc[s]
            /\ pc'[r] = "releasing"
            /\ left' = left
            /\ op' = op /\ plan' = plan /\ hand' = hand /\ step' = step
        BY <1>t, <2>11, <3>1 DEF Write, Go
      <4>2. SourceInHand' /\ CopyWritten'
        BY <3>0, <4>1 DEF InCritical
      <4>3. AllStepsDone' /\ ApprovedStableWhileRunning'
        BY <3>0, <4>1 DEF InCritical
      <4>4. QED
        BY <4>1, <4>2, <4>3
    <3>2. CASE op[r] = "approve"
      BY <1>t, <3>0, <2>11, <3>2 DEF Write, Go, Payload, Dst, InCritical
    <3>3. CASE op[r] = "reject"
      BY <1>t, <3>0, <2>11, <3>3 DEF Write, Go, Payload, Dst, InCritical
    <3>4. CASE op[r] = "execute"
      BY <1>t, <3>0, <2>11, <3>4 DEF Write, Go, Payload, Dst, InCritical
    <3>5. op[r] \in Ops
      BY <1>t, <2>11 DEF Write
    <3>6. QED
      <4> HIDE DEF MoveInv
      <4> QED
        BY <3>1, <3>2, <3>3, <3>4, <3>5
  <2>12. CASE Unlink(r)
    <3>0. \A s \in Requests \ {r} : InCritical(s) => file'[plan[s]] = file[plan[s]]
      BY <1>t, <1>l, <2>12 DEF Unlink, InCritical
    <3>1. /\ \A s \in Requests \ {r} : pc'[s] = pc[s]
          /\ pc'[r] = "releasing"
          /\ left'["edit"] = left["edit"]
          /\ op' = op /\ plan' = plan /\ hand' = hand /\ step' = step
      BY <1>t, <2>12 DEF Unlink, Go
    <3>2. SourceInHand'
      BY <3>0, <3>1 DEF InCritical
    <3>3. CopyWritten'
      BY <3>0, <3>1 DEF InCritical
    <3>4. AllStepsDone'
      BY <1>t, <3>1
    <3>5. ApprovedStableWhileRunning'
      BY <3>0, <3>1 DEF InCritical
    <3>6. QED
      BY <3>1, <3>2, <3>3, <3>4, <3>5
  <2>13. CASE Release(r)
    BY <1>t, <2>13 DEF Release, Answer
  <2>14. QED
    BY <1>3, <2>1, <2>2, <2>3, <2>4, <2>5, <2>6, <2>7, <2>8, <2>9, <2>10, <2>11,
       <2>12, <2>13 DEF Proceed
<1>4. ASSUME NEW r \in Requests, Fail(r) PROVE MoveInv'
  <2>1. CASE ToolRaises(r)
    BY <1>t, <2>1 DEF ToolRaises, StepFails, Go, Spend
  <2>2. CASE WriteFails(r)
    <3>0. \A s \in Requests \ {r} : InCritical(s) => file'[plan[s]] = file[plan[s]]
      BY <1>t, <1>l, <2>2 DEF WriteFails, WriteBreaks, InCritical
    <3>1. /\ \A s \in Requests \ {r} : pc'[s] = pc[s]
          /\ pc'[r] = "releasing"
          /\ left'["edit"] = left["edit"]
          /\ op' = op /\ plan' = plan /\ hand' = hand /\ step' = step
      BY <1>t, <2>2 DEF WriteFails, WriteBreaks, StepFails, Go, Spend
    <3>2. SourceInHand'
      BY <3>0, <3>1 DEF InCritical
    <3>3. CopyWritten'
      BY <3>0, <3>1 DEF InCritical
    <3>4. AllStepsDone'
      BY <1>t, <3>1
    <3>5. ApprovedStableWhileRunning'
      BY <3>0, <3>1 DEF InCritical
    <3>6. QED
      BY <3>1, <3>2, <3>3, <3>4, <3>5
  <2>3. CASE UnlinkFails(r)
    BY <1>t, <2>3 DEF UnlinkFails, StepFails, Go, Spend
  <2>4. CASE ReleaseFails(r)
    BY <1>t, <2>4 DEF ReleaseFails, Answer, Spend
  <2>5. QED
    BY <1>4, <2>1, <2>2, <2>3, <2>4 DEF Fail
<1>5. CASE Crash
  BY <1>t, <1>5 DEF Crash, Spend
<1>6. ASSUME NEW p \in Plans, NEW f \in {"pending", "approved"}, NEW c \in Cores, Edit(p, f, c)
      PROVE  FALSE
  BY <1>6 DEF Edit, Spend
<1>7. ASSUME NEW t \in Tools, InstallTool(t) \/ WithdrawTool(t)
      PROVE  MoveInv'
  BY <1>7 DEF InstallTool, WithdrawTool
<1>8. CASE UNCHANGED vars
  BY <1>8 DEF vars
<1>9. QED
  BY <1>1, <1>2, <1>3, <1>4, <1>5, <1>6, <1>7, <1>8 DEF Next, Arrive, Environment

(* The approved file of a running plan is what the gates checked.          *)
THEOREM RunIsStable == ASSUME NoEdits PROVE Spec => []ApprovedStableWhileRunning
<1>1. MoveInv => ApprovedStableWhileRunning
  BY DEF MoveInv
<1>2. QED
  BY InitMove, NextMove, TypeCorrect, Exclusive, <1>1, PTL DEF Spec
LEMMA OnlyUnlinkRemoves ==
  ASSUME TypeOK, MoveInv, [Next]_vars, NEW p \in Plans, NEW f \in {"pending", "approved"},
         file[p][f] \in Doc, file'[p][f] = Absent
  PROVE  \E r \in Requests : Unlink(r) /\ plan[r] = p /\ Src(op[r]) = f
<1>t. file \in [Plans -> [Folders -> File]]
  BY DEF TypeOK
<1>1. file' # file
  BY NullAssumption
<1>2. ASSUME NEW s \in Requests, Proceed(s), ~Unlink(s) PROVE FALSE
  <2>1. Write(s)
    BY <1>1, <1>2 DEF Proceed, TryLock, Lock, GiveUp, CheckApprove, CheckReject, StartRun, Refuse,
       CallTool, MissTool, ToolReturns, FinishRun, Release, disk
  <2>2. hand[s] \in Doc /\ plan[s] \in Plans /\ op[s] \in Ops
    BY <2>1 DEF Write, TypeOK, InCritical, At
  <2>3. CASE op[s] = "execute"
    <3>1. Payload(s) = hand[s]
      BY <2>1, <2>3 DEF Write, At, Payload, MoveInv, ApprovedStableWhileRunning, Executing
    <3>2. QED
      BY <1>t, <2>1, <2>2, <3>1, NullAssumption DEF Write
  <2>4. CASE op[s] # "execute"
    <3>1. Payload(s) \in Doc
      BY <2>2, <2>4 DEF Payload, Digest, Doc
    <3>2. QED
      BY <1>t, <2>1, <2>2, <3>1, NullAssumption DEF Write
  <2>5. QED
    BY <2>3, <2>4
<1>3. ASSUME NEW s \in Requests, Unlink(s) PROVE plan[s] = p /\ Src(op[s]) = f
  BY <1>t, <1>3, NullAssumption DEF Unlink
<1>4. ASSUME NEW s \in Requests, Fail(s) PROVE FALSE
  BY <1>t, <1>1, <1>4, NullAssumption
  DEF Fail, ToolRaises, WriteFails, WriteBreaks, UnlinkFails, ReleaseFails, disk
<1>5. ASSUME NEW s \in Requests, Arrive(s) PROVE FALSE
  BY <1>1, <1>5 DEF Arrive, Propose, Ask, disk
<1>6. CASE Crash
  BY <1>t, <1>6, NullAssumption DEF Crash
<1>7. CASE Environment /\ ~Crash
  BY <1>t, <1>1, <1>7, NullAssumption DEF Environment, Edit, InstallTool, WithdrawTool, disk, Doc
<1>8. QED
  BY <1>1, <1>2, <1>3, <1>4, <1>5, <1>6, <1>7 DEF Next, vars

LEMMA OnlyWritesTear ==
  ASSUME TypeOK, MoveInv, [Next]_vars, NEW p \in Plans, NEW f \in {"pending", "approved"},
         file[p][f] \in Doc, file'[p][f] = Torn
  PROVE  \E r \in Requests :
           /\ At(r, "writing") /\ plan[r] = p /\ Dst(op[r]) = f
           /\ WriteFails(r) \/ Crash
<1>t. file \in [Plans -> [Folders -> File]]
  BY DEF TypeOK
<1>1. file' # file
  BY NullAssumption
<1>2. ASSUME NEW s \in Requests, Proceed(s) PROVE FALSE
  <2>1. Write(s) \/ Unlink(s)
    BY <1>1, <1>2 DEF Proceed, TryLock, Lock, GiveUp, CheckApprove, CheckReject, StartRun, Refuse,
       CallTool, MissTool, ToolReturns, FinishRun, Release, disk
  <2>2. Write(s)
    BY <1>t, <2>1, NullAssumption DEF Unlink
  <2>3. hand[s] \in Doc /\ plan[s] \in Plans /\ op[s] \in Ops
    BY <2>2 DEF Write, TypeOK, InCritical, At
  <2>4. Payload(s) \in Doc
    BY <2>2, <2>3 DEF Write, At, Payload, MoveInv, ApprovedStableWhileRunning, Executing, Digest, Doc
  <2>5. QED
    BY <1>t, <2>2, <2>3, <2>4, NullAssumption DEF Write
<1>3. ASSUME NEW s \in Requests, Fail(s)
      PROVE  WriteFails(s) /\ At(s, "writing") /\ plan[s] = p /\ Dst(op[s]) = f
  BY <1>t, <1>1, <1>3, NullAssumption
  DEF Fail, ToolRaises, WriteFails, WriteBreaks, UnlinkFails, ReleaseFails, disk
<1>4. ASSUME NEW s \in Requests, Arrive(s) PROVE FALSE
  BY <1>1, <1>4 DEF Arrive, Propose, Ask, disk
<1>5. CASE Crash
  <2>1. PICK s \in Requests : At(s, "writing") /\ plan[s] = p /\ Dst(op[s]) = f
    BY <1>t, <1>5, NullAssumption DEF Crash
  <2>2. QED
    BY <1>5, <2>1
<1>6. CASE Environment /\ ~Crash
  BY <1>t, <1>1, <1>6, NullAssumption DEF Environment, Edit, InstallTool, WithdrawTool, disk, Doc
<1>7. QED
  BY <1>1, <1>2, <1>3, <1>4, <1>5, <1>6 DEF Next, vars

(* A pending or approved plan stops being readable only when its content   *)
(* is whole where it moves to, or when the request with its lock is cut    *)
(* short overwriting it; a cut approve leaves the pending plan.            *)
THEOREM LostInAnOverwriteOnly == ASSUME NoEdits PROVE Spec => LostOnlyByOverwrite
<1>1. ASSUME TypeOK, MoveInv, [Next]_vars, NEW p \in Plans, NEW f \in {"pending", "approved"},
             file[p][f] \in Doc, file'[p][f] = Absent
      PROVE  \E g \in Folders \ {f, "pending"} :
               file'[p][g] \in Doc /\ file'[p][g].core = file[p][f].core
  <2>1. PICK r \in Requests : Unlink(r) /\ plan[r] = p /\ Src(op[r]) = f
    BY <1>1, OnlyUnlinkRemoves
  <2>2. /\ At(r, "unlinking")
        /\ file[p][Dst(op[r])] \in Doc
        /\ file[p][Dst(op[r])].core = hand[r].core
        /\ op[r] \in {"approve", "reject", "execute"}
    BY <1>1, <2>1 DEF Unlink, MoveInv, CopyWritten, TypeOK, InCritical, At
  <2>3. file[p][f].core = hand[r].core
    BY <1>1, <2>1, <2>2 DEF MoveInv, SourceInHand, ApprovedStableWhileRunning, Executing, Src, At
  <2>4. Dst(op[r]) \in Folders \ {f, "pending"}
    BY <2>1, <2>2 DEF Src, Dst
  <2>5. file'[p][Dst(op[r])] = file[p][Dst(op[r])]
    BY <1>1, <2>1, <2>4 DEF Unlink, TypeOK
  <2>6. QED
    BY <2>2, <2>3, <2>4, <2>5
<1>2. ASSUME TypeOK, LockExclusive, MoveInv, [Next]_vars, NEW p \in Plans,
             NEW f \in {"pending", "approved"}, file[p][f] \in Doc, file'[p][f] = Torn
      PROVE  \E r \in Requests :
               /\ At(r, "writing") /\ plan[r] = p /\ Dst(op[r]) = f
               /\ op[r] = "approve" =>
                    file'[p]["pending"] \in Doc /\ file'[p]["pending"].core = hand[r].core
  <2>1. PICK r \in Requests : /\ At(r, "writing") /\ plan[r] = p /\ Dst(op[r]) = f
                              /\ WriteFails(r) \/ Crash
    BY <1>2, OnlyWritesTear
  <2>2. \A s \in Requests : At(s, "writing") /\ plan[s] = p => s = r
    BY <1>2, <2>1 DEF LockExclusive, Owner, InCritical, At
  <2>3. ASSUME op[r] = "approve"
        PROVE  file'[p]["pending"] \in Doc /\ file'[p]["pending"].core = hand[r].core
    <3>1. file[p]["pending"] \in Doc /\ file[p]["pending"].core = hand[r].core
      BY <1>2, <2>1, <2>3 DEF MoveInv, SourceInHand, At
    <3>2. f = "approved"
      BY <2>1, <2>3 DEF Dst
    <3>3. file'[p]["pending"] = file[p]["pending"]
      <4>1. CASE WriteFails(r)
        BY <2>1, <2>3, <3>2, <4>1 DEF WriteFails, WriteBreaks, TypeOK
      <4>2. CASE Crash
        BY <2>1, <2>2, <3>2, <4>2 DEF Crash
      <4>3. QED
        BY <2>1, <4>1, <4>2
    <3>4. QED
      BY <3>1, <3>3
  <2>4. QED
    BY <2>1, <2>3
<1>3. TypeOK /\ TypeOK' /\ LockExclusive /\ MoveInv /\ [Next]_vars =>
        [\A p \in Plans : \A f \in {"pending", "approved"} :
           file[p][f] \in Doc /\ file'[p][f] \notin Doc =>
             \/ /\ file'[p][f] = Absent
                /\ \E g \in Folders \ {f, "pending"} :
                     file'[p][g] \in Doc /\ file'[p][g].core = file[p][f].core
             \/ /\ file'[p][f] = Torn
                /\ \E r \in Requests :
                     /\ At(r, "writing") /\ plan[r] = p /\ Dst(op[r]) = f
                     /\ op[r] = "approve" =>
                          file'[p]["pending"] \in Doc /\ file'[p]["pending"].core = hand[r].core]_vars
  <2> SUFFICES ASSUME TypeOK, TypeOK', LockExclusive, MoveInv, [Next]_vars,
                      NEW p \in Plans, NEW f \in {"pending", "approved"},
                      file[p][f] \in Doc, file'[p][f] \notin Doc
               PROVE  \/ /\ file'[p][f] = Absent
                         /\ \E g \in Folders \ {f, "pending"} :
                              file'[p][g] \in Doc /\ file'[p][g].core = file[p][f].core
                      \/ /\ file'[p][f] = Torn
                         /\ \E r \in Requests :
                              /\ At(r, "writing") /\ plan[r] = p /\ Dst(op[r]) = f
                              /\ op[r] = "approve" =>
                                   /\ file'[p]["pending"] \in Doc
                                   /\ file'[p]["pending"].core = hand[r].core
    BY Zenon
  <2>1. file'[p][f] \in {Absent, Torn}
    BY DEF TypeOK, File
  <2>2. QED
    BY <1>1, <1>2, <2>1
<1>4. QED
  BY InitMove, NextMove, TypeCorrect, Exclusive, <1>3, PTL DEF Spec, LostOnlyByOverwrite
LEMMA OnlyExecuteRecords ==
  ASSUME TypeOK, MoveInv, [Next]_vars, NEW p \in Plans,
         file'[p]["executed"] # file[p]["executed"], file'[p]["executed"] \in Doc
  PROVE  \E r \in Requests : Write(r) /\ plan[r] = p /\ op[r] = "execute"
<1>t. file \in [Plans -> [Folders -> File]]
  BY DEF TypeOK
<1>1. file' # file
  OBVIOUS
<1>2. ASSUME NEW s \in Requests, Proceed(s)
      PROVE  Write(s) /\ plan[s] = p /\ op[s] = "execute"
  <2>1. Write(s) \/ Unlink(s)
    BY <1>1, <1>2 DEF Proceed, TryLock, Lock, GiveUp, CheckApprove, CheckReject, StartRun, Refuse,
       CallTool, MissTool, ToolReturns, FinishRun, Release, disk
  <2>2. ~Unlink(s)
    BY <1>t DEF Unlink, Src
  <2>3. plan[s] = p /\ Dst(op[s]) = "executed"
    BY <1>t, <2>1, <2>2 DEF Write
  <2>4. op[s] \in Ops
    BY <2>1, <2>2 DEF Write, TypeOK, InCritical, At
  <2>5. op[s] = "execute"
    BY <2>3, <2>4 DEF Dst
  <2>6. QED
    BY <2>1, <2>2, <2>3, <2>5
<1>3. ASSUME NEW s \in Requests, Fail(s) PROVE FALSE
  BY <1>t, <1>1, <1>3, NullAssumption
  DEF Fail, ToolRaises, WriteFails, WriteBreaks, UnlinkFails, ReleaseFails, disk
<1>4. ASSUME NEW s \in Requests, Arrive(s) PROVE FALSE
  BY <1>1, <1>4 DEF Arrive, Propose, Ask, disk
<1>5. CASE Crash
  BY <1>t, <1>5, NullAssumption DEF Crash
<1>6. CASE Environment /\ ~Crash
  BY <1>t, <1>1, <1>6 DEF Environment, Edit, InstallTool, WithdrawTool, disk
<1>7. QED
  BY <1>1, <1>2, <1>3, <1>4, <1>5, <1>6 DEF Next, vars

(* An executed record is written by the run whose content it shows.        *)
THEOREM RecordIsWhatRan == ASSUME NoEdits PROVE Spec => ExecutedRecordIsWhatRan
<1>1. ASSUME TypeOK, MoveInv, [Next]_vars, NEW p \in Plans,
             file'[p]["executed"] # file[p]["executed"], file'[p]["executed"] \in Doc
      PROVE  \E r \in Requests : /\ Executing(r) /\ plan[r] = p /\ ~ToolsLeft(r)
                                 /\ file'[p]["executed"].core = hand[r].core
  <2>1. PICK r \in Requests : Write(r) /\ plan[r] = p /\ op[r] = "execute"
    BY <1>1, OnlyExecuteRecords
  <2>2. Executing(r) /\ ~ToolsLeft(r) /\ file[p]["approved"] = hand[r]
    BY <1>1, <2>1 DEF Write, Executing, At, MoveInv, AllStepsDone, ApprovedStableWhileRunning
  <2>3. file'[p]["executed"] = file[p]["approved"]
    BY <1>1, <2>1 DEF Write, Payload, Dst, TypeOK
  <2>4. QED
    BY <2>1, <2>2, <2>3
<1>2. TypeOK /\ MoveInv /\ [Next]_vars =>
        [\A p \in Plans :
           (file'[p]["executed"] # file[p]["executed"] /\ file'[p]["executed"] \in Doc) =>
             \E r \in Requests : /\ Executing(r) /\ plan[r] = p /\ ~ToolsLeft(r)
                                 /\ file'[p]["executed"].core = hand[r].core]_vars
  BY <1>1
<1>3. QED
  BY InitMove, NextMove, TypeCorrect, Exclusive, <1>2, PTL DEF Spec, ExecutedRecordIsWhatRan
-----------------------------------------------------------------------------
(* PlanAuthority.  Every step of the files, locks and requests grants,     *)
(* loses, starts, finishes or aborts at each plan, or leaves it as it is.  *)

LEMMA RunnerIs ==
  ASSUME LockExclusive, NEW r \in Requests, NEW p \in Plans, Executing(r), plan[r] = p
  PROVE  ActiveOf(p) = hand[r].core /\ GrantOf(p) = NoHash
<1>1. \A s \in Requests : Executing(s) /\ plan[s] = p => s = r
  BY DEF LockExclusive, Owner, InCritical, Executing
<1>2. Runner(p) = r
  BY <1>1 DEF Runner
<1>3. QED
  BY <1>2 DEF ActiveOf, GrantOf, Runs

LEMMA RunnerIsNext ==
  ASSUME LockExclusive', NEW r \in Requests, NEW p \in Plans, Executing(r)', plan'[r] = p
  PROVE  ActiveOf(p)' = hand'[r].core /\ GrantOf(p)' = NoHash
<1>1. \A s \in Requests : Executing(s)' /\ plan'[s] = p => s = r
  BY DEF LockExclusive, Owner, InCritical, Executing
<1>2. Runner(p)' = r
  BY <1>1 DEF Runner
<1>3. QED
  BY <1>2 DEF ActiveOf, GrantOf, Runs

(* A step that changes neither who runs p, nor p's approved file, rests.   *)
LEMMA Resting ==
  ASSUME LockExclusive, LockExclusive', NEW p \in Plans,
         file'[p]["approved"] = file[p]["approved"],
         \A r \in Requests : (Executing(r) /\ plan[r] = p) <=> (Executing(r)' /\ plan'[r] = p),
         \A r \in Requests : Executing(r) => hand'[r] = hand[r]
  PROVE  ActiveOf(p)' = ActiveOf(p) /\ GrantOf(p)' = GrantOf(p)
<1>1. CASE Runs(p)
  <2>1. PICK r \in Requests : Executing(r) /\ plan[r] = p
    BY <1>1 DEF Runs
  <2>2. ActiveOf(p) = hand[r].core /\ GrantOf(p) = NoHash
    BY <2>1, RunnerIs
  <2>3. ActiveOf(p)' = hand'[r].core /\ GrantOf(p)' = NoHash
    BY <2>1, RunnerIsNext
  <2>4. QED
    BY <2>1, <2>2, <2>3
<1>2. CASE ~Runs(p)
  BY <1>2 DEF Runs, ActiveOf, GrantOf
<1>3. QED
  BY <1>1, <1>2

PlanStep(p) ==
  \/ ActiveOf(p) = NoHash /\ ActiveOf(p)' = NoHash /\ GrantOf(p)' \in Cores \cup {NoHash}
  \/ /\ ActiveOf(p) = NoHash /\ GrantOf(p) # NoHash
     /\ ActiveOf(p)' = GrantOf(p) /\ GrantOf(p)' = NoHash
  \/ /\ ActiveOf(p) # NoHash /\ ActiveOf(p)' = NoHash
     /\ GrantOf(p)' \in {NoHash, ActiveOf(p)}
  \/ ActiveOf(p)' = ActiveOf(p) /\ GrantOf(p)' = GrantOf(p)

(* The steps of one plan, by what happens to its run.                      *)
LEMMA Unrun ==
  ASSUME TypeOK', NEW p \in Plans, ~Runs(p), ~Runs(p)'
  PROVE  PlanStep(p)
<1>1. GrantOf(p)' \in Cores \cup {NoHash}
  BY DEF GrantOf, TypeOK, Doc
<1>2. QED
  BY <1>1 DEF PlanStep, ActiveOf

LEMMA Started ==
  ASSUME LockExclusive', TypeOK, NEW r \in Requests, StartRun(r), LockExclusive
  PROVE  PlanStep(plan[r])
<1> DEFINE p == plan[r]
<1>1. p \in Plans /\ pc[r] = "checking" /\ op[r] = "execute"
  BY DEF StartRun, At, TypeOK
<1>2. ~Runs(p)
  BY <1>1 DEF Runs, LockExclusive, Owner, InCritical, Executing
<1>3. file[p]["approved"] \in Doc
  BY DEF StartRun, ExecuteAdmits
<1>4. GrantOf(p) = file[p]["approved"].core /\ ActiveOf(p) = NoHash
  BY <1>2, <1>3 DEF GrantOf, ActiveOf
<1>5. /\ Executing(r)' /\ plan'[r] = p
      /\ hand'[r] = file[p]["approved"]
  BY <1>1 DEF StartRun, GoWith, TypeOK, Executing
<1>6. ActiveOf(p)' = file[p]["approved"].core /\ GrantOf(p)' = NoHash
  BY <1>1, <1>5, RunnerIsNext
<1>7. file[p]["approved"].core # NoHash
  BY <1>3, NullAssumption DEF Doc
<1>8. QED
  BY <1>4, <1>6, <1>7 DEF PlanStep

(* A run that ends: its approved file is gone, or it is as it was.         *)
LEMMA Ended ==
  ASSUME TypeOK, LockExclusive, MoveInv, NEW r \in Requests, NEW p \in Plans,
         Executing(r), plan[r] = p, ~Runs(p)',
         file'[p]["approved"] \in {file[p]["approved"], Absent}
  PROVE  PlanStep(p)
<1>1. ActiveOf(p) = hand[r].core
  BY RunnerIs
<1>2. file[p]["approved"] = hand[r] /\ hand[r] \in Doc
  BY DEF MoveInv, ApprovedStableWhileRunning, TypeOK, Executing, InCritical, At
<1>3. ActiveOf(p)' = NoHash
  BY DEF ActiveOf
<1>4. GrantOf(p)' \in {NoHash, hand[r].core}
  BY <1>2, NullAssumption DEF GrantOf
<1>5. hand[r].core # NoHash
  BY <1>2, NullAssumption DEF Doc
<1>6. QED
  BY <1>1, <1>3, <1>4, <1>5 DEF PlanStep
LEMMA EveryStep ==
  ASSUME TypeOK, TypeOK', LockExclusive, LockExclusive', MoveInv, [Next]_vars, NEW p \in Plans
  PROVE  PlanStep(p)
<1> USE DEF disk, job
<1>t. /\ pc \in [Requests -> PCs]
      /\ op \in [Requests -> Ops \cup {"none"}]
      /\ plan \in [Requests -> Plans \cup {NoPlan}]
      /\ hand \in [Requests -> Doc \cup {Absent}]
      /\ file \in [Plans -> [Folders -> File]]
      /\ \A r \in Requests :
           /\ pc[r] # "idle" => plan[r] \in Plans /\ op[r] \in Ops
           /\ pc[r] \in {"running", "inTool"} => op[r] = "execute"
           /\ pc[r] = "unlinking" => op[r] # "propose"
  BY DEF TypeOK, InCritical, At
(* Steps of one request that leave the runs and the approved files alone.  *)
<1>r. ASSUME NEW r \in Requests, \A s \in Requests \ {r} : pc'[s] = pc[s] /\ op'[s] = op[s]
                                    /\ plan'[s] = plan[s] /\ hand'[s] = hand[s],
             Executing(r) => Executing(r)' /\ plan'[r] = plan[r] /\ hand'[r] = hand[r],
             ~Executing(r) => ~Executing(r)',
             file'[p]["approved"] = file[p]["approved"]
      PROVE  PlanStep(p)
  <2>1. \A s \in Requests : (Executing(s) /\ plan[s] = p) <=> (Executing(s)' /\ plan'[s] = p)
    BY <1>r DEF Executing
  <2>2. \A s \in Requests : Executing(s) => hand'[s] = hand[s]
    BY <1>r
  <2>3. QED
    BY <1>r, <2>1, <2>2, Resting DEF PlanStep
(* Steps that end the run of r, or lose or grant, at the plan of r.        *)
<1>o. ASSUME NEW r \in Requests, InCritical(r), ~Executing(r)',
             \A s \in Requests \ {r} : pc'[s] = pc[s],
             op' = op, plan' = plan, hand' = hand,
             file'[p]["approved"] # file[p]["approved"] => plan[r] = p,
             Executing(r) => file'[p]["approved"] \in {file[p]["approved"], Absent}
      PROVE  PlanStep(p)
  <2>1. CASE plan[r] # p
    <3>1. \A s \in Requests : (Executing(s) /\ plan[s] = p) <=> (Executing(s)' /\ plan'[s] = p)
      BY <1>o, <2>1 DEF Executing
    <3>2. QED
      BY <1>o, <2>1, <3>1, Resting DEF PlanStep
  <2>2. CASE plan[r] = p
    <3>1. \A s \in Requests \ {r} : ~(Executing(s) /\ plan[s] = p)
      BY <1>o, <2>2 DEF LockExclusive, Owner, InCritical, Executing
    <3>2. ~Runs(p)'
      BY <1>o, <3>1 DEF Runs, Executing
    <3>3. CASE Executing(r)
      BY <1>o, <2>2, <3>2, <3>3, Ended
    <3>4. CASE ~Executing(r)
      <4>1. ~Runs(p)
        BY <2>2, <3>1, <3>4 DEF Runs
      <4>2. QED
        BY <3>2, <4>1, Unrun
    <3>5. QED
      BY <3>3, <3>4
  <2>3. QED
    BY <2>1, <2>2
<1>1. ASSUME NEW r \in Requests, Arrive(r) PROVE PlanStep(p)
  BY <1>t, <1>1, <1>r DEF Arrive, Propose, Ask, Accept, Executing, At
<1>2. ASSUME NEW r \in Requests, Proceed(r) PROVE PlanStep(p)
  <2>1. CASE StartRun(r)
    <3>1. CASE plan[r] = p
      BY <2>1, <3>1, Started
    <3>2. CASE plan[r] # p
      <4>1. \A s \in Requests : (Executing(s) /\ plan[s] = p) <=> (Executing(s)' /\ plan'[s] = p)
        BY <1>t, <2>1, <3>2 DEF StartRun, GoWith, Executing
      <4>2. \A s \in Requests : Executing(s) => hand'[s] = hand[s]
        BY <1>t, <2>1 DEF StartRun, GoWith, Executing, At
      <4>3. QED
        BY <2>1, <4>1, <4>2, Resting DEF PlanStep, StartRun
    <3>3. QED
      BY <3>1, <3>2
  <2>2. CASE TryLock(r)
    BY <1>t, <2>2, <1>r DEF TryLock, Lock, Go, Executing, At
  <2>3. CASE GiveUp(r) \/ Release(r)
    BY <1>t, <2>3, <1>r DEF GiveUp, Release, Answer, Executing, At
  <2>4. CASE CheckApprove(r) \/ CheckReject(r)
    BY <1>t, <2>4, <1>r DEF CheckApprove, CheckReject, GoWith, Executing, At
  <2>5. CASE Refuse(r)
    BY <1>t, <2>5, <1>r DEF Refuse, Go, Executing, At
  <2>6. CASE CallTool(r) \/ FinishRun(r)
    BY <1>t, <2>6, <1>r DEF CallTool, FinishRun, Go, Executing, At
  <2>7. CASE MissTool(r) \/ ToolReturns(r)
    BY <1>t, <2>7, <1>r DEF MissTool, ToolReturns, Executing, At
  <2>8. CASE Write(r)
    <3>1. CASE op[r] = "execute"
      <4>1. file'[p]["approved"] = file[p]["approved"]
        BY <1>t, <2>8, <3>1 DEF Write, Dst
      <4>2. QED
        BY <1>t, <2>8, <3>1, <4>1, <1>r DEF Write, Go, Executing, At
    <3>2. CASE op[r] # "execute"
      <4>1. file'[p]["approved"] # file[p]["approved"] => plan[r] = p
        BY <1>t, <2>8 DEF Write
      <4>2. QED
        BY <1>t, <2>8, <3>2, <4>1, <1>o DEF Write, Go, Executing, At, InCritical
    <3>3. QED
      BY <3>1, <3>2
  <2>9. CASE Unlink(r)
    <3>1. /\ file'[p]["approved"] # file[p]["approved"] => plan[r] = p
          /\ file'[p]["approved"] \in {file[p]["approved"], Absent}
      BY <1>t, <2>9 DEF Unlink
    <3>2. QED
      BY <1>t, <2>9, <3>1, <1>o DEF Unlink, Go, Executing, At, InCritical
  <2>10. QED
    BY <1>2, <2>1, <2>2, <2>3, <2>4, <2>5, <2>6, <2>7, <2>8, <2>9 DEF Proceed
<1>3. ASSUME NEW r \in Requests, Fail(r) PROVE PlanStep(p)
  <2>1. CASE ToolRaises(r) \/ UnlinkFails(r)
    BY <1>t, <2>1, <1>o DEF ToolRaises, UnlinkFails, Go, Executing, At, InCritical
  <2>2. CASE WriteFails(r)
    <3>1. /\ file'[p]["approved"] # file[p]["approved"] => plan[r] = p
          /\ Executing(r) => file'[p]["approved"] = file[p]["approved"]
      BY <1>t, <2>2 DEF WriteFails, WriteBreaks, Executing, Dst
    <3>2. QED
      BY <1>t, <2>2, <3>1, <1>o DEF WriteFails, WriteBreaks, Go, Executing, At, InCritical
  <2>3. CASE ReleaseFails(r)
    BY <1>t, <2>3, <1>r DEF ReleaseFails, Answer, Executing, At
  <2>4. QED
    BY <1>3, <2>1, <2>2, <2>3 DEF Fail
<1>4. CASE Crash
  <2>1. ~Runs(p)'
    BY <1>4 DEF Crash, Runs, Executing
  <2>2. CASE ~Runs(p)
    BY <2>1, <2>2, Unrun
  <2>3. CASE Runs(p)
    <3>1. PICK r \in Requests : Executing(r) /\ plan[r] = p
      BY <2>3 DEF Runs
    <3>2. \A s \in Requests : At(s, "writing") /\ plan[s] = p => s = r
      BY <3>1 DEF LockExclusive, Owner, InCritical, Executing, At
    <3>3. Dst(op[r]) = "executed"
      BY <3>1 DEF Executing, Dst
    <3>4. file'[p]["approved"] = file[p]["approved"]
      BY <1>t, <1>4, <3>2, <3>3 DEF Crash
    <3>5. QED
      BY <2>1, <3>1, <3>4, Ended
  <2>4. QED
    BY <2>2, <2>3
<1>5. CASE Environment /\ ~Crash
  <2>1. UNCHANGED <<pc, op, plan, hand, file>>
    BY <1>5 DEF Environment, InstallTool, WithdrawTool, Edit, Spend, MoveInv
  <2>2. QED
    BY <2>1, Resting DEF PlanStep, Executing
<1>6. CASE UNCHANGED vars
  BY <1>6, Resting DEF PlanStep, Executing, vars
<1>7. QED
  BY <1>1, <1>2, <1>3, <1>4, <1>5, <1>6 DEF Next

(* The promise of PlanAuthority holds of the files, locks and requests,    *)
(* under every fault but hand edits.                                       *)
THEOREM LifecycleRefines == ASSUME NoEdits PROVE Spec => ImplementsAuthority
<1>1. Init => Authority!Init
  BY NullAssumption DEF Init, Authority!Init, GrantOf, ActiveOf, Runs, Executing
<1>2. ASSUME TypeOK, TypeOK', LockExclusive, LockExclusive', MoveInv, [Next]_vars
      PROVE  Authority!Next
  <2>1. \A p \in Plans : PlanStep(p)
    BY <1>2, EveryStep
  <2>2. QED
    BY <2>1 DEF PlanStep, Authority!Next, Authority!Grant, Authority!Lose, Authority!Start,
       Authority!Finish, Authority!Abort, Authority!Rest
<1>3. QED
  BY <1>1, <1>2, InitMove, NextMove, TypeCorrect, Exclusive, PTL
  DEF Spec, ImplementsAuthority, Authority!Spec
=============================================================================
