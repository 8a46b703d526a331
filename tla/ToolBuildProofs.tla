----------------------------- MODULE ToolBuildProofs ---------------------------
(***************************************************************************)
(* Proofs about ToolBuild, for any number of runs side by side and any     *)
(* budget of faults and kills.                                             *)
(***************************************************************************)
EXTENDS ToolBuild, SequenceTheorems, TLAPS

(* A list of files to write, once its head is written or its end left out. *)
LEMMA TailTyped ==
  ASSUME NEW S, NEW q \in Seq(S), q # <<>>
  PROVE  /\ Head(q) \in S /\ Tail(q) \in Seq(S)
         /\ Len(q) # 1 => Tail(q) # <<>>
<1>1. Head(q) \in S /\ Tail(q) \in Seq(S) /\ Len(Tail(q)) = Len(q) - 1
  BY HeadTailProperties
<1>2. Len(q) \in Nat
  BY LenProperties
<1>3. ASSUME Tail(q) = <<>> PROVE Len(q) = 1
  BY <1>1, <1>2, <1>3
<1>4. QED
  BY <1>1, <1>3

LEMMA FrontTyped ==
  ASSUME NEW S, NEW o \in Seq(S), Len(o) \in {3, 5}
  PROVE  Front(o) \in Seq(S) /\ Front(o) # <<>>
<1>1. \A i \in 1..(Len(o) - 1) : o[i] \in S
  OBVIOUS
<1>2. Len(o) - 1 \in Int /\ 1 <= Len(o) - 1 /\ Len(o) - 1 # 0
  OBVIOUS
<1>3. /\ SubSeq(o, 1, Len(o) - 1) \in Seq(S)
      /\ Len(SubSeq(o, 1, Len(o) - 1)) = Len(o) - 1
  <2> DEFINE n == Len(o) - 1
  <2> HIDE DEF n
  <2>1. SubSeq(o, 1, n) \in Seq(S) /\ Len(SubSeq(o, 1, n)) = n
    <3>1. (\A i \in 1..n : o[i] \in S) /\ n \in Int /\ 1 \in Int /\ 1 <= n
      BY <1>1, <1>2 DEF n
    <3>2. QED
      BY <3>1, SubSeqProperties
  <2>2. QED
    BY <2>1 DEF n
<1>4. QED
  BY <1>2, <1>3, EmptySeq DEF Front

LEMMA FrontOfThree ==
  ASSUME NEW S, NEW o \in Seq(S), Len(o) = 3
  PROVE  LET q == Front(o) IN Len(q) = 2 /\ ToSet(q) = {o[1], o[2]} /\ q[1] = o[1] /\ q[2] = o[2]
<1> DEFINE q == SubSeq(o, 1, 2)
<1>1. \A i \in 1..2 : o[i] \in S
  OBVIOUS
<1>2. /\ q \in Seq(S) /\ Len(q) = 2
      /\ q[1] = o[1] /\ q[2] = o[2]
  BY <1>1, SubSeqProperties
<1>3. DOMAIN q = 1..2
  BY <1>2, LenProperties
<1>4. ToSet(q) = {o[1], o[2]}
  <2> HIDE DEF q
  <2> QED
    BY <1>2, <1>3 DEF ToSet
<1>5. Front(o) = q
  BY DEF Front
<1>6. QED
  BY <1>2, <1>4, <1>5

USE DEF Files, Flags, Stages, Content

(* What is kept of a run, and that a run that knows no index is a create.  *)
Runs == [at : {"idle", "keep", "write", "erase", "reindex"}, stage : Stages,
         todo : Seq(Files \cup {"index"}), verdict : {"passed", "failed"},
         saved : (SUBSET Flags) \cup {Missing},
         backup : (SUBSET Flags) \cup {Missing, Torn}]

RunsTyped ==
  /\ run \in [Scripts -> Runs]
  /\ \A s \in Scripts :
       /\ run[s] # Idle => run[s].at # "idle" /\ run[s].todo # <<>>
       /\ run[s].stage = "create" <=> run[s].saved = Missing
       /\ run[s].verdict \in Verdicts(run[s].stage)

(* Nothing lies in a folder that is not there.                             *)
DiskTyped ==
  /\ disk \in [Files -> Content]
  /\ index \in (SUBSET Flags) \cup {Missing, Torn}
  /\ disk["folder"] = "absent" => index = Missing /\ HasNone(Files)
  /\ faults \in 0..MaxFaults /\ kills \in 0..MaxKills /\ overlapped \in BOOLEAN

LEMMA OutputsTyped ==
  ASSUME NEW stage \in Stages, NEW v \in {"passed", "failed"}
  PROVE  /\ Outputs(stage) \in Seq(Files \cup {"index"})
         /\ Todo(stage, v) \in Seq(Files \cup {"index"}) /\ Todo(stage, v) # <<>>
<1>1. Outputs(stage) \in Seq(Files \cup {"index"}) /\ Len(Outputs(stage)) \in {3, 5}
  <2>1. CASE stage = "create"
    BY <2>1 DEF Outputs
  <2>2. CASE stage = "generate"
    BY <2>2 DEF Outputs
  <2>3. CASE stage = "test"
    BY <2>3 DEF Outputs
  <2>4. CASE stage = "review"
    BY <2>4 DEF Outputs
  <2>5. QED
    BY <2>1, <2>2, <2>3, <2>4
<1>2. /\ Front(Outputs(stage)) \in Seq(Files \cup {"index"})
      /\ Front(Outputs(stage)) # <<>>
  BY <1>1, FrontTyped
<1>3. Outputs(stage) # <<>>
  BY <1>1
<1>4. QED
  BY <1>1, <1>2, <1>3 DEF Todo

LEMMA OwnOutputsTyped ==
  ASSUME NEW stage \in Stages
  PROVE  /\ OwnOutputs(stage) \subseteq Files
         /\ stage # "create" => OwnOutputs(stage) \cap {"folder", "dirs", "source"} = {}
<1>1. \A f \in OwnOutputs(stage) : \E i \in 1..Len(Outputs(stage)) : f = Outputs(stage)[i] /\ f # "index"
  <2>1. Outputs(stage) \in Seq(Files \cup {"index"})
    BY OutputsTyped
  <2>2. QED
    BY <2>1 DEF OwnOutputs, ToSet
<1>2. QED
  BY <1>1 DEF Outputs

LEMMA IdleTyped ==
  /\ Idle \in Runs /\ Idle.at = "idle" /\ Idle.stage = "create" /\ Idle.verdict = "passed"
  /\ Idle.saved = Missing /\ Idle.backup = Missing /\ Idle.verdict \in Verdicts(Idle.stage)
  BY EmptySeq DEF Idle, Runs, Verdicts

LEMMA InitTyped == Init => DiskTyped /\ RunsTyped
<1> SUFFICES ASSUME Init PROVE DiskTyped /\ RunsTyped
  OBVIOUS
<1>1. DiskTyped
  <2>1. faults \in 0..MaxFaults /\ kills \in 0..MaxKills
    BY BuildAssumption DEF Init
  <2>2. overlapped \in BOOLEAN
    BY DEF Init
  <2>3. disk \in [Files -> Content] /\ index = Missing /\ HasNone(Files)
    BY DEF Init, HasNone
  <2>4. QED
    BY <2>1, <2>2, <2>3 DEF DiskTyped
<1>2. run = [s \in Scripts |-> Idle]
  BY DEF Init
<1>3. RunsTyped
  BY <1>2, IdleTyped DEF RunsTyped
<1>4. QED
  BY <1>1, <1>3

(* Runs stay typed where they quit, go to the catch block, or go on.       *)
LEMMA QuitTyped == ASSUME RunsTyped, NEW s \in Scripts, Quit(s) PROVE RunsTyped'
<1>1. run' \in [Scripts -> Runs] /\ \A t \in Scripts : run'[t] = IF t = s THEN Idle ELSE run[t]
  BY IdleTyped DEF RunsTyped, Quit
<1>2. QED
  BY <1>1, IdleTyped DEF RunsTyped

LEMMA GoTyped ==
  ASSUME RunsTyped, NEW s \in Scripts, run[s] # Idle,
         NEW step \in {"write", "erase", "reindex"}, Go(s, step)
  PROVE  RunsTyped'
  BY IdleTyped DEF RunsTyped, Runs, Go

LEMMA AdvanceTyped ==
  ASSUME RunsTyped, NEW s \in Scripts, At(s, "write"), Advance(s)
  PROVE  RunsTyped' /\ NextFile(s) \in Files \cup {"index"}
<1> DEFINE S == Files \cup {"index"}
<1> HIDE DEF S
<1>1. /\ run[s] \in Runs /\ run[s].todo \in Seq(S) /\ run[s].todo # <<>>
  BY IdleTyped DEF RunsTyped, Runs, At, S
<1>2. /\ Head(run[s].todo) \in S /\ Tail(run[s].todo) \in Seq(S)
      /\ Len(run[s].todo) # 1 => Tail(run[s].todo) # <<>>
  BY <1>1, TailTyped
<1>3. CASE Quit(s)
  BY <1>2, <1>3, QuitTyped DEF NextFile, S
<1>4. CASE Len(run[s].todo) # 1 /\ run' = [run EXCEPT ![s].todo = Tail(@)]
  <2>1. Tail(run[s].todo) \in Seq(Files \cup {"index"}) /\ Tail(run[s].todo) # <<>>
    BY <1>2, <1>4 DEF S
  <2>2. RunsTyped'
    BY <2>1, <1>4, IdleTyped DEF RunsTyped, Runs, At
  <2>3. QED
    BY <1>2, <2>2 DEF NextFile, S
<1>5. QED
  BY <1>3, <1>4 DEF Advance

(* What a step may do to the files keeps them typed.                       *)
LEMMA FilledTyped ==
  ASSUME DiskTyped, NEW s, NEW f \in Files, NEW c \in Content \ {"absent"},
         HomeThere(f), Filled(s, f, c)
  PROVE  /\ disk' \in [Files -> Content] /\ disk'["folder"] # "absent"
  BY DEF DiskTyped, HomeThere, Filled, HasNone

LEMMA ErasedTyped ==
  ASSUME DiskTyped, RunsTyped, NEW s \in Scripts, NEW kept,
         run[s].stage = "create" => Nested(kept), Erased(s, kept)
  PROVE  /\ disk' \in [Files -> Content]
         /\ index' \in {index, Missing}
         /\ disk'["folder"] = "absent" => index' = Missing /\ HasNone(Files)'
<1>1. run[s].stage \in Stages
  BY DEF RunsTyped, Runs
<1>2. disk' \in [Files -> Content] /\ index' \in {index, Missing}
  BY DEF Erased, DiskTyped
<1>3. CASE run[s].stage = "create"
  BY <1>3 DEF Erased, Targets, Nested, DiskTyped, HasNone
<1>4. CASE run[s].stage # "create"
  <2>1. Targets(run[s].stage) \subseteq Files /\ "folder" \notin Targets(run[s].stage)
    BY <1>1, <1>4, OwnOutputsTyped DEF Targets
  <2>2. index' = index /\ disk'["folder"] = disk["folder"]
    BY <2>1 DEF Erased
  <2>3. \A f \in Files : disk[f] = "absent" => disk'[f] = "absent"
    BY DEF Erased
  <2>4. QED
    BY <1>2, <2>2, <2>3 DEF DiskTyped, HasNone
<1>5. QED
  BY <1>2, <1>3, <1>4

LEMMA PartialTyped ==
  ASSUME DiskTyped, RunsTyped, NEW s \in Scripts, run[s] # Idle, Partial(s),
         At(s, "write") => NextFile(s) \in Files \cup {"index"}
  PROVE  /\ disk' \in [Files -> Content]
         /\ index' \in (SUBSET Flags) \cup {Missing, Torn}
         /\ disk'["folder"] = "absent" => index' = Missing /\ HasNone(Files)'
<1>1. CASE UNCHANGED <<disk, index>>
  BY <1>1 DEF DiskTyped, HasNone
<1>2. CASE /\ At(s, "write") /\ HomeThere(NextFile(s))
           /\ IF NextFile(s) = "index"
              THEN index' = Torn /\ UNCHANGED disk
              ELSE Filled(s, NextFile(s), "torn") /\ UNCHANGED index
  <2>1. CASE NextFile(s) = "index"
    BY <1>2, <2>1 DEF HomeThere, DiskTyped
  <2>2. CASE NextFile(s) # "index"
    BY <1>2, <2>2, FilledTyped DEF DiskTyped
  <2>3. QED
    BY <2>1, <2>2
<1>3. CASE \E kept : (run[s].stage = "create" => Nested(kept)) /\ Erased(s, kept)
  BY <1>3, ErasedTyped DEF DiskTyped
<1>4. CASE HomeThere("index") /\ index' = Torn /\ UNCHANGED disk
  BY <1>4 DEF HomeThere, DiskTyped
<1>5. QED
  BY <1>1, <1>2, <1>3, <1>4 DEF Partial

LEMMA NextTyped == DiskTyped /\ RunsTyped /\ [Next]_vars => DiskTyped' /\ RunsTyped'
<1> SUFFICES ASSUME DiskTyped, RunsTyped, [Next]_vars PROVE DiskTyped' /\ RunsTyped'
  OBVIOUS
<1>r. \A s \in Scripts :
        /\ run[s].stage \in Stages /\ run[s].verdict \in {"passed", "failed"}
        /\ run[s].todo \in Seq(Files \cup {"index"})
        /\ run[s].saved \in (SUBSET Flags) \cup {Missing}
        /\ run[s].backup \in (SUBSET Flags) \cup {Missing, Torn}
  BY DEF RunsTyped, Runs
<1>b. ASSUME NEW s \in Scripts, Keep(s) PROVE DiskTyped' /\ RunsTyped'
  <2>1. DiskTyped'
    BY <1>b DEF Keep, DiskTyped, HasNone
  <2>2. CASE Quit(s)
    BY <2>1, <2>2, QuitTyped
  <2>3. CASE run' = [run EXCEPT ![s].at = "write", ![s].backup = index]
    <3>1. run[s] # Idle /\ run[s].at = "keep"
      BY <1>b, IdleTyped DEF Keep, At
    <3>2. index \in (SUBSET Flags) \cup {Missing, Torn}
      BY DEF DiskTyped
    <3>a. /\ run'[s] = [run[s] EXCEPT !.at = "write", !.backup = index]
          /\ \A t \in Scripts \ {s} : run'[t] = run[t]
      BY <2>3 DEF RunsTyped
    <3>b. run[s] \in Runs
      BY DEF RunsTyped
    <3>c. /\ run'[s] \in Runs /\ run'[s].at = "write"
          /\ run'[s].todo = run[s].todo /\ run'[s].stage = run[s].stage
          /\ run'[s].saved = run[s].saved /\ run'[s].verdict = run[s].verdict
      BY <3>2, <3>a, <3>b DEF Runs
    <3>d. run' \in [Scripts -> Runs]
      BY <2>3, <3>a, <3>c DEF RunsTyped
    <3>e. /\ run'[s].at # "idle" /\ run'[s].todo # <<>>
          /\ run'[s].stage = "create" <=> run'[s].saved = Missing
          /\ run'[s].verdict \in Verdicts(run'[s].stage)
      BY <3>1, <3>c DEF RunsTyped
    <3>3. RunsTyped'
      BY <3>a, <3>d, <3>e DEF RunsTyped
    <3>4. QED
      BY <2>1, <3>3
  <2>4. QED
    BY <1>b, <2>2, <2>3 DEF Keep
<1>1. ASSUME NEW s \in Scripts, NEW stage \in Stages, Begin(s, stage)
      PROVE  DiskTyped' /\ RunsTyped'
  <2>1. stage = "create" => index = Missing
    BY <1>1 DEF Begin, Gate, GateCreate, DiskTyped
  <2>2. stage # "create" => index \in SUBSET Flags /\ index # Missing
    BY <1>1 DEF Begin, Gate, GateGenerate, GateTest, GateReview, Readable, DiskTyped
  <2>3. PICK v \in {"passed", "failed"} :
          /\ v \in Verdicts(stage)
          /\ run' = [run EXCEPT ![s] = [at |-> FirstStep(stage), stage |-> stage,
                                        todo |-> Todo(stage, v), verdict |-> v,
                                        saved |-> index, backup |-> index]]
    BY <1>1 DEF Begin, Verdicts
  <2>4. Todo(stage, v) \in Seq(Files \cup {"index"}) /\ Todo(stage, v) # <<>>
    BY OutputsTyped
  <2>5. RunsTyped'
    <3>1. FirstStep(stage) \in {"keep", "write"}
      BY DEF FirstStep
    <3>2. run'[s] \in Runs /\ run'[s] = [at |-> FirstStep(stage), stage |-> stage,
                                         todo |-> Todo(stage, v), verdict |-> v,
                                         saved |-> index, backup |-> index]
      BY <2>1, <2>2, <2>3, <2>4, <3>1 DEF RunsTyped, Runs
    <3>3. \A t \in Scripts \ {s} : run'[t] = run[t]
      BY <2>3 DEF RunsTyped
    <3>4. run' \in [Scripts -> Runs]
      BY <2>3, <3>2 DEF RunsTyped
    <3>5. /\ run'[s].at # "idle" /\ run'[s].todo # <<>>
          /\ run'[s].stage = "create" <=> run'[s].saved = Missing
          /\ run'[s].verdict \in Verdicts(run'[s].stage)
      BY <2>1, <2>2, <2>3, <2>4, <3>1, <3>2
    <3>6. QED
      BY <3>3, <3>4, <3>5 DEF RunsTyped
  <2>6. overlapped' \in BOOLEAN
    BY <1>1 DEF Begin, DiskTyped
  <2>7. UNCHANGED <<disk, index, faults, kills>>
    BY <1>1 DEF Begin
  <2>8. QED
    BY <2>5, <2>6, <2>7 DEF DiskTyped, HasNone
<1>2. ASSUME NEW s \in Scripts, WriteFile(s) PROVE DiskTyped' /\ RunsTyped'
  <2>1. RunsTyped' /\ NextFile(s) \in Files
    BY <1>2, AdvanceTyped DEF WriteFile
  <2>2. /\ disk' \in [Files -> Content] /\ disk'["folder"] # "absent"
    <3>1. run[s].verdict \in {"passed", "failed"}
      BY <1>r
    <3>2. (IF NextFile(s) = "results" THEN run[s].verdict ELSE "whole") \in Content \ {"absent"}
      BY <3>1
    <3>3. QED
      BY <1>2, <2>1, <3>2, FilledTyped DEF WriteFile
  <2>3. QED
    BY <1>2, <2>1, <2>2 DEF WriteFile, DiskTyped
<1>3. ASSUME NEW s \in Scripts, WriteIndex(s) PROVE DiskTyped' /\ RunsTyped'
  <2>1. RunsTyped'
    BY <1>3, AdvanceTyped DEF WriteIndex
  <2>2. NewIndex(s) \in SUBSET Flags
    <3>1. run[s].saved \in (SUBSET Flags) \cup {Missing} /\ run[s].stage \in Stages
      BY <1>r
    <3>2. Marks(run[s].stage) \in SUBSET Flags
      BY <3>1 DEF Marks
    <3>3. QED
      BY <3>1, <3>2 DEF NewIndex
  <2>3. QED
    BY <1>3, <2>1, <2>2 DEF WriteIndex, DiskTyped, HomeThere
<1>4. ASSUME NEW s \in Scripts, LoseHome(s) PROVE DiskTyped' /\ RunsTyped'
  BY <1>4, GoTyped, IdleTyped DEF LoseHome, At, DiskTyped, HasNone
<1>5. ASSUME NEW s \in Scripts, Erase(s) PROVE DiskTyped' /\ RunsTyped'
  <2>1. run[s] # Idle
    BY <1>5, IdleTyped DEF Erase, At
  <2>2. RunsTyped'
    BY <1>5, <2>1, QuitTyped, GoTyped DEF Erase
  <2>3. QED
    BY <1>5, <2>2, ErasedTyped DEF Erase, DiskTyped, Nested
<1>6. ASSUME NEW s \in Scripts, Reindex(s) PROVE DiskTyped' /\ RunsTyped'
  <2>1. RunsTyped' /\ UNCHANGED <<disk, faults, kills, overlapped>>
    BY <1>6, QuitTyped DEF Reindex
  <2>2. run[s].backup \in (SUBSET Flags) \cup {Missing, Torn}
    BY <1>r
  <2>3. index' = IF disk["folder"] # "absent" THEN run[s].backup ELSE index
    BY <1>6 DEF Reindex, HomeThere
  <2>4. QED
    BY <2>1, <2>2, <2>3 DEF DiskTyped, HasNone
<1>n. \A s \in Scripts : At(s, "write") => NextFile(s) \in Files \cup {"index"}
  <2> SUFFICES ASSUME NEW s \in Scripts, At(s, "write")
               PROVE  Head(run[s].todo) \in Files \cup {"index"}
    BY DEF NextFile
  <2>1. run[s].todo \in Seq(Files \cup {"index"}) /\ run[s].todo # <<>>
    BY <1>r, IdleTyped DEF RunsTyped, At
  <2>2. QED
    BY <2>1, TailTyped
<1>7. ASSUME NEW s \in Scripts, StepFails(s) PROVE DiskTyped' /\ RunsTyped'
  <2>1. RunsTyped'
    BY <1>7, QuitTyped, GoTyped DEF StepFails
  <2>2. faults' \in 0..MaxFaults
    BY <1>7, BuildAssumption DEF StepFails, DiskTyped
  <2>3. QED
    BY <1>7, <1>n, <2>1, <2>2, PartialTyped DEF StepFails, DiskTyped
<1>8. ASSUME NEW s \in Scripts, Kill(s) PROVE DiskTyped' /\ RunsTyped'
  <2>1. kills' \in 0..MaxKills
    BY <1>8, BuildAssumption DEF Kill, DiskTyped
  <2>2. QED
    BY <1>8, <1>n, <2>1, PartialTyped, QuitTyped DEF Kill, DiskTyped
<1>9. CASE UNCHANGED vars
  BY <1>9 DEF vars, DiskTyped, RunsTyped, HasNone
<1>10. QED
  BY <1>1, <1>b, <1>2, <1>3, <1>4, <1>5, <1>6, <1>7, <1>8, <1>9 DEF Next

(* Type correctness of a build's folder and of the runs at work on it.     *)
THEOREM TypeCorrect == Spec => []TypeOK
<1>1. DiskTyped /\ RunsTyped => TypeOK
  <2> SUFFICES ASSUME DiskTyped, RunsTyped PROVE TypeOK
    OBVIOUS
  <2>1. ASSUME NEW s \in Scripts, run[s] # Idle
        PROVE  /\ run[s].at \in {"keep", "write", "erase", "reindex"} /\ run[s].stage \in Stages
               /\ run[s].verdict \in Verdicts(run[s].stage)
               /\ run[s].todo # <<>> /\ ToSet(run[s].todo) \subseteq Files \cup {"index"}
               /\ run[s].saved = Missing \/ run[s].saved \subseteq Flags
               /\ run[s].backup \in {Missing, Torn} \/ run[s].backup \subseteq Flags
    <3>1. run[s] \in Runs
      BY DEF RunsTyped
    <3>2. run[s].todo \in Seq(Files \cup {"index"})
      BY <3>1 DEF Runs
    <3>3. ToSet(run[s].todo) \subseteq Files \cup {"index"}
      BY <3>2 DEF ToSet
    <3>4. QED
      BY <2>1, <3>1, <3>3 DEF Runs, RunsTyped
  <2>2. QED
    BY <2>1 DEF TypeOK, DiskTyped
<1>2. QED
  BY <1>1, InitTyped, NextTyped, PTL DEF Spec
-----------------------------------------------------------------------------
(* An index a run has read keeps the order of the stages, and the first    *)
(* one lets the run in; so what it writes back keeps the order, old as it  *)
(* may be by then.                                                         *)
Ordered == {{}, {"generated"}, {"generated", "tested"}, Flags}

OrderKept ==
  /\ index \in Ordered \cup {Missing, Torn}
  /\ \A s \in Scripts :
       /\ run[s].saved \in Ordered \cup {Missing}
       /\ run[s].backup \in Ordered \cup {Missing, Torn}
       /\ run[s].stage = "test" => "generated" \in run[s].saved
       /\ run[s].stage = "review" => {"generated", "tested"} \subseteq run[s].saved

LEMMA NewIndexOrdered ==
  ASSUME RunsTyped, OrderKept, NEW s \in Scripts
  PROVE  NewIndex(s) \in Ordered
<1>1. /\ run[s].stage \in Stages
      /\ run[s].stage = "create" => run[s].saved = Missing
      /\ run[s].stage # "create" => run[s].saved # Missing
  BY DEF RunsTyped, Runs
<1>2. CASE run[s].stage = "create"
  BY <1>1, <1>2 DEF NewIndex, Marks, Ordered
<1>3. CASE run[s].stage = "generate"
  BY <1>1, <1>3 DEF NewIndex, Marks, Ordered, OrderKept
<1>4. CASE run[s].stage = "test"
  BY <1>1, <1>4 DEF NewIndex, Marks, Ordered, OrderKept
<1>5. CASE run[s].stage = "review"
  BY <1>1, <1>5 DEF NewIndex, Marks, Ordered, OrderKept
<1>6. QED
  BY <1>1, <1>2, <1>3, <1>4, <1>5

LEMMA InitOrder == Init => OrderKept
  BY IdleTyped DEF Init, OrderKept

LEMMA NextOrder ==
  ASSUME DiskTyped, RunsTyped, OrderKept, [Next]_vars
  PROVE  OrderKept'
<1>r. run \in [Scripts -> Runs]
  BY DEF RunsTyped
<1>k. ASSUME index' \in Ordered \cup {Missing, Torn},
             \A s \in Scripts : /\ run'[s].saved = run[s].saved /\ run'[s].stage = run[s].stage
                                /\ run'[s].backup = run[s].backup
      PROVE  OrderKept'
  BY <1>k DEF OrderKept
<1>q. ASSUME index' \in Ordered \cup {Missing, Torn}, NEW s \in Scripts, Quit(s)
      PROVE  OrderKept'
  BY <1>q, <1>r, IdleTyped DEF OrderKept, Quit
<1>g. ASSUME index' \in Ordered \cup {Missing, Torn},
             NEW s \in Scripts, NEW step, Go(s, step)
      PROVE  OrderKept'
  BY <1>g, <1>r DEF OrderKept, Go, Runs
<1>a. ASSUME index' \in Ordered \cup {Missing, Torn}, NEW s \in Scripts, Advance(s)
      PROVE  OrderKept'
  <2>1. CASE Quit(s)
    BY <1>a, <1>q, <2>1
  <2>2. CASE run' = [run EXCEPT ![s].todo = Tail(@)]
    BY <1>a, <1>r, <1>k, <2>2 DEF Runs
  <2>3. QED
    BY <1>a, <2>1, <2>2 DEF Advance
<1>1. ASSUME NEW s \in Scripts, NEW stage \in Stages, Begin(s, stage) PROVE OrderKept'
  <2>1. UNCHANGED index
    BY <1>1 DEF Begin
  <2>2. stage = "create" => index = Missing
    BY <1>1 DEF Begin, Gate, GateCreate, DiskTyped
  <2>3. stage # "create" => index \in Ordered
    BY <1>1 DEF Begin, Gate, GateGenerate, GateTest, GateReview, Readable, OrderKept
  <2>4. stage = "test" => "generated" \in index
    BY <1>1 DEF Begin, Gate, GateTest
  <2>5. stage = "review" => {"generated", "tested"} \subseteq index
    BY <1>1 DEF Begin, Gate, GateReview
  <2>6. PICK v : run' = [run EXCEPT ![s] = [at |-> FirstStep(stage), stage |-> stage,
                           todo |-> Todo(stage, v), verdict |-> v,
                           saved |-> index, backup |-> index]]
    BY <1>1 DEF Begin
  <2>7. /\ run'[s].stage = stage /\ run'[s].saved = index /\ run'[s].backup = index
        /\ \A t \in Scripts \ {s} : run'[t] = run[t]
    BY <1>r, <2>6
  <2>8. QED
    BY <2>1, <2>2, <2>3, <2>4, <2>5, <2>7 DEF OrderKept
<1>b. ASSUME NEW s \in Scripts, Keep(s) PROVE OrderKept'
  <2>1. index' = index /\ index \in Ordered \cup {Missing, Torn}
    BY <1>b DEF Keep, OrderKept
  <2>2. CASE Quit(s)
    BY <1>q, <2>1, <2>2
  <2>3. CASE run' = [run EXCEPT ![s].at = "write", ![s].backup = index]
    <3>1. /\ run'[s].saved = run[s].saved /\ run'[s].stage = run[s].stage /\ run'[s].backup = index
          /\ \A t \in Scripts \ {s} : run'[t] = run[t]
      BY <1>r, <2>3 DEF Runs
    <3>2. QED
      BY <2>1, <3>1 DEF OrderKept
  <2>4. QED
    BY <1>b, <2>2, <2>3 DEF Keep
<1>2. ASSUME NEW s \in Scripts, WriteFile(s) PROVE OrderKept'
  BY <1>2, <1>a DEF WriteFile, OrderKept
<1>3. ASSUME NEW s \in Scripts, WriteIndex(s) PROVE OrderKept'
  BY <1>3, <1>a, NewIndexOrdered DEF WriteIndex
<1>4. ASSUME NEW s \in Scripts, LoseHome(s) PROVE OrderKept'
  BY <1>4, <1>g DEF LoseHome, OrderKept
<1>5. ASSUME NEW s \in Scripts, Erase(s) PROVE OrderKept'
  <2>1. index' \in Ordered \cup {Missing, Torn}
    BY <1>5 DEF Erase, Erased, OrderKept
  <2>2. QED
    BY <1>5, <1>q, <1>g, <2>1 DEF Erase
<1>6. ASSUME NEW s \in Scripts, Reindex(s) PROVE OrderKept'
  <2>1. index' \in Ordered \cup {Missing, Torn}
    BY <1>6 DEF Reindex, OrderKept
  <2>2. QED
    BY <1>6, <1>q, <2>1 DEF Reindex
<1>p. ASSUME NEW s \in Scripts, Partial(s) PROVE index' \in Ordered \cup {Missing, Torn}
  BY <1>p DEF Partial, Erased, OrderKept
<1>7. ASSUME NEW s \in Scripts, StepFails(s) PROVE OrderKept'
  BY <1>7, <1>p, <1>q, <1>g DEF StepFails
<1>8. ASSUME NEW s \in Scripts, Kill(s) PROVE OrderKept'
  BY <1>8, <1>p, <1>q DEF Kill
<1>9. CASE UNCHANGED vars
  BY <1>9, <1>k DEF vars, OrderKept
<1>10. QED
  BY <1>1, <1>b, <1>2, <1>3, <1>4, <1>5, <1>6, <1>7, <1>8, <1>9 DEF Next

(* No stage is skipped in the index of a build, whatever scripts overlap,  *)
(* fail or are killed.                                                     *)
THEOREM NoStageIsSkipped == Spec => []StagesInOrder
<1>1. OrderKept => StagesInOrder
  BY DEF OrderKept, StagesInOrder, Ordered, Readable
<1>2. DiskTyped /\ RunsTyped /\ OrderKept /\ [Next]_vars => OrderKept'
  BY NextOrder
<1>3. QED
  BY <1>1, <1>2, InitTyped, NextTyped, InitOrder, PTL DEF Spec
-----------------------------------------------------------------------------
(* One run at a time: what the flags of an index say is so.                *)
Truth(flags) ==
  /\ "generated" \in flags => disk["candidate"] = "whole" /\ disk["testplan"] = "whole"
  /\ "tested" \in flags => disk["results"] = "passed" /\ disk["summary"] = "whole"
  /\ "reviewed" \in flags => disk["manifest"] = "whole" /\ disk["checklist"] = "whole"

Unreviewed == disk["manifest"] = "absent" /\ disk["checklist"] = "absent"
Late == {"candidate", "testplan", "results", "summary", "manifest", "checklist"}

(* A create starts from nothing; a later stage has read an index that is   *)
(* true without its own flag, and has written what its list leaves out.    *)
CreateHonest(s) ==
  /\ index \in {Missing, Torn, {}} /\ HasNone(Late) /\ ToSet(run[s].todo) \cap Late = {}
  /\ run[s].at # "keep" /\ run[s].backup = Missing

StageHonest(s) ==
  /\ Truth(run[s].saved) /\ Marks(run[s].stage) \cap run[s].saved = {}
  /\ index \in {run[s].saved, Torn} /\ run[s].backup = run[s].saved
  /\ run[s].at = "keep" => index = run[s].saved
  /\ run[s].stage = "test" => Unreviewed
  /\ run[s].stage = "review" => disk["results"] = "passed"

WritesHonest(s) ==
  /\ \A f \in OwnOutputs(run[s].stage) :
       f \in ToSet(run[s].todo) \/ disk[f] = IF f = "results" THEN run[s].verdict ELSE "whole"
  /\ ToSet(run[s].todo) \subseteq OwnOutputs(run[s].stage) \cup {"index"}
  /\ \A i \in 1..Len(run[s].todo) :
       run[s].todo[i] = "index" => i = Len(run[s].todo) /\ run[s].verdict = "passed"

RunHonest(s) ==
  /\ run[s].stage = "create" => CreateHonest(s)
  /\ run[s].stage # "create" => StageHonest(s)
  /\ run[s].stage # "create" /\ run[s].at \in {"keep", "write"} => WritesHonest(s)

Honest ==
  /\ Readable => Truth(index)
  /\ ~Unreviewed => disk["results"] = "passed"
  /\ \A s \in Scripts : run[s] # Idle =>
       RunHonest(s) /\ \A t \in Scripts : run[t] # Idle => t = s

HonestAlone == overlapped = FALSE => Honest

LEMMA OwnOutputsAre ==
  /\ OwnOutputs("generate") = {"candidate", "testplan"}
  /\ OwnOutputs("test")     = {"results", "summary"}
  /\ OwnOutputs("review")   = {"manifest", "checklist"}
<1>1. ASSUME NEW a, NEW b, NEW c PROVE ToSet(<<a, b, c>>) = {a, b, c}
  BY DEF ToSet
<1>2. QED
  BY <1>1 DEF OwnOutputs, Outputs

LEMMA TodoFull ==
  ASSUME NEW stage \in Stages \ {"create"}, NEW v \in Verdicts(stage)
  PROVE  LET q == Todo(stage, v) IN
         /\ OwnOutputs(stage) \subseteq ToSet(q)
         /\ ToSet(q) \subseteq OwnOutputs(stage) \cup {"index"}
         /\ \A i \in 1..Len(q) : q[i] = "index" => i = Len(q) /\ v = "passed"
<1>1. ASSUME NEW a, NEW b, NEW c PROVE ToSet(<<a, b, c>>) = {a, b, c}
  BY DEF ToSet
<1>3. CASE v = "passed"
  BY <1>1, <1>3, OwnOutputsAre DEF Todo, Outputs
<1>4. CASE v # "passed"
  <2>1. stage = "test" /\ v = "failed"
    BY <1>4 DEF Verdicts
  <2>2. Todo(stage, v) = Front(<<"results", "summary", "index">>)
    BY <2>1 DEF Todo, Outputs
  <2>3. /\ <<"results", "summary", "index">> \in Seq(Files \cup {"index"})
        /\ Len(<<"results", "summary", "index">>) = 3
    OBVIOUS
  <2>4. LET q == Todo(stage, v)
        IN  Len(q) = 2 /\ ToSet(q) = {"results", "summary"} /\ q[1] = "results" /\ q[2] = "summary"
    BY <2>2, <2>3, FrontOfThree
  <2>5. QED
    BY <2>1, <2>4, OwnOutputsAre
<1>5. QED
  BY <1>3, <1>4

(* A step of s that touches the index and the outputs of its stage only,   *)
(* and leaves the index as it was read, torn, or as create may leave it.   *)
Confined(s) ==
  IF run[s].stage = "create"
  THEN index' \in {Missing, Torn, {}} /\ HasNone(Late)'
  ELSE /\ index' \in {run[s].saved, Torn}
       /\ \A f \in Late \ OwnOutputs(run[s].stage) : disk'[f] = disk[f]

LEMMA ConfinedKeepsTruth ==
  ASSUME RunsTyped, NEW s \in Scripts, RunHonest(s), ~Unreviewed => disk["results"] = "passed",
         Confined(s), NEW sv, sv = run[s].saved
  PROVE  /\ (Readable => Truth(index))'
         /\ (~Unreviewed => disk["results"] = "passed")'
         /\ run[s].stage # "create" => Truth(sv)'
         /\ run[s].stage = "test" => Unreviewed'
         /\ run[s].stage = "review" => disk'["results"] = "passed"
<1>1. run[s].stage \in Stages
  BY DEF RunsTyped, Runs
<1>2. CASE run[s].stage = "create"
  BY <1>2 DEF Confined, Truth, Readable, Unreviewed, HasNone, Late
<1>3. CASE run[s].stage = "generate"
  <2>1. StageHonest(s) /\ "generated" \notin sv
    BY <1>3 DEF RunHonest, StageHonest, Marks
  <2>2. \A f \in Late \ {"candidate", "testplan"} : disk'[f] = disk[f]
    BY <1>3, OwnOutputsAre DEF Confined
  <2>3. Truth(sv)' /\ (~Unreviewed => disk["results"] = "passed")'
    BY <2>1, <2>2 DEF StageHonest, Truth, Late, Unreviewed
  <2>4. QED
    BY <1>3, <2>3 DEF Confined, Readable
<1>4. CASE run[s].stage = "test"
  <2>1. StageHonest(s) /\ "tested" \notin sv /\ Unreviewed
    BY <1>4 DEF RunHonest, StageHonest, Marks
  <2>2. \A f \in Late \ {"results", "summary"} : disk'[f] = disk[f]
    BY <1>4, OwnOutputsAre DEF Confined
  <2>3. Truth(sv)' /\ Unreviewed'
    BY <2>1, <2>2 DEF StageHonest, Truth, Late, Unreviewed
  <2>4. QED
    BY <1>4, <2>3 DEF Confined, Readable
<1>5. CASE run[s].stage = "review"
  <2>1. StageHonest(s) /\ "reviewed" \notin sv /\ disk["results"] = "passed"
    BY <1>5 DEF RunHonest, StageHonest, Marks
  <2>2. \A f \in Late \ {"manifest", "checklist"} : disk'[f] = disk[f]
    BY <1>5, OwnOutputsAre DEF Confined
  <2>3. Truth(sv)' /\ disk'["results"] = "passed"
    BY <2>1, <2>2 DEF StageHonest, Truth, Late
  <2>4. QED
    BY <1>5, <2>3 DEF Confined, Readable
<1>6. QED
  BY <1>1, <1>2, <1>3, <1>4, <1>5

LEMMA OnlyOne ==
  ASSUME Honest, NEW s \in Scripts, run[s] # Idle,
         \A t \in Scripts \ {s} : run'[t] = run[t],
         (Readable => Truth(index))', (~Unreviewed => disk["results"] = "passed")',
         run'[s] # Idle => RunHonest(s)'
  PROVE  Honest'
<1>1. \A t \in Scripts \ {s} : run'[t] = Idle
  BY DEF Honest
<1>2. QED
  BY <1>1 DEF Honest

LEMMA ConfinedHonest ==
  ASSUME RunsTyped, Honest, NEW s \in Scripts, run[s] # Idle, Confined(s),
         Quit(s) \/ \E step \in {"erase", "reindex"} : Go(s, step)
  PROVE  Honest'
<1>1. RunHonest(s) /\ (~Unreviewed => disk["results"] = "passed")
  BY DEF Honest
<1>2. run \in [Scripts -> Runs]
  BY DEF RunsTyped
<1>3. /\ (Readable => Truth(index))'
      /\ (~Unreviewed => disk["results"] = "passed")'
      /\ run[s].stage # "create" => Truth(run[s].saved) /\ \A x : x = run[s].saved => Truth(x)'
      /\ run[s].stage = "test" => Unreviewed'
      /\ run[s].stage = "review" => disk'["results"] = "passed"
  BY <1>1, ConfinedKeepsTruth DEF RunHonest, StageHonest
<1>4. CASE Quit(s)
  BY <1>2, <1>3, <1>4, OnlyOne DEF Quit
<1>5. ASSUME NEW step \in {"erase", "reindex"}, Go(s, step) PROVE Honest'
  <2>1. /\ \A t \in Scripts \ {s} : run'[t] = run[t]
        /\ run'[s] = [run[s] EXCEPT !.at = step]
    BY <1>2, <1>5 DEF Go
  <2>2. /\ run'[s].stage = run[s].stage /\ run'[s].saved = run[s].saved
        /\ run'[s].todo = run[s].todo /\ run'[s].at \notin {"keep", "write"}
        /\ run'[s].backup = run[s].backup
    BY <1>2, <2>1 DEF Runs
  <2>3. CASE run[s].stage = "create"
    <3>1. CreateHonest(s)'
      BY <1>1, <2>2, <2>3 DEF Confined, RunHonest, CreateHonest
    <3>2. QED
      BY <1>3, <2>1, <2>2, <2>3, <3>1, OnlyOne DEF RunHonest
  <2>4. CASE run[s].stage # "create"
    <3>1. StageHonest(s)'
      BY <1>1, <1>3, <2>2, <2>4 DEF Confined, RunHonest, StageHonest
    <3>2. QED
      BY <1>3, <2>1, <2>2, <2>4, <3>1, OnlyOne DEF RunHonest
  <2>5. QED
    BY <2>3, <2>4
<1>6. QED
  BY <1>4, <1>5

LEMMA BeginHonest ==
  ASSUME DiskTyped, RunsTyped, Honest, NEW s \in Scripts, NEW stage \in Stages, Begin(s, stage),
         \A t \in Scripts : run[t] = Idle
  PROVE  Honest'
<1>1. UNCHANGED <<disk, index>>
  BY DEF Begin
<1>2. PICK v \in Verdicts(stage) :
        run' = [run EXCEPT ![s] = [at |-> FirstStep(stage), stage |-> stage,
                                   todo |-> Todo(stage, v), verdict |-> v,
                                   saved |-> index, backup |-> index]]
  BY DEF Begin
<1>3. /\ run'[s].at = FirstStep(stage) /\ run'[s].stage = stage /\ run'[s].todo = Todo(stage, v)
      /\ run'[s].verdict = v /\ run'[s].saved = index /\ run'[s].backup = index
      /\ \A t \in Scripts \ {s} : run'[t] = Idle
  BY <1>2 DEF RunsTyped
<1>4. CASE stage = "create"
  <2>1. index = Missing /\ HasNone(Files)
    BY <1>4 DEF Begin, Gate, GateCreate, DiskTyped
  <2>2. ToSet(Todo(stage, v)) \cap Late = {}
    <3>1. v = "passed"
      BY <1>4 DEF Verdicts
    <3>2. ASSUME NEW a, NEW b, NEW c, NEW d, NEW e
          PROVE  ToSet(<<a, b, c, d, e>>) = {a, b, c, d, e}
      BY DEF ToSet
    <3>3. QED
      BY <1>4, <3>1, <3>2 DEF Todo, Outputs, Late
  <2>3. CreateHonest(s)'
    BY <1>1, <1>3, <1>4, <2>1, <2>2 DEF CreateHonest, HasNone, Late, FirstStep
  <2>4. QED
    BY <1>1, <1>3, <1>4, <2>3 DEF Honest, RunHonest, Truth, Readable, Unreviewed
<1>5. CASE stage # "create"
  <2>1. Readable /\ Truth(index) /\ HasNone(OwnOutputs(stage))
    BY <1>5 DEF Begin, Gate, GateGenerate, GateTest, GateReview, Honest
  <2>2. Marks(stage) \cap index = {}
    BY <1>5, <2>1, OwnOutputsAre DEF Marks, HasNone, Truth
  <2>3. stage = "test" => Unreviewed
    BY <2>1, OwnOutputsAre DEF HasNone, Honest
  <2>4. stage = "review" => disk["results"] = "passed"
    BY DEF Begin, Gate, GateReview
  <2>5. StageHonest(s)'
    BY <1>1, <1>3, <2>1, <2>2, <2>3, <2>4 DEF StageHonest, Truth, Unreviewed
  <2>6. WritesHonest(s)'
    BY <1>3, <1>5, TodoFull DEF WritesHonest
  <2>7. QED
    BY <1>1, <1>3, <1>5, <2>5, <2>6 DEF Honest, RunHonest, Truth, Readable, Unreviewed
<1>6. QED
  BY <1>4, <1>5

LEMMA NextInList ==
  ASSUME RunsTyped, NEW s \in Scripts, At(s, "write")
  PROVE  /\ run[s].todo \in Seq(Files \cup {"index"}) /\ Len(run[s].todo) \in Nat \ {0}
         /\ NextFile(s) = run[s].todo[1] /\ NextFile(s) \in ToSet(run[s].todo)
<1>1. run[s].todo \in Seq(Files \cup {"index"}) /\ run[s].todo # <<>>
  BY IdleTyped DEF RunsTyped, Runs, At
<1>2. ASSUME NEW S, NEW q \in Seq(S), q # <<>>
      PROVE  Len(q) \in Nat \ {0} /\ Head(q) = q[1] /\ q[1] \in ToSet(q)
  <2>1. Len(q) \in Nat \ {0} /\ DOMAIN q = 1..Len(q)
    BY <1>2, EmptySeq, LenProperties
  <2>2. q[1] \in ToSet(q)
    BY <2>1 DEF ToSet
  <2>3. QED
    BY <2>1, <2>2
<1>3. QED
  BY <1>1, <1>2 DEF NextFile

LEMMA FilledConfined ==
  ASSUME DiskTyped, RunsTyped, NEW s \in Scripts, RunHonest(s), At(s, "write"), NextFile(s) # "index",
         NEW c, Filled(s, NextFile(s), c), UNCHANGED index
  PROVE  Confined(s) /\ \A f \in Late \ {NextFile(s)} : disk'[f] = disk[f]
<1>1. NextFile(s) \in ToSet(run[s].todo) /\ run[s].stage \in Stages
  BY NextInList DEF RunsTyped, Runs
<1>2. \A f \in Late \ {NextFile(s)} : disk'[f] = disk[f]
  BY DEF Filled, Late, DiskTyped
<1>3. CASE run[s].stage = "create"
  BY <1>1, <1>2, <1>3 DEF Confined, RunHonest, CreateHonest, HasNone
<1>4. CASE run[s].stage # "create"
  BY <1>1, <1>2, <1>4 DEF Confined, RunHonest, StageHonest, WritesHonest, At
<1>5. QED
  BY <1>2, <1>3, <1>4

LEMMA ErasedConfined ==
  ASSUME RunsTyped, NEW s \in Scripts, RunHonest(s), NEW kept, Erased(s, kept)
  PROVE  Confined(s)
<1>1. run[s].stage \in Stages
  BY DEF RunsTyped, Runs
<1>2. CASE run[s].stage = "create"
  BY <1>2 DEF Confined, RunHonest, CreateHonest, HasNone, Erased, Late
<1>3. CASE run[s].stage # "create"
  <2>1. Targets(run[s].stage) = OwnOutputs(run[s].stage) /\ "index" \notin OwnOutputs(run[s].stage)
    BY <1>3 DEF Targets, OwnOutputs
  <2>2. QED
    BY <1>3, <2>1 DEF Confined, RunHonest, StageHonest, Erased, Late
<1>4. QED
  BY <1>2, <1>3

LEMMA PartialConfined ==
  ASSUME DiskTyped, RunsTyped, NEW s \in Scripts, RunHonest(s), Partial(s)
  PROVE  Confined(s)
<1>1. CASE UNCHANGED disk /\ index' \in {index, Torn}
  BY <1>1 DEF Confined, RunHonest, CreateHonest, StageHonest, HasNone
<1>2. CASE /\ At(s, "write") /\ NextFile(s) # "index"
           /\ Filled(s, NextFile(s), "torn") /\ UNCHANGED index
  BY <1>2, FilledConfined
<1>3. CASE \E kept : Erased(s, kept)
  BY <1>3, ErasedConfined
<1>4. \/ UNCHANGED disk /\ index' \in {index, Torn}
      \/ At(s, "write") /\ NextFile(s) # "index" /\ Filled(s, NextFile(s), "torn") /\ UNCHANGED index
      \/ \E kept : Erased(s, kept)
  <2>1. CASE NextFile(s) = "index"
    BY <2>1 DEF Partial
  <2>2. CASE NextFile(s) # "index"
    BY <2>2 DEF Partial
  <2>3. QED
    BY <2>1, <2>2
<1>5. QED
  BY <1>1, <1>2, <1>3, <1>4

LEMMA WriteFileHonest ==
  ASSUME DiskTyped, RunsTyped, Honest, NEW s \in Scripts, WriteFile(s)
  PROVE  Honest'
<1> DEFINE q == run[s].todo
           f == NextFile(s)
<1>1. /\ run[s] # Idle /\ RunHonest(s) /\ (~Unreviewed => disk["results"] = "passed")
      /\ run[s].stage \in Stages /\ run \in [Scripts -> Runs]
  BY IdleTyped DEF WriteFile, At, Honest, RunsTyped, Runs
<1>2. /\ Confined(s) /\ \A g \in Late \ {f} : disk'[g] = disk[g]
      /\ At(s, "write") /\ f # "index" /\ UNCHANGED index
  BY <1>1, FilledConfined DEF WriteFile
<1>3. CASE Quit(s)
  BY <1>1, <1>2, <1>3, ConfinedHonest
<1>4. CASE Len(q) # 1 /\ run' = [run EXCEPT ![s].todo = Tail(@)]
  <2>1. /\ run'[s].stage = run[s].stage /\ run'[s].saved = run[s].saved
        /\ run'[s].backup = run[s].backup /\ run'[s].at = run[s].at
        /\ run'[s].verdict = run[s].verdict /\ run'[s].todo = Tail(q)
        /\ \A t \in Scripts \ {s} : run'[t] = run[t]
    BY <1>1, <1>4 DEF Runs
  <2>2. /\ q \in Seq(Files \cup {"index"}) /\ Len(q) \in Nat \ {0} /\ f = q[1]
        /\ f \in ToSet(q)
    BY <1>2, NextInList
  <2>3. /\ Len(Tail(q)) = Len(q) - 1 /\ DOMAIN Tail(q) = 1..(Len(q) - 1) /\ DOMAIN q = 1..Len(q)
        /\ \A i \in 1..(Len(q) - 1) : Tail(q)[i] = q[i + 1]
    <3> HIDE DEF q
    <3>1. q # <<>>
      BY <2>2, EmptySeq
    <3>2. QED
      BY <2>2, <3>1, HeadTailProperties, LenProperties
  <2>4. ToSet(q) = ToSet(Tail(q)) \cup {f}
    <3> HIDE DEF q, f
    <3>1. ASSUME NEW x \in ToSet(q), x # f PROVE x \in ToSet(Tail(q))
      <4>1. PICK i \in 1..Len(q) : x = q[i]
        BY <2>3, <3>1 DEF ToSet
      <4>2. i - 1 \in 1..(Len(q) - 1) /\ Tail(q)[i - 1] = x
        BY <2>2, <2>3, <3>1, <4>1
      <4>3. QED
        BY <2>3, <4>2 DEF ToSet
    <3>2. ASSUME NEW x \in ToSet(Tail(q)) PROVE x \in ToSet(q)
      <4>1. PICK i \in 1..(Len(q) - 1) : x = q[i + 1]
        BY <2>3, <3>2 DEF ToSet
      <4>2. QED
        BY <2>2, <2>3, <4>1 DEF ToSet
    <3>3. QED
      BY <2>2, <3>1, <3>2
  <2>5. /\ (Readable => Truth(index))'
        /\ (~Unreviewed => disk["results"] = "passed")'
        /\ run[s].stage # "create" => Truth(run[s].saved) /\ \A x : x = run[s].saved => Truth(x)'
        /\ run[s].stage = "test" => Unreviewed'
        /\ run[s].stage = "review" => disk'["results"] = "passed"
    BY <1>1, <1>2, ConfinedKeepsTruth DEF RunHonest, StageHonest
  <2>6. CASE run[s].stage = "create"
    <3>1. CreateHonest(s)'
      BY <1>1, <1>2, <2>1, <2>4, <2>6 DEF Confined, RunHonest, CreateHonest
    <3>2. QED
      BY <1>1, <2>1, <2>5, <2>6, <3>1, OnlyOne DEF RunHonest
  <2>7. CASE run[s].stage # "create"
    <3>1. StageHonest(s)'
      BY <1>1, <1>2, <2>1, <2>5, <2>7 DEF Confined, RunHonest, StageHonest, At
    <3>2. WritesHonest(s)
      BY <1>1, <1>2, <2>7 DEF RunHonest, At
    <3>3. disk'[f] = IF f = "results" THEN run[s].verdict ELSE "whole"
      <4>1. f \in Files
        BY <1>2, <2>2
      <4>2. f # "folder"
        BY <1>1, <1>2, <2>2, <2>7, <3>2, OwnOutputsTyped DEF WritesHonest
      <4>3. QED
        BY <4>1, <4>2 DEF WriteFile, Filled, DiskTyped
    <3>4. OwnOutputs(run[s].stage) \subseteq Late
      BY <1>1, <2>7, OwnOutputsAre DEF Late
    <3>5. WritesHonest(s)'
      <4>1. \A g \in OwnOutputs(run[s].stage) :
              g \in ToSet(Tail(q)) \/ disk'[g] = IF g = "results" THEN run[s].verdict ELSE "whole"
        BY <1>2, <2>4, <3>2, <3>3, <3>4 DEF WritesHonest
      <4>2. \A i \in 1..(Len(q) - 1) : Tail(q)[i] = "index" =>
              i = Len(q) - 1 /\ run[s].verdict = "passed"
        BY <2>2, <2>3, <3>2 DEF WritesHonest
      <4>3. ToSet(Tail(q)) \subseteq OwnOutputs(run[s].stage) \cup {"index"}
        BY <2>4, <3>2 DEF WritesHonest
      <4>4. QED
        BY <2>1, <2>3, <4>1, <4>2, <4>3 DEF WritesHonest
    <3>6. QED
      BY <1>1, <2>1, <2>5, <2>7, <3>1, <3>5, OnlyOne DEF RunHonest
  <2>8. QED
    BY <2>6, <2>7
<1>5. QED
  BY <1>3, <1>4 DEF WriteFile, Advance

LEMMA WriteIndexHonest ==
  ASSUME DiskTyped, RunsTyped, Honest, NEW s \in Scripts, WriteIndex(s)
  PROVE  Honest'
<1> DEFINE q == run[s].todo
<1>1. /\ run[s] # Idle /\ RunHonest(s) /\ run[s].stage \in Stages
      /\ run \in [Scripts -> Runs] /\ At(s, "write") /\ UNCHANGED disk
      /\ run[s].stage = "create" <=> run[s].saved = Missing
  BY IdleTyped DEF WriteIndex, At, Honest, RunsTyped, Runs
<1>2. q \in Seq(Files \cup {"index"}) /\ Len(q) \in Nat \ {0} /\ q[1] = "index"
  BY <1>1, NextInList DEF WriteIndex
<1>3. CASE run[s].stage = "create"
  <2>1. index' = {}
    BY <1>1, <1>3 DEF WriteIndex, NewIndex, Marks
  <2>2. Confined(s)
    BY <1>1, <1>3, <2>1 DEF Confined, RunHonest, CreateHonest, HasNone
  <2>3. CASE Quit(s)
    BY <1>1, <2>2, <2>3, ConfinedHonest
  <2>4. CASE run' = [run EXCEPT ![s].todo = Tail(@)]
    <3>1. /\ run'[s].stage = "create" /\ run'[s].todo = Tail(q)
          /\ run'[s].at = run[s].at /\ run'[s].backup = run[s].backup
          /\ \A t \in Scripts \ {s} : run'[t] = run[t]
      BY <1>1, <1>3, <2>4 DEF Runs
    <3>2. ToSet(Tail(q)) \subseteq ToSet(q)
      <4> HIDE DEF q
      <4>1. q # <<>>
        BY <1>2, EmptySeq
      <4>2. /\ Len(Tail(q)) = Len(q) - 1 /\ DOMAIN Tail(q) = 1..(Len(q) - 1)
            /\ DOMAIN q = 1..Len(q) /\ \A i \in 1..(Len(q) - 1) : Tail(q)[i] = q[i + 1]
        BY <1>2, <4>1, HeadTailProperties, LenProperties
      <4>3. QED
        BY <1>2, <4>2 DEF ToSet
    <3>3. CreateHonest(s)'
      BY <1>1, <1>3, <2>1, <3>1, <3>2 DEF RunHonest, CreateHonest, HasNone
    <3>4. /\ (Readable => Truth(index))'
          /\ (~Unreviewed => disk["results"] = "passed")'
      BY <1>1, <2>1 DEF Truth, Honest, Unreviewed
    <3>5. QED
      BY <1>1, <3>1, <3>3, <3>4, OnlyOne DEF RunHonest
  <2>5. QED
    BY <2>3, <2>4 DEF WriteIndex, Advance
<1>4. CASE run[s].stage # "create"
  <2>1. WritesHonest(s) /\ StageHonest(s)
    BY <1>1, <1>4 DEF RunHonest, At
  <2>2. Len(q) = 1 /\ run[s].verdict = "passed"
    <3>1. \A i \in 1..Len(q) : q[i] = "index" => i = Len(q) /\ run[s].verdict = "passed"
      BY <2>1 DEF WritesHonest
    <3>2. 1 \in 1..Len(q)
      BY <1>2
    <3>3. QED
      BY <1>2, <3>1, <3>2
  <2>3. ToSet(q) = {"index"}
    <3> HIDE DEF q
    <3>1. DOMAIN q = {1}
      BY <1>2, <2>2, LenProperties
    <3>2. QED
      BY <1>2, <3>1 DEF ToSet
  <2>4. \A f \in OwnOutputs(run[s].stage) :
          disk[f] = IF f = "results" THEN "passed" ELSE "whole"
    <3>1. "index" \notin OwnOutputs(run[s].stage)
      BY DEF OwnOutputs
    <3>2. QED
      BY <2>1, <2>2, <2>3, <3>1 DEF WritesHonest
  <2>5. index' = run[s].saved \cup Marks(run[s].stage)
    BY <1>1, <1>4 DEF WriteIndex, NewIndex
  <2>6. Truth(index)'
    <3>1. CASE run[s].stage = "generate"
      BY <1>1, <2>1, <2>4, <2>5, <3>1, OwnOutputsAre DEF Truth, Marks, StageHonest
    <3>2. CASE run[s].stage = "test"
      BY <1>1, <2>1, <2>4, <2>5, <3>2, OwnOutputsAre DEF Truth, Marks, StageHonest
    <3>3. CASE run[s].stage = "review"
      BY <1>1, <2>1, <2>4, <2>5, <3>3, OwnOutputsAre DEF Truth, Marks, StageHonest
    <3>4. QED
      BY <1>1, <1>4, <3>1, <3>2, <3>3
  <2>7. Quit(s)
    BY <2>2 DEF WriteIndex, Advance
  <2>8. (~Unreviewed => disk["results"] = "passed")'
    BY <1>1 DEF Honest, Unreviewed
  <2>9. run'[s] = Idle /\ \A t \in Scripts \ {s} : run'[t] = run[t]
    BY <1>1, <2>7 DEF Quit
  <2>10. QED
    BY <1>1, <2>6, <2>8, <2>9, OnlyOne
<1>5. QED
  BY <1>3, <1>4

(* The second read finds what the first one found: no other run is there.  *)
LEMMA KeepHonest ==
  ASSUME DiskTyped, RunsTyped, Honest, NEW s \in Scripts, Keep(s)
  PROVE  Honest'
<1>1. /\ run[s] # Idle /\ RunHonest(s) /\ run[s].at = "keep" /\ run \in [Scripts -> Runs]
      /\ UNCHANGED <<disk, index>>
      /\ (Readable => Truth(index)) /\ (~Unreviewed => disk["results"] = "passed")
  BY IdleTyped DEF Keep, At, Honest, RunsTyped
<1>2. (Readable => Truth(index))' /\ (~Unreviewed => disk["results"] = "passed")'
  BY <1>1 DEF Readable, Truth, Unreviewed
<1>3. CASE Quit(s)
  BY <1>1, <1>2, <1>3, OnlyOne DEF Quit
<1>4. CASE run' = [run EXCEPT ![s].at = "write", ![s].backup = index]
  <2>1. /\ run'[s].stage = run[s].stage /\ run'[s].saved = run[s].saved
        /\ run'[s].todo = run[s].todo /\ run'[s].verdict = run[s].verdict
        /\ run'[s].at = "write" /\ run'[s].backup = index
        /\ \A t \in Scripts \ {s} : run'[t] = run[t]
    BY <1>1, <1>4 DEF Runs
  <2>2. CASE run[s].stage = "create"
    <3>1. CreateHonest(s)'
      BY <1>1, <2>1, <2>2 DEF RunHonest, CreateHonest, HasNone
    <3>2. QED
      BY <1>1, <1>2, <2>1, <2>2, <3>1, OnlyOne DEF RunHonest
  <2>3. CASE run[s].stage # "create"
    <3>1. StageHonest(s)'
      BY <1>1, <2>1, <2>3 DEF RunHonest, StageHonest, Truth, Unreviewed
    <3>2. WritesHonest(s)'
      BY <1>1, <2>1, <2>3 DEF RunHonest, WritesHonest
    <3>3. QED
      BY <1>1, <1>2, <2>1, <2>3, <3>1, <3>2, OnlyOne DEF RunHonest
  <2>4. QED
    BY <2>2, <2>3
<1>5. QED
  BY <1>3, <1>4 DEF Keep

LEMMA InitHonest == Init => HonestAlone
  BY BuildAssumption DEF Init, HonestAlone, Honest, Readable, Unreviewed

LEMMA NextHonest ==
  ASSUME DiskTyped, RunsTyped, HonestAlone, [Next]_vars
  PROVE  HonestAlone'
<1> SUFFICES ASSUME overlapped' = FALSE PROVE Honest'
  BY DEF HonestAlone
<1>1. ASSUME NEW s \in Scripts, NEW stage \in Stages, Begin(s, stage) PROVE Honest'
  <2>1. overlapped = FALSE /\ \A t \in Scripts : run[t] = Idle
    <3>1. overlapped \in BOOLEAN
      BY DEF DiskTyped
    <3>2. overlapped' = (overlapped \/ \E t \in Scripts : run[t] # Idle)
      BY <1>1 DEF Begin
    <3>3. QED
      BY <3>1, <3>2, Zenon
  <2>2. QED
    BY <1>1, <2>1, BeginHonest DEF HonestAlone
<1>o. ASSUME UNCHANGED overlapped PROVE Honest
  BY <1>o DEF HonestAlone
<1>b. ASSUME NEW s \in Scripts, Keep(s) PROVE Honest'
  BY <1>b, <1>o, KeepHonest DEF Keep
<1>2. ASSUME NEW s \in Scripts, WriteFile(s) PROVE Honest'
  BY <1>2, <1>o, WriteFileHonest DEF WriteFile
<1>3. ASSUME NEW s \in Scripts, WriteIndex(s) PROVE Honest'
  BY <1>3, <1>o, WriteIndexHonest DEF WriteIndex
<1>h. ASSUME Honest, NEW s \in Scripts, run[s] # Idle PROVE RunHonest(s)
  BY <1>h DEF Honest
<1>4. ASSUME NEW s \in Scripts, LoseHome(s) PROVE Honest'
  <2>1. Honest /\ run[s] # Idle /\ UNCHANGED <<disk, index>>
    BY <1>4, <1>o, IdleTyped DEF LoseHome, At
  <2>2. Confined(s)
    BY <1>h, <2>1 DEF Confined, RunHonest, CreateHonest, StageHonest, HasNone
  <2>3. QED
    BY <1>4, <2>1, <2>2, ConfinedHonest DEF LoseHome
<1>5. ASSUME NEW s \in Scripts, Erase(s) PROVE Honest'
  <2>1. Honest /\ run[s] # Idle
    BY <1>5, <1>o, IdleTyped DEF Erase, At
  <2>2. Confined(s)
    BY <1>5, <1>h, <2>1, ErasedConfined DEF Erase
  <2>3. QED
    BY <1>5, <2>1, <2>2, ConfinedHonest DEF Erase
<1>6. ASSUME NEW s \in Scripts, Reindex(s) PROVE Honest'
  <2>1. Honest /\ run[s] # Idle /\ UNCHANGED disk /\ index' \in {run[s].backup, index}
        /\ run[s].at = "reindex"
    BY <1>6, <1>o, IdleTyped DEF Reindex, At
  <2>2. run[s].stage = "create" => run[s].backup = Missing
    BY <2>1, <1>h DEF RunHonest, CreateHonest
  <2>3. Confined(s)
    BY <1>h, <2>1, <2>2 DEF Confined, RunHonest, CreateHonest, StageHonest, HasNone
  <2>4. QED
    BY <1>6, <2>1, <2>3, ConfinedHonest DEF Reindex
<1>7. ASSUME NEW s \in Scripts, StepFails(s) PROVE Honest'
  <2>1. Honest /\ run[s] # Idle
    BY <1>7, <1>o DEF StepFails
  <2>2. Confined(s)
    BY <1>7, <1>h, <2>1, PartialConfined DEF StepFails
  <2>3. Quit(s) \/ \E step \in {"erase", "reindex"} : Go(s, step)
    BY <1>7 DEF StepFails
  <2>4. QED
    BY <2>1, <2>2, <2>3, ConfinedHonest
<1>8. ASSUME NEW s \in Scripts, Kill(s) PROVE Honest'
  <2>1. Honest /\ run[s] # Idle
    BY <1>8, <1>o DEF Kill
  <2>2. Confined(s)
    BY <1>8, <1>h, <2>1, PartialConfined DEF Kill
  <2>3. QED
    BY <1>8, <2>1, <2>2, ConfinedHonest DEF Kill
<1>9. CASE UNCHANGED vars
  BY <1>9, <1>o DEF vars, Honest, RunHonest, CreateHonest, StageHonest, WritesHonest,
     Truth, Readable, Unreviewed, HasNone
<1>10. QED
  BY <1>1, <1>b, <1>2, <1>3, <1>4, <1>5, <1>6, <1>7, <1>8, <1>9 DEF Next

(* One script at a time, every flag of a build's index is true, whatever   *)
(* failed or was killed on the way.                                        *)
THEOREM FlagsAreTrue == Spec => []FlagsTellTruth
<1>1. DiskTyped /\ HonestAlone => FlagsTellTruth
  <2> SUFFICES ASSUME DiskTyped, HonestAlone, ~overlapped, Readable PROVE Truth(index)
    BY DEF FlagsTellTruth, Truth
  <2>1. overlapped \in BOOLEAN
    BY DEF DiskTyped
  <2>2. overlapped = FALSE
    BY <2>1, Zenon
  <2>3. QED
    BY <2>2 DEF HonestAlone, Honest
<1>2. DiskTyped /\ RunsTyped /\ HonestAlone /\ [Next]_vars => HonestAlone'
  BY NextHonest
<1>3. QED
  BY <1>1, <1>2, InitTyped, NextTyped, InitHonest, PTL DEF Spec

(* One script at a time, a build whose checks failed is never marked as    *)
(* tested or reviewed, and never gets an install package.                  *)
THEOREM FailureIsFinal == Spec => []FailedStaysOut
<1>1. DiskTyped /\ OrderKept /\ HonestAlone => FailedStaysOut
  <2> SUFFICES ASSUME DiskTyped, OrderKept, HonestAlone, ~overlapped, disk["results"] = "failed"
               PROVE  /\ Readable => index \cap {"tested", "reviewed"} = {}
                      /\ disk["manifest"] = "absent" /\ disk["checklist"] = "absent"
    BY DEF FailedStaysOut
  <2>1. overlapped \in BOOLEAN
    BY DEF DiskTyped
  <2>2. overlapped = FALSE
    BY <2>1, Zenon
  <2>3. Honest
    BY <2>2 DEF HonestAlone
  <2>4. Unreviewed
    BY <2>3 DEF Honest
  <2>5. Readable => "tested" \notin index
    BY <2>3 DEF Honest, Truth
  <2>6. Readable => index \in Ordered
    BY DEF OrderKept, Readable
  <2>7. QED
    BY <2>4, <2>5, <2>6 DEF Unreviewed, Ordered
<1>2. DiskTyped /\ RunsTyped /\ OrderKept /\ [Next]_vars => OrderKept'
  BY NextOrder
<1>3. DiskTyped /\ RunsTyped /\ HonestAlone /\ [Next]_vars => HonestAlone'
  BY NextHonest
<1>4. QED
  BY <1>1, <1>2, <1>3, InitTyped, NextTyped, InitOrder, InitHonest, PTL DEF Spec
-----------------------------------------------------------------------------
(* One run at a time, none killed, one failing step at most: a folder that *)
(* no run is at work on is either gone, or has an index that parses, the   *)
(* files create makes, and no output of a stage whose flag is missing      *)
(* except those of a failed test.                                          *)
OneFault == overlapped = FALSE /\ kills = MaxKills /\ faults >= MaxFaults - 1

Later == {"generate", "test", "review"}
Base  == Has({"folder", "source", "dirs"})
Unmade(stage) == HasNone(OwnOutputs(stage))
Rest(flags, stages) ==
  \A g \in stages : Marks(g) \subseteq flags \/ Unmade(g) \/ (g = "test" /\ disk["results"] = "failed")
Settled == disk["folder"] = "absent" \/ (Readable /\ Base /\ Rest(index, Later))

(* What a run in the middle of its work still owes for that.               *)
CreateOwes(s) ==
  /\ run[s].at \in {"write", "erase"}
  /\ run[s].at = "write" =>
       /\ run[s].todo[1] = "folder" \/ disk["folder"] # "absent"
       /\ \A f \in {"folder", "source", "dirs"} : f \in ToSet(run[s].todo) \/ disk[f] # "absent"
       /\ "index" \in ToSet(run[s].todo) \/ index = {}

StageOwes(s) ==
  /\ Base /\ Rest(run[s].saved, Later \ {run[s].stage})
  /\ run[s].at \in {"keep", "write"} =>
       /\ index = run[s].saved
       /\ run[s].verdict = "passed" => "index" \in ToSet(run[s].todo)
       /\ run[s].verdict = "failed" => run[s].stage = "test"
  /\ run[s].at \in {"keep", "reindex"} => Unmade(run[s].stage)

Owes(s) ==
  /\ run[s].at \notin {"keep", "write"} => faults < MaxFaults
  /\ run[s].stage = "create" => CreateOwes(s)
  /\ run[s].stage # "create" => StageOwes(s)

Recovers ==
  OneFault => /\ (\A s \in Scripts : run[s] = Idle) => Settled
              /\ \A s \in Scripts : run[s] # Idle => Owes(s)

LEMMA ListSplit ==
  ASSUME NEW S, NEW q \in Seq(S), q # <<>>
  PROVE  /\ ToSet(q) = ToSet(Tail(q)) \cup {q[1]}
         /\ Len(q) = 1 => ToSet(q) = {q[1]}
<1>1. /\ Len(q) \in Nat \ {0} /\ Len(Tail(q)) = Len(q) - 1 /\ DOMAIN Tail(q) = 1..(Len(q) - 1)
      /\ DOMAIN q = 1..Len(q) /\ \A i \in 1..(Len(q) - 1) : Tail(q)[i] = q[i + 1]
  BY EmptySeq, HeadTailProperties, LenProperties
<1>2. ASSUME NEW x \in ToSet(q), x # q[1] PROVE x \in ToSet(Tail(q))
  <2>1. PICK i \in 1..Len(q) : x = q[i]
    BY <1>1, <1>2 DEF ToSet
  <2>2. i - 1 \in 1..(Len(q) - 1) /\ Tail(q)[i - 1] = x
    BY <1>1, <1>2, <2>1
  <2>3. QED
    BY <1>1, <2>2 DEF ToSet
<1>3. ASSUME NEW x \in ToSet(Tail(q)) PROVE x \in ToSet(q)
  <2>1. PICK i \in 1..(Len(q) - 1) : x = q[i + 1]
    BY <1>1, <1>3 DEF ToSet
  <2>2. QED
    BY <1>1, <2>1 DEF ToSet
<1>4. q[1] \in ToSet(q)
  BY <1>1 DEF ToSet
<1>5. ASSUME Len(q) = 1, NEW x \in ToSet(q) PROVE x = q[1]
  BY <1>1, <1>5 DEF ToSet
<1>6. QED
  BY <1>2, <1>3, <1>4, <1>5

(* The outputs of the stages after create are different files, and none of *)
(* them is one create makes.                                               *)
LEMMA StagesApart ==
  ASSUME NEW g \in Later
  PROVE  /\ OwnOutputs(g) \subseteq Late /\ OwnOutputs(g) \subseteq Files
         /\ OwnOutputs(g) \cap {"folder", "source", "dirs"} = {}
         /\ \A h \in Later \ {g} : OwnOutputs(g) \cap OwnOutputs(h) = {}
  BY OwnOutputsAre DEF Later, Late

(* A step that touches nothing but outputs of stage g keeps the rest.      *)
LEMMA RestKept ==
  ASSUME NEW g \in Later, NEW flags, Rest(flags, Later \ {g}), Base,
         \A f \in Files \ OwnOutputs(g) : disk'[f] = disk[f]
  PROVE  Base' /\ \A x : x = flags => Rest(x, Later \ {g})'
<1>1. Base'
  BY StagesApart DEF Base, Has
<1>2. \A h \in Later \ {g} : \A f \in OwnOutputs(h) : disk'[f] = disk[f]
  BY StagesApart
<1>3. g # "test" => disk'["results"] = disk["results"]
  BY <1>2, OwnOutputsAre DEF Later
<1>4. QED
  BY <1>1, <1>2, <1>3 DEF Rest, Unmade, HasNone

LEMMA InitRecovers == Init => Recovers
<1> SUFFICES ASSUME Init PROVE Recovers
  OBVIOUS
<1>1. disk["folder"] = "absent" /\ \A s \in Scripts : run[s] = Idle
  BY DEF Init
<1>2. QED
  BY <1>1 DEF Recovers, Settled

(* One run is at work, and after its step either none or still that one.   *)
LEMMA OnlyOneOwes ==
  ASSUME RunsTyped, Honest, NEW s \in Scripts, run[s] # Idle,
         \/ Quit(s) /\ Settled'
         \/ (\A t \in Scripts \ {s} : run'[t] = run[t]) /\ run'[s] # Idle /\ Owes(s)'
  PROVE  Recovers'
<1>1. \A t \in Scripts \ {s} : run[t] = Idle
  BY DEF Honest
<1>2. CASE Quit(s) /\ Settled'
  <2>1. \A t \in Scripts : run'[t] = Idle
    BY <1>1, <1>2 DEF Quit, RunsTyped
  <2>2. QED
    BY <1>2, <2>1 DEF Recovers
<1>3. CASE (\A t \in Scripts \ {s} : run'[t] = run[t]) /\ run'[s] # Idle /\ Owes(s)'
  BY <1>1, <1>3 DEF Recovers
<1>4. QED
  BY <1>2, <1>3

LEMMA BeginRecovers ==
  ASSUME DiskTyped, RunsTyped, OrderKept, Settled, NEW s \in Scripts, NEW stage \in Stages,
         Begin(s, stage), \A t \in Scripts : run[t] = Idle
  PROVE  Recovers'
<1>1. UNCHANGED <<disk, index>>
  BY DEF Begin
<1>2. PICK v \in Verdicts(stage) :
        run' = [run EXCEPT ![s] = [at |-> FirstStep(stage), stage |-> stage,
                                   todo |-> Todo(stage, v), verdict |-> v,
                                   saved |-> index, backup |-> index]]
  BY DEF Begin
<1>3. /\ run'[s].at = FirstStep(stage) /\ run'[s].stage = stage /\ run'[s].todo = Todo(stage, v)
      /\ run'[s].verdict = v /\ run'[s].saved = index /\ run'[s].backup = index
      /\ \A t \in Scripts \ {s} : run'[t] = Idle
  BY <1>2 DEF RunsTyped
<1>4. CASE stage = "create"
  <2>1. v = "passed"
    BY <1>4 DEF Verdicts
  <2>2. Todo(stage, v) = <<"folder", "source", "dirs", "index", "notes">>
    BY <1>4, <2>1 DEF Todo, Outputs
  <2>3. ASSUME NEW a, NEW b, NEW c, NEW d, NEW e
        PROVE  ToSet(<<a, b, c, d, e>>) = {a, b, c, d, e} /\ <<a, b, c, d, e>>[1] = a
    BY DEF ToSet
  <2>4. CreateOwes(s)'
    BY <1>3, <1>4, <2>2, <2>3 DEF CreateOwes, FirstStep
  <2>5. QED
    BY <1>3, <1>4, <2>4, IdleTyped DEF Recovers, Owes, FirstStep
<1>5. CASE stage # "create"
  <2>1. Readable
    BY <1>5 DEF Begin, Gate, GateGenerate, GateTest, GateReview
  <2>2. Base /\ Rest(index, Later)
    BY <2>1 DEF Settled, DiskTyped, Readable
  <2>3. v = "passed" => "index" \in ToSet(Todo(stage, v))
    <3>1. ASSUME NEW a, NEW b, NEW c PROVE ToSet(<<a, b, c>>) = {a, b, c}
      BY DEF ToSet
    <3>2. QED
      BY <1>5, <3>1 DEF Todo, Outputs
  <2>4. v = "failed" => stage = "test"
    BY DEF Verdicts
  <2>a. Unmade(stage)
    BY <1>5 DEF Begin, Gate, GateGenerate, GateTest, GateReview, Unmade
  <2>5. StageOwes(s)'
    BY <1>1, <1>3, <2>2, <2>3, <2>4, <2>a DEF StageOwes, Base, Has, Rest, Unmade, HasNone
  <2>6. QED
    BY <1>3, <1>5, <2>5, IdleTyped DEF Recovers, Owes, FirstStep
<1>6. QED
  BY <1>4, <1>5

(* What is known of the run at work.                                       *)
LEMMA AtWork ==
  ASSUME RunsTyped, Honest, NEW s \in Scripts, run[s] # Idle
  PROVE  /\ run \in [Scripts -> Runs] /\ run[s].stage \in Stages
         /\ run[s].stage # "create" => run[s].stage \in Later
         /\ run[s].verdict \in {"passed", "failed"}
         /\ run[s].at \in {"keep", "write", "erase", "reindex"}
         /\ run[s].stage = "create" => CreateHonest(s)
         /\ run[s].stage # "create" => StageHonest(s)
         /\ run[s].stage # "create" /\ run[s].at \in {"keep", "write"} => WritesHonest(s)
  BY DEF RunsTyped, Runs, Later, Honest, RunHonest

(* The catch block is entered, or goes on.                                 *)
LEMMA GoOwes ==
  ASSUME RunsTyped, Honest, NEW s \in Scripts, run[s] # Idle, Owes(s),
         NEW step \in {"erase", "reindex"}, Go(s, step), faults' < MaxFaults,
         run[s].stage = "create" => step = "erase",
         run[s].stage # "create" =>
           /\ \A f \in Files \ OwnOutputs(run[s].stage) : disk'[f] = disk[f]
           /\ step = "reindex" => \A f \in OwnOutputs(run[s].stage) : disk'[f] = "absent"
  PROVE  Recovers'
<1>1. /\ run'[s].at = step /\ run'[s].stage = run[s].stage /\ run'[s].saved = run[s].saved
      /\ \A t \in Scripts \ {s} : run'[t] = run[t]
  BY AtWork DEF Go, Runs
<1>2. CASE run[s].stage = "create"
  <2>1. CreateOwes(s)'
    BY <1>1, <1>2 DEF CreateOwes
  <2>2. Owes(s)' /\ run'[s] # Idle
    BY <1>1, <1>2, <2>1, IdleTyped DEF Owes
  <2>3. QED
    BY <1>1, <2>2, OnlyOneOwes
<1>3. CASE run[s].stage # "create"
  <2>1. PICK g, sv : g = run[s].stage /\ sv = run[s].saved
    OBVIOUS
  <2>2. g \in Later /\ Rest(sv, Later \ {g}) /\ Base
    BY <1>3, <2>1, AtWork DEF Owes, StageOwes
  <2>a. \A f \in Files \ OwnOutputs(g) : disk'[f] = disk[f]
    BY <1>3, <2>1
  <2>b. Base' /\ Rest(sv, Later \ {g})'
    BY <2>2, <2>a, RestKept
  <2>c. step = "reindex" => Unmade(g)'
    BY <1>3, <2>1 DEF Unmade, HasNone
  <2>3. StageOwes(s)'
    BY <1>1, <2>1, <2>b, <2>c DEF StageOwes, Rest, Unmade, HasNone
  <2>4. Owes(s)' /\ run'[s] # Idle
    BY <1>1, <1>3, <2>3, IdleTyped DEF Owes
  <2>5. QED
    BY <1>1, <2>4, OnlyOneOwes
<1>4. QED
  BY <1>2, <1>3

(* A write of a create.                                                    *)
LEMMA CreateWrites ==
  ASSUME DiskTyped, RunsTyped, Honest, NEW s \in Scripts, run[s] # Idle, run[s].stage = "create",
         run[s].at = "write", Owes(s), Advance(s),
         disk' \in [Files -> Content], HasNone(Late)', disk'["folder"] # "absent",
         \A f \in Files : disk[f] # "absent" => disk'[f] # "absent",
         NextFile(s) # "index" => disk'[NextFile(s)] # "absent" /\ UNCHANGED index,
         NextFile(s) = "index" => index' = {}
  PROVE  Recovers'
<1> DEFINE q == run[s].todo
<1>1. /\ q \in Seq(Files \cup {"index"}) /\ q # <<>> /\ NextFile(s) = q[1]
      /\ run \in [Scripts -> Runs]
  BY AtWork, NextInList, EmptySeq DEF At, RunsTyped
<1>2. ToSet(q) = ToSet(Tail(q)) \cup {q[1]} /\ (Len(q) = 1 => ToSet(q) = {q[1]})
  <2> HIDE DEF q
  <2> QED
    BY <1>1, ListSplit
<1>3. /\ \A f \in {"folder", "source", "dirs"} : f \in ToSet(q) \/ disk[f] # "absent"
      /\ "index" \in ToSet(q) \/ index = {}
  BY DEF Owes, CreateOwes
<1>4. CASE Quit(s)
  <2>1. CASE Len(q) = 1
    <3>1. Has({"folder", "source", "dirs"})'
      BY <1>1, <1>2, <1>3, <2>1 DEF Has
    <3>2. index' = {}
      BY <1>1, <1>2, <1>3, <2>1
    <3>3. Rest(index, Later)'
      BY OwnOutputsAre DEF Rest, Unmade, HasNone, Late, Later
    <3>4. Readable'
      BY <3>2, BuildAssumption DEF Readable
    <3>5. QED
      BY <1>4, <3>1, <3>3, <3>4, OnlyOneOwes DEF Settled, Base
  <2>2. CASE Len(q) # 1
    <3>1. run'[s] = Idle /\ run'[s] = [run[s] EXCEPT !.todo = Tail(q)]
      BY <1>1, <1>4, <2>2 DEF Advance, Quit
    <3>2. run'[s].at = "write"
      BY <1>1, <3>1 DEF Runs
    <3>3. QED
      BY <3>1, <3>2, IdleTyped
  <2>3. QED
    BY <2>1, <2>2
<1>5. CASE run' = [run EXCEPT ![s].todo = Tail(@)]
  <2>1. /\ run'[s].at = "write" /\ run'[s].stage = "create" /\ run'[s].todo = Tail(q)
        /\ \A t \in Scripts \ {s} : run'[t] = run[t]
    BY <1>1, <1>5 DEF Runs
  <2>2. /\ \A f \in {"folder", "source", "dirs"} : f \in ToSet(Tail(q)) \/ disk'[f] # "absent"
        /\ "index" \in ToSet(Tail(q)) \/ index' = {}
    BY <1>1, <1>2, <1>3
  <2>3. CreateOwes(s)'
    BY <2>1, <2>2 DEF CreateOwes
  <2>4. Owes(s)' /\ run'[s] # Idle
    BY <2>1, <2>3, IdleTyped DEF Owes
  <2>5. QED
    BY <2>1, <2>4, OnlyOneOwes
<1>6. QED
  BY <1>4, <1>5 DEF Advance

(* A write of another stage that is not the last one, or the last one of a *)
(* test that failed.                                                       *)
LEMMA StageWrites ==
  ASSUME DiskTyped, RunsTyped, Honest, NEW s \in Scripts, run[s].stage # "create",
         Owes(s), WriteFile(s)
  PROVE  Recovers'
<1> DEFINE q == run[s].todo
<1>a. run[s] # Idle /\ run[s].at = "write" /\ NextFile(s) # "index" /\ UNCHANGED index
  BY IdleTyped DEF WriteFile, At
<1>1. /\ q \in Seq(Files \cup {"index"}) /\ q # <<>> /\ NextFile(s) = q[1] /\ q[1] \in ToSet(q)
      /\ run \in [Scripts -> Runs] /\ StageOwes(s) /\ WritesHonest(s)
  BY <1>a, AtWork, NextInList, EmptySeq DEF At, RunsTyped, Owes
<1>2. ToSet(q) = ToSet(Tail(q)) \cup {q[1]} /\ (Len(q) = 1 => ToSet(q) = {q[1]})
  <2> HIDE DEF q
  <2> QED
    BY <1>1, ListSplit
<1>3. PICK g, sv : g = run[s].stage /\ sv = run[s].saved
  OBVIOUS
<1>4. g \in Later /\ Rest(sv, Later \ {g}) /\ Base /\ index = sv
  BY <1>a, <1>1, <1>3, AtWork DEF StageOwes
<1>5. q[1] \in OwnOutputs(g) /\ q[1] \in Files /\ q[1] # "folder" /\ q[1] # "dirs"
  <2>1. q[1] \in OwnOutputs(g)
    BY <1>a, <1>1, <1>3 DEF WritesHonest
  <2>2. QED
    BY <2>1, <1>4, StagesApart
<1>6. /\ \A f \in Files \ OwnOutputs(g) : disk'[f] = disk[f]
      /\ disk'[q[1]] = IF q[1] = "results" THEN run[s].verdict ELSE "whole"
      /\ \A f \in Files \ {q[1]} : disk'[f] = disk[f]
  BY <1>1, <1>5 DEF WriteFile, Filled, DiskTyped
<1>7. Base' /\ Rest(sv, Later \ {g})'
  BY <1>4, <1>6, RestKept
<1>8. CASE Len(q) = 1
  <2>1. Quit(s)
    BY <1>8 DEF WriteFile, Advance
  <2>2. run[s].verdict # "passed"
    BY <1>a, <1>1, <1>2, <1>8 DEF StageOwes
  <2>3. g = "test" /\ run[s].verdict = "failed"
    BY <1>a, <1>1, <1>3, <2>2, AtWork DEF StageOwes
  <2>4. "results" \in OwnOutputs(g)
    BY <2>3, OwnOutputsAre
  <2>5. disk'["results"] = "failed"
    <3>1. CASE q[1] = "results"
      BY <1>6, <2>3, <3>1
    <3>2. CASE q[1] # "results"
      BY <1>1, <1>2, <1>3, <1>6, <1>8, <2>3, <2>4, <3>2 DEF WritesHonest
    <3>3. QED
      BY <3>1, <3>2
  <2>6. Rest(sv, Later)'
    BY <1>7, <2>3, <2>5 DEF Rest
  <2>7. Rest(index, Later)'
    BY <1>a, <1>4, <2>6 DEF Rest, Unmade, HasNone
  <2>8. Readable'
    <3>1. sv \in SUBSET Flags
      BY <1>1, <1>3 DEF RunsTyped, Runs
    <3>2. QED
      BY <1>a, <1>4, <3>1, BuildAssumption DEF Readable
  <2>9. QED
    BY <1>a, <1>7, <2>1, <2>7, <2>8, OnlyOneOwes DEF Settled
<1>9. CASE Len(q) # 1
  <2>1. run' = [run EXCEPT ![s].todo = Tail(q)]
    BY <1>9 DEF WriteFile, Advance
  <2>2. /\ run'[s].at = "write" /\ run'[s].stage = g /\ run'[s].todo = Tail(q)
        /\ run'[s].saved = sv /\ run'[s].verdict = run[s].verdict
        /\ \A t \in Scripts \ {s} : run'[t] = run[t]
    BY <1>a, <1>1, <1>3, <2>1 DEF Runs
  <2>3. /\ run[s].verdict = "passed" => "index" \in ToSet(Tail(q))
        /\ run[s].verdict = "failed" => g = "test"
    BY <1>a, <1>1, <1>2, <1>3 DEF StageOwes
  <2>4. StageOwes(s)'
    BY <1>a, <1>4, <1>7, <2>2, <2>3 DEF StageOwes, Rest, Unmade, HasNone
  <2>5. Owes(s)' /\ run'[s] # Idle
    BY <1>3, <2>2, <2>4, IdleTyped DEF Owes
  <2>6. QED
    BY <1>a, <2>2, <2>5, OnlyOneOwes
<1>10. QED
  BY <1>8, <1>9

(* The index of a stage that made all its files: the run is over.          *)
LEMMA StageMarks ==
  ASSUME DiskTyped, RunsTyped, Honest, NEW s \in Scripts, run[s].stage # "create",
         Owes(s), WriteIndex(s)
  PROVE  Recovers'
<1> DEFINE q == run[s].todo
<1>a. run[s] # Idle /\ run[s].at = "write" /\ NextFile(s) = "index" /\ UNCHANGED disk
  BY IdleTyped DEF WriteIndex, At
<1>1. /\ Len(q) \in Nat \ {0} /\ q[1] = "index"
      /\ StageOwes(s) /\ WritesHonest(s)
      /\ run[s].saved \in SUBSET Flags /\ run[s].stage \in Later
  <2>1. Len(q) \in Nat \ {0} /\ q[1] = "index"
    BY <1>a, NextInList DEF At
  <2>2. run[s].saved \in SUBSET Flags
    BY DEF RunsTyped, Runs
  <2>3. QED
    BY <1>a, <2>1, <2>2, AtWork DEF Owes
<1>2. Len(q) = 1
  <2>1. \A i \in 1..Len(q) : q[i] = "index" => i = Len(q)
    BY <1>1 DEF WritesHonest
  <2>2. 1 \in 1..Len(q)
    BY <1>1
  <2>3. QED
    BY <1>1, <2>1, <2>2
<1>3. Quit(s)
  BY <1>2 DEF WriteIndex, Advance
<1>4. index' = run[s].saved \cup Marks(run[s].stage)
  BY <1>1, BuildAssumption DEF WriteIndex, NewIndex
<1>5. PICK g, sv : g = run[s].stage /\ sv = run[s].saved
  OBVIOUS
<1>6. index' = sv \cup Marks(g) /\ index' \in SUBSET Flags /\ g \in Later
  <2>1. g \in Later /\ sv \in SUBSET Flags /\ index' = sv \cup Marks(g)
    BY <1>1, <1>4, <1>5
  <2>2. Marks(g) \in SUBSET Flags
    BY <2>1 DEF Marks, Later
  <2>3. QED
    BY <2>1, <2>2
<1>7. Readable'
  BY <1>6, BuildAssumption DEF Readable
<1>8. Rest(sv, Later \ {g}) /\ Base
  BY <1>1, <1>5 DEF StageOwes
<1>9. Rest(index, Later)'
  BY <1>a, <1>6, <1>8 DEF Rest, Unmade, HasNone
<1>10. QED
  BY <1>a, <1>3, <1>7, <1>8, <1>9, OnlyOneOwes DEF Settled, Base, Has

(* The second read of the index succeeds and leaves everything as it is.   *)
LEMMA KeepRecovers ==
  ASSUME DiskTyped, RunsTyped, Honest, NEW s \in Scripts, Owes(s), Keep(s)
  PROVE  Recovers'
<1>1. /\ run[s] # Idle /\ run[s].at = "keep" /\ UNCHANGED <<disk, index>>
      /\ run \in [Scripts -> Runs] /\ run[s].stage # "create" /\ StageOwes(s)
      /\ index = run[s].saved
  BY IdleTyped DEF Keep, At, RunsTyped, Owes, CreateOwes, StageOwes
<1>2. index # Missing
  BY <1>1 DEF RunsTyped
<1>3. run' = [run EXCEPT ![s].at = "write", ![s].backup = index]
  BY <1>2 DEF Keep
<1>4. /\ run'[s].stage = run[s].stage /\ run'[s].saved = run[s].saved
      /\ run'[s].todo = run[s].todo /\ run'[s].verdict = run[s].verdict
      /\ run'[s].at = "write" /\ \A t \in Scripts \ {s} : run'[t] = run[t]
  BY <1>1, <1>3 DEF Runs
<1>5. StageOwes(s)'
  BY <1>1, <1>4 DEF StageOwes, Base, Has, Rest, Unmade, HasNone
<1>6. Owes(s)' /\ run'[s] # Idle
  BY <1>1, <1>4, <1>5, IdleTyped DEF Owes
<1>7. QED
  BY <1>1, <1>4, <1>6, OnlyOneOwes

(* A read that fails ends a run that has not written anything.             *)
LEMMA KeepFails ==
  ASSUME DiskTyped, RunsTyped, Honest, NEW s \in Scripts, run[s] # Idle, Owes(s),
         run[s].at = "keep", UNCHANGED <<disk, index>>, Quit(s)
  PROVE  Recovers'
<1>1. /\ run[s].stage \in Later /\ run[s].saved \in SUBSET Flags /\ StageOwes(s)
      /\ index = run[s].saved
  BY AtWork DEF Owes, CreateOwes, StageOwes, RunsTyped, Runs
<1>2. PICK g : g = run[s].stage
  OBVIOUS
<1>3. Base /\ Rest(index, Later \ {g}) /\ Unmade(g) /\ g \in Later
  BY <1>1, <1>2 DEF StageOwes
<1>4. Rest(index, Later)'
  BY <1>3 DEF Rest, Unmade, HasNone
<1>5. Readable'
  BY <1>1, BuildAssumption DEF Readable
<1>6. QED
  BY <1>3, <1>4, <1>5, OnlyOneOwes DEF Settled, Base, Has

LEMMA NextRecovers ==
  ASSUME DiskTyped, RunsTyped, OrderKept, HonestAlone, Recovers, [Next]_vars
  PROVE  Recovers'
<1> SUFFICES ASSUME OneFault' PROVE Recovers'
  BY DEF Recovers
<1>n. faults \in Nat /\ kills \in Nat /\ MaxFaults \in Nat /\ faults <= MaxFaults /\ kills <= MaxKills
  BY BuildAssumption DEF DiskTyped
(* A run is at work, and the budgets are as before.                        *)
<1>o. ASSUME UNCHANGED overlapped, kills' <= kills, faults' <= faults, MaxKills \in Nat,
             kills' \in Nat, faults' \in Nat
      PROVE  OneFault /\ Honest /\ kills' = kills
  BY <1>n, <1>o DEF OneFault, HonestAlone
<1>k. ASSUME UNCHANGED <<faults, kills, overlapped>>, NEW s \in Scripts, run[s] # Idle
      PROVE  Honest /\ Owes(s) /\ UNCHANGED <<faults, kills>>
  BY <1>k, <1>o, <1>n, BuildAssumption DEF Recovers
<1>1. ASSUME NEW s \in Scripts, NEW stage \in Stages, Begin(s, stage) PROVE Recovers'
  <2>1. overlapped = FALSE /\ \A t \in Scripts : run[t] = Idle
    <3>1. overlapped \in BOOLEAN
      BY DEF DiskTyped
    <3>2. overlapped' = (overlapped \/ \E t \in Scripts : run[t] # Idle) /\ overlapped' = FALSE
      BY <1>1 DEF Begin, OneFault
    <3>3. QED
      BY <3>1, <3>2, Zenon
  <2>2. OneFault
    BY <1>1, <2>1 DEF Begin, OneFault
  <2>3. QED
    BY <1>1, <2>1, <2>2, BeginRecovers DEF Recovers
<1>b. ASSUME NEW s \in Scripts, Keep(s) PROVE Recovers'
  <2>1. run[s] # Idle /\ Honest /\ Owes(s)
    BY <1>b, <1>k, IdleTyped DEF Keep, At
  <2>2. QED
    BY <1>b, <2>1, KeepRecovers
<1>2. ASSUME NEW s \in Scripts, WriteFile(s) PROVE Recovers'
  <2>1. run[s] # Idle /\ run[s].at = "write" /\ Honest /\ Owes(s) /\ NextFile(s) # "index"
    BY <1>2, <1>k, IdleTyped DEF WriteFile, At
  <2>2. CASE run[s].stage = "create"
    <3>1. /\ CreateHonest(s) /\ NextFile(s) \in ToSet(run[s].todo)
          /\ NextFile(s) \in Files /\ run[s].verdict \in {"passed", "failed"}
      BY <2>1, <2>2, AtWork, NextInList DEF At
    <3>2. /\ disk' \in [Files -> Content] /\ disk'["folder"] # "absent"
      BY <1>2, <3>1, FilledTyped DEF WriteFile
    <3>3. /\ disk'[NextFile(s)] # "absent" /\ \A f \in Files : disk[f] # "absent" => disk'[f] # "absent"
      BY <1>2, <3>1 DEF WriteFile, Filled, DiskTyped
    <3>4. HasNone(Late)'
      BY <1>2, <3>1 DEF WriteFile, Filled, DiskTyped, CreateHonest, HasNone, Late
    <3>5. QED
      BY <1>2, <2>1, <2>2, <3>2, <3>3, <3>4, CreateWrites DEF WriteFile
  <2>3. CASE run[s].stage # "create"
    BY <1>2, <2>1, <2>3, StageWrites
  <2>4. QED
    BY <2>2, <2>3
<1>3. ASSUME NEW s \in Scripts, WriteIndex(s) PROVE Recovers'
  <2>1. run[s] # Idle /\ run[s].at = "write" /\ Honest /\ Owes(s) /\ NextFile(s) = "index"
    BY <1>3, <1>k, IdleTyped DEF WriteIndex, At
  <2>2. CASE run[s].stage = "create"
    <3>1. CreateHonest(s) /\ run[s].saved = Missing
      BY <2>1, <2>2, AtWork DEF RunsTyped
    <3>2. index' = {} /\ UNCHANGED disk /\ disk["folder"] # "absent"
      BY <1>3, <2>2, <3>1 DEF WriteIndex, NewIndex, Marks, HomeThere
    <3>3. disk' \in [Files -> Content] /\ HasNone(Late)'
      BY <3>1, <3>2 DEF CreateHonest, HasNone, DiskTyped
    <3>4. QED
      BY <1>3, <2>1, <2>2, <3>2, <3>3, CreateWrites DEF WriteIndex
  <2>3. CASE run[s].stage # "create"
    BY <1>3, <2>1, <2>3, StageMarks
  <2>4. QED
    BY <2>2, <2>3
(* No directory is missing without another run.                            *)
<1>4. ASSUME NEW s \in Scripts, LoseHome(s) PROVE FALSE
  <2>1. run[s] # Idle /\ run[s].at = "write" /\ Honest /\ Owes(s) /\ ~HomeThere(NextFile(s))
    BY <1>4, <1>k, IdleTyped DEF LoseHome, At
  <2>2. NextFile(s) = run[s].todo[1] /\ NextFile(s) \in ToSet(run[s].todo)
    BY <2>1, NextInList DEF At
  <2>3. CASE run[s].stage = "create"
    <3>1. CreateOwes(s) /\ CreateHonest(s)
      BY <2>1, <2>3, AtWork DEF Owes
    <3>2. NextFile(s) \notin {"candidate", "testplan"}
      BY <2>2, <3>1 DEF CreateHonest, Late
    <3>3. QED
      BY <2>1, <2>2, <3>1, <3>2 DEF CreateOwes, HomeThere
  <2>4. CASE run[s].stage # "create"
    BY <2>1, <2>4 DEF Owes, StageOwes, Base, Has, HomeThere
  <2>5. QED
    BY <2>3, <2>4
<1>5. ASSUME NEW s \in Scripts, Erase(s) PROVE Recovers'
  <2>1. run[s] # Idle /\ run[s].at = "erase" /\ Honest /\ Owes(s) /\ Erased(s, {}) /\ UNCHANGED faults
    BY <1>5, <1>k, IdleTyped DEF Erase, At
  <2>2. CASE run[s].stage = "create"
    <3>1. Quit(s) /\ disk'["folder"] = "absent"
      BY <1>5, <2>1, <2>2 DEF Erase, Erased, Targets
    <3>2. QED
      BY <2>1, <3>1, OnlyOneOwes DEF Settled
  <2>3. CASE run[s].stage # "create"
    <3>1. Go(s, "reindex") /\ faults' < MaxFaults
      BY <1>5, <2>1, <2>3 DEF Erase, Owes
    <3>2. Targets(run[s].stage) = OwnOutputs(run[s].stage) /\ OwnOutputs(run[s].stage) \subseteq Files
      BY <2>1, <2>3, AtWork, StagesApart DEF Targets
    <3>3. /\ \A f \in Files \ OwnOutputs(run[s].stage) : disk'[f] = disk[f]
          /\ \A f \in OwnOutputs(run[s].stage) : disk'[f] = "absent"
      BY <2>1, <3>2 DEF Erased
    <3>4. QED
      BY <2>1, <2>3, <3>1, <3>3, GoOwes
  <2>4. QED
    BY <2>2, <2>3
<1>6. ASSUME NEW s \in Scripts, Reindex(s) PROVE Recovers'
  <2>1. run[s] # Idle /\ run[s].at = "reindex" /\ Honest /\ Owes(s) /\ UNCHANGED disk /\ Quit(s)
    BY <1>6, <1>k, IdleTyped DEF Reindex, At
  <2>2. run[s].stage # "create"
    BY <2>1 DEF Owes, CreateOwes
  <2>3. PICK g, sv : g = run[s].stage /\ sv = run[s].saved
    OBVIOUS
  <2>4. Base /\ Rest(sv, Later \ {g}) /\ Unmade(g) /\ g \in Later /\ sv \in SUBSET Flags
    BY <2>1, <2>2, <2>3, AtWork DEF Owes, StageOwes, RunsTyped, Runs
  <2>5. index' = sv
    <3>1. run[s].backup = sv
      BY <2>1, <2>2, <2>3, AtWork DEF StageHonest
    <3>2. QED
      BY <1>6, <2>4, <3>1 DEF Reindex, HomeThere, Base, Has
  <2>6. Rest(index, Later)'
    BY <2>1, <2>4, <2>5 DEF Rest, Unmade, HasNone
  <2>7. Readable'
    BY <2>4, <2>5, BuildAssumption DEF Readable
  <2>8. QED
    BY <2>1, <2>4, <2>6, <2>7, OnlyOneOwes DEF Settled, Base, Has
(* The only failure: it is not in a catch block.                           *)
<1>7. ASSUME NEW s \in Scripts, StepFails(s) PROVE Recovers'
  <2>1. /\ run[s] # Idle /\ Partial(s) /\ faults' = faults - 1 /\ faults = MaxFaults
        /\ UNCHANGED <<kills, overlapped>>
    BY <1>7, <1>n DEF StepFails, OneFault
  <2>2. Honest /\ Owes(s)
    BY <1>n, <2>1, BuildAssumption DEF OneFault, HonestAlone, Recovers
  <2>a. CASE run[s].at = "keep"
    <3>1. Quit(s) /\ UNCHANGED <<disk, index>>
      BY <1>7, <2>a DEF StepFails, Partial, At
    <3>2. QED
      BY <2>1, <2>2, <2>a, <3>1, KeepFails
  <2>w. CASE run[s].at # "keep"
    <3>3. run[s].at = "write" /\ Go(s, "erase") /\ faults' < MaxFaults
      BY <1>7, <1>n, <2>1, <2>2, <2>w DEF Owes, StepFails, At
    <3>4. run[s].stage # "create" =>
            \A f \in Files \ OwnOutputs(run[s].stage) : disk'[f] = disk[f]
      <4> SUFFICES ASSUME run[s].stage # "create"
                   PROVE  \A f \in Files \ OwnOutputs(run[s].stage) : disk'[f] = disk[f]
        OBVIOUS
      <4>1. UNCHANGED disk \/ (NextFile(s) # "index" /\ Filled(s, NextFile(s), "torn"))
        <5>1. CASE NextFile(s) = "index"
          BY <2>1, <3>3, <5>1 DEF Partial, At
        <5>2. CASE NextFile(s) # "index"
          BY <2>1, <3>3, <5>2 DEF Partial, At
        <5>3. QED
          BY <5>1, <5>2
      <4>2. NextFile(s) # "index" => NextFile(s) \in OwnOutputs(run[s].stage)
        BY <2>1, <2>2, <3>3, AtWork, NextInList DEF WritesHonest, At
      <4>3. OwnOutputs(run[s].stage) \cap {"folder", "source", "dirs"} = {}
        BY <2>1, <2>2, AtWork, StagesApart
      <4>4. QED
        BY <4>1, <4>2, <4>3 DEF Filled, DiskTyped
    <3>5. QED
      BY <2>1, <2>2, <3>3, <3>4, GoOwes
  <2>q. QED
    BY <2>a, <2>w
<1>8. ASSUME NEW s \in Scripts, Kill(s) PROVE FALSE
  BY <1>8, <1>n, BuildAssumption DEF Kill, OneFault
<1>9. CASE UNCHANGED vars
  BY <1>9 DEF vars, Recovers, OneFault, Settled, Owes, CreateOwes, StageOwes, Readable,
     Base, Rest, Unmade, Has, HasNone
<1>10. QED
  BY <1>1, <1>b, <1>2, <1>3, <1>4, <1>5, <1>6, <1>7, <1>8, <1>9 DEF Next

(* One script at a time, none killed: one failing step anywhere, whose     *)
(* catch block then goes through, never leaves a folder that no script     *)
(* accepts, other than a finished one or one whose checks failed.          *)
THEOREM OneFaultIsRecovered == Spec => []NeverStuck
<1>1. DiskTyped /\ OrderKept /\ HonestAlone /\ Recovers => NeverStuck
  <2> SUFFICES ASSUME DiskTyped, OrderKept, HonestAlone, Recovers,
                      ~overlapped, kills = MaxKills, faults >= MaxFaults - 1,
                      \A s \in Scripts : run[s] = Idle,
                      disk["results"] # "failed", ~(Readable /\ "reviewed" \in index)
               PROVE  \E stage \in Stages : Gate(stage)
    BY DEF NeverStuck
  <2>1. overlapped \in BOOLEAN
    BY DEF DiskTyped
  <2>2. overlapped = FALSE
    BY <2>1, Zenon
  <2>3. Settled /\ (Readable => Truth(index))
    BY <2>2 DEF HonestAlone, Honest, Recovers, OneFault
  <2>4. CASE disk["folder"] = "absent"
    BY <2>4 DEF Gate, GateCreate
  <2>5. CASE disk["folder"] # "absent"
    <3>1. Readable /\ Base /\ Rest(index, Later) /\ Truth(index)
      BY <2>3, <2>5 DEF Settled
    <3>2. index \in Ordered
      BY <3>1 DEF OrderKept, Readable
    <3>3. CASE index = {}
      <4>1. Unmade("generate")
        BY <3>1, <3>3 DEF Rest, Later, Marks
      <4>2. GateGenerate
        BY <3>1, <4>1 DEF GateGenerate, Base, Has, Unmade
      <4>3. QED
        BY <4>2 DEF Gate
    <3>4. CASE index = {"generated"}
      <4>1. Unmade("test")
        BY <3>1, <3>4 DEF Rest, Later, Marks
      <4>2. GateTest
        BY <3>1, <3>4, <4>1, OwnOutputsAre DEF GateTest, Truth, Has, Unmade
      <4>3. QED
        BY <4>2 DEF Gate
    <3>5. CASE index = {"generated", "tested"}
      <4>1. Unmade("review")
        BY <3>1, <3>5 DEF Rest, Later, Marks
      <4>2. GateReview
        BY <3>1, <3>5, <4>1, OwnOutputsAre DEF GateReview, Truth, Base, Has, Unmade
      <4>3. QED
        BY <4>2 DEF Gate
    <3>6. QED
      BY <3>1, <3>2, <3>3, <3>4, <3>5 DEF Ordered
  <2>6. QED
    BY <2>4, <2>5
<1>2. DiskTyped /\ RunsTyped /\ OrderKept /\ [Next]_vars => OrderKept'
  BY NextOrder
<1>3. DiskTyped /\ RunsTyped /\ HonestAlone /\ [Next]_vars => HonestAlone'
  BY NextHonest
<1>4. DiskTyped /\ RunsTyped /\ OrderKept /\ HonestAlone /\ Recovers /\ [Next]_vars => Recovers'
  BY NextRecovers
<1>5. QED
  BY <1>1, <1>2, <1>3, <1>4, InitTyped, NextTyped, InitOrder, InitHonest, InitRecovers, PTL DEF Spec
=============================================================================
