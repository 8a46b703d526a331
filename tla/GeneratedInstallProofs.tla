------------------------- MODULE GeneratedInstallProofs ------------------------
(***************************************************************************)
(* Proofs about GeneratedInstall, for any tools, builds, runs side by      *)
(* side, and any budget of faults and kills.                               *)
(***************************************************************************)
EXTENDS GeneratedInstall, ToolRegistryProofs

(* What a reader of the registry file may find: a list without duplicates, *)
(* or a file that was cut short.                                           *)
Clean(f) == f # Torn => f \in Seq(Names) /\ IsInjective(f)

Runs == [at : Steps \cup {"idle"}, build : Builds \cup {None},
         backup : Seq(Names) \cup {Torn}]

(* No file, and no copy that may become the file, has duplicates; a run    *)
(* that has passed its checks appends a tool its own copy does not have.   *)
CopiesClean ==
  /\ Clean(file)
  /\ tmp = Missing \/ Clean(tmp)
  /\ run \in [Scripts -> Runs]
  /\ \A s \in Scripts :
       /\ Clean(run[s].backup)
       /\ run[s] = Idle \/ run[s].at # "idle"
       /\ run[s].at # "idle" => run[s].build \in Builds
       /\ run[s].at = "stage" =>
            run[s].backup # Torn /\ ToolOf(s) \notin ToSet(run[s].backup)

LEMMA AppendIsInjective ==
  ASSUME NEW f \in Seq(Names), NEW n \in Names, IsInjective(f), n \notin ToSet(f)
  PROVE  Append(f, n) \in Seq(Names) /\ IsInjective(Append(f, n))
<1> DEFINE g == Append(f, n)
<1>1. g \in Seq(Names) /\ DOMAIN g = 1..(Len(f) + 1) /\ DOMAIN f = 1..Len(f)
  OBVIOUS
<1>2. \A i \in 1..Len(f) : g[i] = f[i] /\ f[i] # n
  BY DEF ToSet
<1>3. g[Len(f) + 1] = n
  OBVIOUS
<1>4. Len(f) \in Nat
  OBVIOUS
<1>5. IsInjective(g)
  <2> HIDE DEF g
  <2> SUFFICES ASSUME NEW a \in DOMAIN g, NEW b \in DOMAIN g, g[a] = g[b] PROVE a = b
    BY DEF IsInjective
  <2>1. CASE a \in 1..Len(f) /\ b \in 1..Len(f)
    BY <1>1, <1>2, <2>1 DEF IsInjective
  <2>2. CASE ~(a \in 1..Len(f) /\ b \in 1..Len(f))
    BY <1>1, <1>2, <1>3, <1>4, <2>2
  <2>3. QED
    BY <2>1, <2>2
<1>6. QED
  BY <1>1, <1>5

LEMMA InitClean == InitAll => CopiesClean
<1> SUFFICES ASSUME InitAll PROVE CopiesClean
  OBVIOUS
<1>1. <<>> \in Seq(Names) /\ IsInjective(<<>>)
  BY DEF IsInjective
<1>2. QED
  BY <1>1, RegistryAssumption DEF InitAll, Init, CopiesClean, Clean, Runs, Idle

LEMMA NextClean == CopiesClean /\ [Next]_vars => CopiesClean'
<1> SUFFICES ASSUME CopiesClean, [Next]_vars PROVE CopiesClean'
  OBVIOUS
<1> USE DEF CopiesClean, Clean, ToolOf, Build, At
<1>i. Idle \in Runs /\ Idle.at = "idle" /\ Clean(Idle.backup)
  <2>1. <<>> \in Seq(Names) /\ IsInjective(<<>>)
    BY DEF IsInjective
  <2>2. QED
    BY <2>1 DEF Idle, Runs
<1>q. ASSUME NEW s \in Scripts, Quit(s), Clean(file'), tmp' = Missing \/ Clean(tmp')
      PROVE  CopiesClean'
  BY <1>i, <1>q DEF Quit
<1>g. ASSUME NEW s \in Scripts, NEW step \in Steps \ {"stage"}, Go(s, step), run[s].at # "idle",
             Clean(file'), tmp' = Missing \/ Clean(tmp')
      PROVE  CopiesClean'
  BY <1>g DEF Go, Runs, Steps
<1>1. CASE Gateway /\ UNCHANGED scriptVars
  <2>1. UNCHANGED <<file, run, tmp>>
    BY <1>1 DEF Gateway, ProposeTool, ApproveTool, InstallTool, RejectTool, SetStatus,
       Restart, scriptVars
  <2>2. QED
    BY <2>1
<1>2. ASSUME NEW s \in Scripts, Forward(s) PROVE CopiesClean'
  <2>1. ASSUME NEW b \in Builds, Begin(s, b) PROVE CopiesClean'
    BY <2>1 DEF Begin, Runs, Steps
  <2>2. CASE Check(s)
    <3>1. CASE run[s].backup = Torn
      BY <2>2, <3>1, <1>g DEF Check, Steps
    <3>2. CASE /\ run[s].backup # Torn
               /\ ToolOf(s) \in ToSet(run[s].backup) \/ Visible(ToolOf(s))
      BY <2>2, <3>2, <1>q DEF Check
    <3>3. CASE /\ run[s].backup # Torn
               /\ ~(ToolOf(s) \in ToSet(run[s].backup) \/ Visible(ToolOf(s)))
      <4>1. /\ Go(s, "stage") /\ run[s].at = "check" /\ UNCHANGED <<file, tmp>>
            /\ run[s].backup # Torn /\ ToolOf(s) \notin ToSet(run[s].backup)
        BY <2>2, <3>3 DEF Check
      <4>2. /\ run' \in [Scripts -> Runs] /\ \A t \in Scripts \ {s} : run'[t] = run[t]
            /\ run'[s].at = "stage" /\ run'[s].build = run[s].build /\ run'[s].backup = run[s].backup
        BY <4>1 DEF Go, Runs, Steps
      <4>3. QED
        BY <4>1, <4>2
    <3>4. QED
      BY <3>1, <3>2, <3>3
  <2>3. CASE Stage(s)
    <3>1. /\ run[s].backup \in Seq(Names) /\ IsInjective(run[s].backup)
          /\ ToolOf(s) \notin ToSet(run[s].backup) /\ ToolOf(s) \in Names
      BY <2>3, InstallAssumption DEF Stage, Runs
    <3>2. Clean(tmp') /\ UNCHANGED file
      BY <2>3, <3>1, AppendIsInjective DEF Stage
    <3>3. QED
      BY <2>3, <3>2, <1>g DEF Stage, Steps
  <2>4. CASE Replace(s)
    BY <2>4, <1>g DEF Replace, Steps
  <2>5. CASE Verify(s)
    BY <2>5, <1>g DEF Verify, Steps
  <2>6. CASE WriteRecord(s)
    BY <2>6, <1>g DEF WriteRecord, Steps
  <2>7. CASE WriteSummary(s)
    BY <2>7, <1>g DEF WriteSummary, Steps
  <2>8. CASE WriteIndex(s)
    BY <2>8, <1>q DEF WriteIndex
  <2>9. QED
    BY <1>2, <2>1, <2>2, <2>3, <2>4, <2>5, <2>6, <2>7, <2>8 DEF Forward
<1>3. ASSUME NEW s \in Scripts, Back(s) PROVE CopiesClean'
  <2>1. CASE RestoreRegistry(s)
    BY <2>1, <1>g DEF RestoreRegistry, Steps
  <2>2. CASE RestoreIndex(s)
    BY <2>2, <1>g DEF RestoreIndex, Steps
  <2>3. CASE EraseEvidence(s)
    BY <2>3, <1>q DEF EraseEvidence
  <2>4. QED
    BY <1>3, <2>1, <2>2, <2>3 DEF Back
<1>p. ASSUME NEW s \in Scripts, Partial(s) \/ UNCHANGED <<file, tmp>>
      PROVE  Clean(file') /\ (tmp' = Missing \/ Clean(tmp'))
  BY <1>p DEF Partial
<1>4. ASSUME NEW s \in Scripts, StepFails(s) PROVE CopiesClean'
  <2>1. run[s].at # "idle"
    BY <1>4 DEF StepFails
  <2>2. Clean(file') /\ (tmp' = Missing \/ Clean(tmp'))
    BY <1>4, <1>p DEF StepFails
  <2>3. CASE Quit(s)
    BY <2>2, <2>3, <1>q
  <2>4. CASE Go(s, After(run[s].at))
    <3>1. After(run[s].at) \in Steps \ {"stage"}
      BY DEF After, Steps
    <3>2. QED
      BY <2>1, <2>2, <2>4, <3>1, <1>g
  <2>5. QED
    BY <1>4, <2>3, <2>4 DEF StepFails
<1>5. ASSUME NEW s \in Scripts, Kill(s) PROVE CopiesClean'
  BY <1>5, <1>p, <1>q DEF Kill
<1>6. CASE UNCHANGED vars
  BY <1>6 DEF vars, scriptVars
<1>7. QED
  BY <1>1, <1>2, <1>3, <1>4, <1>5, <1>6 DEF Next

(* No tool has two rows in the registry file, whatever runs of the install *)
(* script overlap, fail or are killed.                                     *)
THEOREM OneRowPerTool == Spec => []RowsAreUnique
<1>1. CopiesClean => RowsAreUnique
  BY DEF CopiesClean, Clean, RowsAreUnique
<1>2. QED
  BY <1>1, InitClean, NextClean, PTL DEF Spec
-----------------------------------------------------------------------------
(* As long as no way back has begun, the file is whole, and so is what a   *)
(* run is about to rename to it.                                           *)
OneAtATime == \A s, t \in Scripts : s = t

WholeOrRestored ==
  restored # TRUE =>
    /\ file # Torn
    /\ \A s \in Scripts :
         /\ run[s].backup # Torn
         /\ run[s].at \notin {"restore", "reindex", "erase"}
         /\ run[s].at = "replace" => tmp # Torn

LEMMA EmptyIsWhole == <<>> # Torn
<1>1. <<>> \in Seq(Names)
  OBVIOUS
<1>2. QED
  BY <1>1, RegistryAssumption

LEMMA InitWhole == InitAll => WholeOrRestored
  BY EmptyIsWhole DEF InitAll, Init, WholeOrRestored, Idle

LEMMA NextWhole ==
  ASSUME OneAtATime, CopiesClean, WholeOrRestored, [Next]_vars
  PROVE  WholeOrRestored'
<1> USE DEF WholeOrRestored, Build, At
<1>t. run \in [Scripts -> Runs] /\ \A s \in Scripts : run[s].at # "idle" => Build(s) \in Builds
  BY DEF CopiesClean
<1>1. CASE Gateway /\ UNCHANGED scriptVars
  <2>1. UNCHANGED <<file, run, tmp, restored>>
    BY <1>1 DEF Gateway, ProposeTool, ApproveTool, InstallTool, RejectTool, SetStatus,
       Restart, scriptVars
  <2>2. QED
    BY <2>1
<1>2. ASSUME NEW s \in Scripts, Forward(s) PROVE WholeOrRestored'
  <2>1. ASSUME NEW b \in Builds, Begin(s, b) PROVE WholeOrRestored'
    BY <2>1, <1>t DEF Begin, Runs
  <2>2. CASE Check(s)
    <3>1. restored' # TRUE =>
            restored # TRUE /\ UNCHANGED <<file, tmp>> /\ (Quit(s) \/ Go(s, "stage"))
      BY <2>2 DEF Check
    <3>2. QED
      BY <3>1, <1>t, EmptyIsWhole DEF Go, Quit, Idle, Runs
  <2>3. CASE Stage(s)
    <3>1. restored # TRUE => run[s].backup \in Seq(Names)
      BY <1>t DEF Runs
    <3>2. ToolOf(s) \in Names
      BY <2>3, <1>t, InstallAssumption DEF Stage, ToolOf
    <3>3. restored # TRUE => tmp' # Torn
      BY <2>3, <3>1, <3>2, RegistryAssumption DEF Stage
    <3>4. QED
      BY <2>3, <3>3, <1>t DEF Stage, Go, Runs
  <2>4. CASE Replace(s)
    <3>1. restored' # TRUE =>
            restored # TRUE /\ file' = tmp /\ Go(s, "verify") /\ run[s].at = "replace"
      BY <2>4 DEF Replace
    <3>2. QED
      BY <3>1, <1>t, OneAtATime DEF Go, Runs, OneAtATime
  <2>5. CASE Verify(s)
    <3>1. restored' # TRUE => restored # TRUE /\ UNCHANGED <<file, tmp>> /\ Go(s, "record")
      BY <2>5 DEF Verify
    <3>2. QED
      BY <3>1, <1>t DEF Go, Runs
  <2>6. CASE WriteRecord(s)
    BY <2>6, <1>t DEF WriteRecord, Go, Runs
  <2>7. CASE WriteSummary(s)
    BY <2>7, <1>t DEF WriteSummary, Go, Runs
  <2>8. CASE WriteIndex(s)
    <3>1. <<>> # Torn
      BY EmptyIsWhole
    <3>2. QED
      BY <2>8, <3>1, <1>t DEF WriteIndex, Quit, Idle, Runs
  <2>9. QED
    BY <1>2, <2>1, <2>2, <2>3, <2>4, <2>5, <2>6, <2>7, <2>8 DEF Forward
<1>3. ASSUME NEW s \in Scripts, Back(s) PROVE WholeOrRestored'
  BY <1>3 DEF Back, RestoreRegistry, RestoreIndex, EraseEvidence
<1>4. ASSUME NEW s \in Scripts, StepFails(s) PROVE WholeOrRestored'
  BY <1>4 DEF StepFails
<1>5. ASSUME NEW s \in Scripts, Kill(s) PROVE WholeOrRestored'
  <2>1. restored # TRUE => file' # Torn
    BY <1>5 DEF Kill, Partial
  <2>2. <<>> # Torn
    BY EmptyIsWhole
  <2>3. QED
    BY <1>5, <1>t, <2>1, <2>2 DEF Kill, Quit, Idle, Runs, OneAtATime
<1>6. CASE UNCHANGED vars
  BY <1>6 DEF vars, scriptVars
<1>7. QED
  BY <1>1, <1>2, <1>3, <1>4, <1>5, <1>6 DEF Next

(* One run of the script at a time, the registry file the gateway reads is *)
(* torn only if a way back was begun, whatever is killed or fails.         *)
THEOREM TornOnlyOnTheWayBack ==
  ASSUME OneAtATime
  PROVE  Spec => []TornOnlyByRestore
<1>1. WholeOrRestored => TornOnlyByRestore
  BY DEF WholeOrRestored, TornOnlyByRestore
<1>2. CopiesClean /\ WholeOrRestored /\ [Next]_vars => WholeOrRestored'
  BY NextWhole, OneAtATime
<1>3. QED
  BY <1>1, <1>2, InitClean, NextClean, InitWhole, PTL DEF Spec
-----------------------------------------------------------------------------
(* What was installed is in every copy that may become the file: in the    *)
(* file, in the copy a run goes back to, and in what it renames.           *)
Keeps(f, b) == f = Torn \/ NameOf[b] \in ToSet(f)
Adds(f, s)  == f # Torn /\ ToolOf(s) \in ToSet(f) /\ \A n \in ToSet(run[s].backup) : n \in ToSet(f)

InstalledKept ==
  /\ evidence \in [Builds -> Evidence]
  /\ \A b \in Builds : evidence[b].index = "installed" => Keeps(file, b)
  /\ \A s \in Scripts : run[s].at # "idle" =>
       /\ evidence[Build(s)].index # "installed"
       /\ \A b \in Builds : evidence[b].index = "installed" => Keeps(run[s].backup, b)
       /\ run[s].at \in {"stage", "replace"} => run[s].backup # Torn
       /\ run[s].at = "replace" => tmp # Missing /\ Adds(tmp, s)
       /\ run[s].at \in {"verify", "record", "summary", "index"} => Adds(file, s)

LEMMA AppendKeeps ==
  ASSUME NEW f \in Seq(Names), NEW n \in Names
  PROVE  /\ Append(f, n) \in Seq(Names)
         /\ n \in ToSet(Append(f, n)) /\ \A x \in ToSet(f) : x \in ToSet(Append(f, n))
<1> DEFINE g == Append(f, n)
<1>1. /\ g \in Seq(Names) /\ DOMAIN g = 1..(Len(f) + 1) /\ DOMAIN f = 1..Len(f) /\ Len(f) \in Nat
      /\ g[Len(f) + 1] = n /\ \A i \in 1..Len(f) : g[i] = f[i]
  OBVIOUS
<1> HIDE DEF g
<1>2. n \in ToSet(g) /\ \A x \in ToSet(f) : x \in ToSet(g)
  BY <1>1 DEF ToSet
<1>3. QED
  BY <1>1, <1>2 DEF g

(* A write into the folder of the build a run is at.                       *)
LEMMA PutsEvidence ==
  ASSUME InstalledKept, NEW s \in Scripts, Build(s) \in Builds,
         NEW field \in {"record", "summary", "index"}, NEW value, Put(s, field, value),
         IF field = "index" THEN value \in {"reviewed", "installed", "torn"} ELSE value \in BOOLEAN
  PROVE  /\ evidence' \in [Builds -> Evidence]
         /\ \A b \in Builds : evidence'[b].index = "installed" =>
              \/ evidence[b].index = "installed"
              \/ b = Build(s) /\ field = "index" /\ value = "installed"
  BY DEF InstalledKept, Put, Evidence

(* Nothing gets installed, and the file keeps what is.                     *)
Same == /\ evidence' \in [Builds -> Evidence]
        /\ \A b \in Builds : evidence'[b].index = "installed" => evidence[b].index = "installed"
        /\ \A b \in Builds : evidence[b].index = "installed" => Keeps(file', b)

LEMMA InitKept == InitAll => InstalledKept
  BY DEF InitAll, InstalledKept, Idle, Untouched, Evidence

LEMMA NextKept ==
  ASSUME OneAtATime, CopiesClean, InstalledKept, [Next]_vars
  PROVE  InstalledKept'
<1> USE DEF At
<1>t. run \in [Scripts -> Runs] /\ \A s \in Scripts : run[s].at # "idle" => Build(s) \in Builds
  BY DEF CopiesClean, Build
<1>q. ASSUME NEW s \in Scripts, Quit(s), Same PROVE InstalledKept'
  BY <1>q, <1>t DEF OneAtATime, InstalledKept, Same, Quit, Idle
<1>g. ASSUME NEW s \in Scripts, NEW step \in Steps, Go(s, step), run[s].at # "idle", Same,
             step \in {"stage", "replace"} => run[s].backup # Torn,
             step = "replace" => tmp' # Missing /\ Adds(tmp', s),
             step \in {"verify", "record", "summary", "index"} => Adds(file', s)
      PROVE  InstalledKept'
  <2>1. /\ run'[s].at = step /\ run'[s].build = run[s].build /\ run'[s].backup = run[s].backup
    BY <1>g, <1>t DEF Go, Runs
  <2>2. QED
    BY <1>g, <1>t, <2>1 DEF OneAtATime, InstalledKept, Same, Build, ToolOf, Adds, Keeps
<1>s. UNCHANGED <<evidence, file>> => Same
  BY DEF Same, InstalledKept
<1>1. CASE Gateway /\ UNCHANGED scriptVars
  <2>1. UNCHANGED <<file, run, tmp, evidence>>
    BY <1>1 DEF Gateway, ProposeTool, ApproveTool, InstallTool, RejectTool, SetStatus,
       Restart, scriptVars
  <2>2. QED
    BY <2>1 DEF InstalledKept, Build, ToolOf, Adds, Keeps
<1>2. ASSUME NEW s \in Scripts, Forward(s) PROVE InstalledKept'
  <2>1. ASSUME NEW b \in Builds, Begin(s, b) PROVE InstalledKept'
    <3>1. /\ run'[s] = [at |-> "check", build |-> b, backup |-> file] /\ UNCHANGED <<file, tmp, evidence>>
          /\ evidence[b].index = "reviewed"
      BY <2>1, <1>t DEF Begin, Untouched
    <3>2. QED
      BY <3>1 DEF OneAtATime, InstalledKept, Build
  <2>2. CASE Check(s)
    <3>1. /\ run[s].at = "check" /\ UNCHANGED <<file, tmp, evidence>>
          /\ Quit(s) \/ Go(s, "restore") \/ (Go(s, "stage") /\ run[s].backup # Torn)
      BY <2>2 DEF Check
    <3>2. QED
      BY <3>1, <1>q, <1>g, <1>s DEF Steps
  <2>3. CASE Stage(s)
    <3>1. run[s].backup \in Seq(Names) /\ ToolOf(s) \in Names
      BY <2>3, <1>t, InstallAssumption DEF Stage, InstalledKept, Runs, ToolOf
    <3>2. tmp' \in Seq(Names) /\ Adds(tmp', s)
      BY <2>3, <3>1, AppendKeeps, RegistryAssumption DEF Stage, Adds
    <3>3. tmp' # Missing
      BY <3>2, InstallAssumption
    <3>4. QED
      BY <2>3, <3>2, <3>3, <1>g, <1>s DEF Stage, Steps, InstalledKept
  <2>4. CASE Replace(s)
    <3>1. tmp # Missing /\ Adds(tmp, s) /\ run[s].at = "replace"
      BY <2>4 DEF Replace, InstalledKept
    <3>2. file' = tmp /\ UNCHANGED evidence /\ Go(s, "verify")
      BY <2>4, <3>1 DEF Replace
    <3>3. \A b \in Builds : evidence[b].index = "installed" => Keeps(tmp, b)
      BY <3>1 DEF InstalledKept, Keeps, Adds
    <3>4. Same
      BY <3>2, <3>3 DEF Same, InstalledKept
    <3>5. QED
      BY <3>1, <3>2, <3>4, <1>g DEF Steps
  <2>5. CASE Verify(s)
    <3>1. /\ run[s].at = "verify" /\ UNCHANGED <<file, evidence>> /\ Adds(file, s)
          /\ Go(s, "restore") \/ Go(s, "record")
      BY <2>5 DEF Verify, InstalledKept
    <3>2. QED
      BY <3>1, <1>g, <1>s DEF Steps, Adds
  <2>6. CASE WriteRecord(s) \/ WriteSummary(s)
    <3>1. UNCHANGED file /\ run[s].at # "idle" /\ Adds(file, s) /\ (Go(s, "summary") \/ Go(s, "index"))
      BY <2>6 DEF WriteRecord, WriteSummary, InstalledKept
    <3>2. Same
      BY <2>6, <3>1, <1>t, PutsEvidence DEF WriteRecord, WriteSummary, Same, InstalledKept
    <3>3. QED
      BY <3>1, <3>2, <1>g DEF Steps, Adds
  <2>7. CASE WriteIndex(s)
    <3>1. /\ UNCHANGED file /\ run[s].at = "index" /\ Adds(file, s) /\ Quit(s)
          /\ Put(s, "index", "installed")
      BY <2>7 DEF WriteIndex, InstalledKept
    <3>2. /\ evidence' \in [Builds -> Evidence]
          /\ \A b \in Builds : evidence'[b].index = "installed" =>
               evidence[b].index = "installed" \/ b = Build(s)
      BY <3>1, <1>t, PutsEvidence
    <3>3. \A b \in Builds : evidence'[b].index = "installed" => Keeps(file', b)
      BY <3>1, <3>2 DEF InstalledKept, Keeps, Adds, ToolOf
    <3>4. QED
      BY <3>1, <3>2, <3>3, <1>t DEF OneAtATime, InstalledKept, Quit, Idle
  <2>8. QED
    BY <1>2, <2>1, <2>2, <2>3, <2>4, <2>5, <2>6, <2>7 DEF Forward
<1>3. ASSUME NEW s \in Scripts, Back(s) PROVE InstalledKept'
  <2>1. CASE RestoreRegistry(s)
    <3>1. Same
      BY <2>1 DEF RestoreRegistry, Same, InstalledKept
    <3>2. QED
      BY <2>1, <3>1, <1>g DEF RestoreRegistry, Steps
  <2>2. CASE RestoreIndex(s)
    <3>1. Same
      BY <2>2, <1>t, PutsEvidence DEF RestoreIndex, Same, InstalledKept
    <3>2. QED
      BY <2>2, <3>1, <1>g DEF RestoreIndex, Steps
  <2>3. CASE EraseEvidence(s)
    <3>1. Same
      BY <2>3, <1>t DEF EraseEvidence, Same, InstalledKept, Evidence
    <3>2. QED
      BY <2>3, <3>1, <1>q DEF EraseEvidence
  <2>4. QED
    BY <1>3, <2>1, <2>2, <2>3 DEF Back
<1>p. ASSUME NEW s \in Scripts, run[s].at # "idle",
             Partial(s) \/ (Put(s, "summary", FALSE) /\ UNCHANGED <<file, tmp>>)
      PROVE  Same
  <2>1. CASE UNCHANGED evidence /\ (file' = file \/ file' = Torn)
    BY <2>1 DEF Same, InstalledKept, Keeps
  <2>2. CASE UNCHANGED file /\ (\/ Put(s, "record", TRUE) \/ Put(s, "summary", TRUE)
                              \/ Put(s, "record", FALSE) \/ Put(s, "summary", FALSE))
    BY <2>2, <1>p, <1>t, PutsEvidence DEF Same, InstalledKept
  <2>3. CASE UNCHANGED file /\ Put(s, "index", "torn")
    BY <2>3, <1>p, <1>t, PutsEvidence DEF Same, InstalledKept
  <2>4. QED
    BY <1>p, <2>1, <2>2, <2>3 DEF Partial
<1>4. ASSUME NEW s \in Scripts, StepFails(s) PROVE InstalledKept'
  <2>1. run[s].at # "idle"
    BY <1>4 DEF StepFails, CopiesClean
  <2>2. Same
    BY <1>4, <2>1, <1>p DEF StepFails
  <2>3. CASE Quit(s)
    BY <2>2, <2>3, <1>q
  <2>4. CASE Go(s, After(run[s].at))
    <3>1. After(run[s].at) \in {"restore", "reindex", "erase"}
      BY DEF After
    <3>2. QED
      BY <2>1, <2>2, <2>4, <3>1, <1>g DEF Steps
  <2>5. QED
    BY <1>4, <2>3, <2>4 DEF StepFails
<1>5. ASSUME NEW s \in Scripts, Kill(s) PROVE InstalledKept'
  <2>1. run[s].at # "idle"
    BY <1>5 DEF Kill, CopiesClean
  <2>2. QED
    BY <1>5, <2>1, <1>p, <1>q DEF Kill
<1>6. CASE UNCHANGED vars
  BY <1>6 DEF vars, scriptVars, InstalledKept, Build, ToolOf, Adds, Keeps
<1>7. QED
  BY <1>1, <1>2, <1>3, <1>4, <1>5, <1>6 DEF Next

(* One run of the script at a time, an installed tool keeps its row in the *)
(* registry file, whatever later runs fail or are killed at, unless a way  *)
(* back was cut short and left the file torn: the backup a run goes back   *)
(* to was read when every earlier installation was complete.               *)
THEOREM InstallationsStay ==
  ASSUME OneAtATime
  PROVE  Spec => []InstalledStays
<1>1. InstalledKept => InstalledStays
  BY DEF InstalledKept, InstalledStays, Keeps, Rows
<1>2. CopiesClean /\ InstalledKept /\ [Next]_vars => InstalledKept'
  BY NextKept, OneAtATime
<1>3. QED
  BY <1>1, <1>2, InitClean, NextClean, InitKept, PTL DEF Spec
-----------------------------------------------------------------------------
(* The gateway's store next to the runs of the script: a step of either    *)
(* side leaves what the other side owns.                                   *)
LEMMA NextRegistry ==
  ASSUME RegistryInv, CopiesClean', [Next]_vars
  PROVE  RegistryInv' /\ (UNCHANGED tools \/ Gateway)
<1>1. CASE Gateway
  BY <1>1, GatewayRegistry
<1>2. ASSUME UNCHANGED tools PROVE RegistryInv'
  BY <1>2 DEF RegistryInv, TypeOKTools, CopiesClean, Clean
<1>3. ASSUME NEW s \in Scripts, Forward(s) \/ Back(s) \/ StepFails(s) \/ Kill(s)
      PROVE  UNCHANGED tools
  BY <1>3 DEF Forward, Begin, Check, Stage, Replace, Verify, WriteRecord, WriteSummary, WriteIndex,
     Back, RestoreRegistry, RestoreIndex, EraseEvidence, StepFails, Kill
<1>4. QED
  BY <1>1, <1>2, <1>3 DEF Next, vars

(* What else changes only within its range.                                *)
RestTyped ==
  /\ evidence \in [Builds -> Evidence]
  /\ faults \in 0..MaxFaults /\ kills \in 0..MaxKills /\ restored \in BOOLEAN

LEMMA InitRest == InitAll => RestTyped
<1> SUFFICES ASSUME InitAll PROVE RestTyped
  OBVIOUS
<1>1. evidence \in [Builds -> Evidence]
  BY DEF InitAll, Untouched, Evidence
<1>2. faults = MaxFaults /\ kills = MaxKills /\ restored = FALSE
  BY DEF InitAll
<1>3. MaxFaults \in Nat /\ MaxKills \in Nat
  BY InstallAssumption
<1>4. faults \in 0..MaxFaults /\ kills \in 0..MaxKills
  BY <1>2, <1>3
<1>5. QED
  BY <1>1, <1>2, <1>4 DEF RestTyped

LEMMA NextRest == RestTyped /\ [Next]_vars => RestTyped'
<1> SUFFICES ASSUME RestTyped, [Next]_vars PROVE RestTyped'
  OBVIOUS
<1> USE InstallAssumption DEF RestTyped
<1>w. ASSUME NEW s, NEW field \in {"record", "summary", "index"}, NEW value, Put(s, field, value),
             IF field = "index" THEN value \in {"reviewed", "installed", "torn"} ELSE value \in BOOLEAN
      PROVE  evidence' \in [Builds -> Evidence]
  BY <1>w DEF Put, Evidence
<1>p. ASSUME NEW s, Partial(s) PROVE evidence' \in [Builds -> Evidence]
  <2>1. \/ UNCHANGED evidence
        \/ Put(s, "record", TRUE) \/ Put(s, "summary", TRUE) \/ Put(s, "index", "torn")
        \/ Put(s, "record", FALSE)
    BY <1>p DEF Partial
  <2>2. QED
    BY <2>1, <1>w
<1>1. CASE Gateway /\ UNCHANGED scriptVars
  BY <1>1 DEF scriptVars
<1>2. ASSUME NEW s \in Scripts, Forward(s) PROVE RestTyped'
  <2>1. CASE Check(s) \/ Replace(s) \/ Verify(s) \/ Stage(s) \/ \E b \in Builds : Begin(s, b)
    BY <2>1 DEF Check, Replace, Verify, Stage, Begin
  <2>2. CASE WriteRecord(s) \/ WriteSummary(s) \/ WriteIndex(s)
    <3>1. evidence' \in [Builds -> Evidence]
      BY <2>2, <1>w DEF WriteRecord, WriteSummary, WriteIndex
    <3>2. QED
      BY <2>2, <3>1 DEF WriteRecord, WriteSummary, WriteIndex
  <2>3. QED
    BY <1>2, <2>1, <2>2 DEF Forward
<1>3. ASSUME NEW s \in Scripts, Back(s) PROVE RestTyped'
  <2>1. CASE RestoreRegistry(s)
    BY <2>1 DEF RestoreRegistry
  <2>2. CASE RestoreIndex(s)
    BY <2>2, <1>w DEF RestoreIndex
  <2>3. CASE EraseEvidence(s)
    BY <2>3 DEF EraseEvidence, Evidence
  <2>4. QED
    BY <1>3, <2>1, <2>2, <2>3 DEF Back
<1>4. ASSUME NEW s \in Scripts, StepFails(s) PROVE RestTyped'
  <2>1. evidence' \in [Builds -> Evidence]
    BY <1>4, <1>p, <1>w DEF StepFails
  <2>2. QED
    BY <1>4, <2>1 DEF StepFails
<1>5. ASSUME NEW s \in Scripts, Kill(s) PROVE RestTyped'
  <2>1. evidence' \in [Builds -> Evidence]
    BY <1>5, <1>p DEF Kill
  <2>2. QED
    BY <1>5, <2>1 DEF Kill
<1>6. CASE UNCHANGED vars
  BY <1>6 DEF vars, scriptVars
<1>7. QED
  BY <1>1, <1>2, <1>3, <1>4, <1>5, <1>6 DEF Next

(* Every variable of the registry and of the runs of the script stays in   *)
(* its declared range, for any number of runs side by side.                *)
THEOREM InstallTyped == Spec => []TypeOK
<1>1. RegistryInv /\ CopiesClean /\ RestTyped => TypeOK
  BY DEF RegistryInv, CopiesClean, RestTyped, TypeOK, Clean, Runs, Build
<1>2. InitAll => RegistryInv
  BY InitRegistry DEF InitAll
<1>3. RegistryInv /\ CopiesClean' /\ [Next]_vars => RegistryInv'
  BY NextRegistry
<1>4. QED
  BY <1>1, <1>2, <1>3, InitClean, NextClean, InitRest, NextRest, PTL DEF Spec

(* No entry that is proposed through the API or loaded from the file, and  *)
(* no run of the install script, takes the calls of an installed built-in  *)
(* tool away from the entry the module was seeded with.                    *)
THEOREM BuiltinKeepsServing == Spec => []BuiltinServes
<1>1. InitAll => RegistryInv
  BY InitRegistry DEF InitAll
<1>2. RegistryInv /\ CopiesClean' /\ [Next]_vars => RegistryInv'
  BY NextRegistry
<1>3. QED
  BY <1>1, <1>2, InitClean, NextClean, FirstServes, PTL DEF Spec

(* Every entry that becomes installed was approved in the store first, or  *)
(* comes with a start of the gateway from the seed or a row of the file;   *)
(* what was rejected stays so until such a start.                          *)
THEOREM OnlyReviewedIsInstalled == Spec => InstalledOnlyReviewed
<1>1. InitAll => RegistryInv
  BY InitRegistry DEF InitAll
<1>2. RegistryInv /\ CopiesClean' /\ [Next]_vars => RegistryInv'
  BY NextRegistry
<1>3. RegistryInv /\ CopiesClean' /\ [Next]_vars => [Reviewed]_tools
  BY NextRegistry, GatewayInstalls
<1>4. QED
  BY <1>1, <1>2, <1>3, InitClean, NextClean, PTL DEF Spec, InstalledOnlyReviewed, Reviewed
-----------------------------------------------------------------------------
(* The strengthening of AllOrNothing.  While at most one step has failed   *)
(* and nothing was killed, the file and the copy a run goes back to are    *)
(* whole, no run is on its way back before the failure, and the evidence   *)
(* of the build a run is at tells how far that run is.                     *)
Progress(s) ==
  LET e == evidence[Build(s)]
  IN  /\ run[s].at \in {"check", "stage", "replace", "verify", "record"} => e = Untouched
      /\ run[s].at = "summary" => e = [record |-> TRUE, summary |-> FALSE, index |-> "reviewed"]
      /\ run[s].at = "index"   => e = [record |-> TRUE, summary |-> TRUE, index |-> "reviewed"]
      /\ run[s].at = "erase"   => e.index = "reviewed"

WholeInstall ==
  OneFailure =>
    /\ file # Torn
    /\ faults = MaxFaults => restored # TRUE
    /\ \A s \in Scripts : run[s].backup # Torn /\ (run[s].at # "idle" => Progress(s))
    /\ \A b \in Builds : ~Busy(b) => evidence[b] = Untouched \/ evidence[b] = Complete

LEMMA InitWholeInstall == InitAll => WholeInstall
<1> SUFFICES ASSUME InitAll PROVE WholeInstall
  OBVIOUS
<1>1. file # Torn /\ restored # TRUE
  BY EmptyIsWhole DEF InitAll, Init
<1>2. \A s \in Scripts : run[s].at = "idle" /\ run[s].backup # Torn
  BY EmptyIsWhole DEF InitAll, Idle
<1>3. \A b \in Builds : evidence[b] = Untouched
  BY DEF InitAll
<1>4. QED
  BY <1>1, <1>2, <1>3 DEF WholeInstall

LEMMA EvidenceIs ==
  ASSUME NEW e \in Evidence
  PROVE  e = [record |-> e.record, summary |-> e.summary, index |-> e.index]
  BY DEF Evidence

LEMMA NextWholeInstall ==
  ASSUME OneAtATime, CopiesClean, RestTyped, WholeOrRestored, InstalledKept, WholeInstall,
         [Next]_vars
  PROVE  WholeInstall'
<1> SUFFICES ASSUME OneFailure'
             PROVE  /\ file' # Torn
                    /\ faults' = MaxFaults => restored' # TRUE
                    /\ \A s \in Scripts :
                         run'[s].backup # Torn /\ (run'[s].at # "idle" => Progress(s)')
                    /\ \A b \in Builds : ~Busy(b)' => evidence'[b] = Untouched \/ evidence'[b] = Complete
  BY DEF WholeInstall
<1> DEFINE Goal == /\ file' # Torn
                   /\ faults' = MaxFaults => restored' # TRUE
                   /\ \A s \in Scripts :
                        run'[s].backup # Torn /\ (run'[s].at # "idle" => Progress(s)')
                   /\ \A b \in Builds :
                        ~Busy(b)' => evidence'[b] = Untouched \/ evidence'[b] = Complete
<1>t. /\ run \in [Scripts -> Runs] /\ \A s \in Scripts : run[s].at # "idle" => Build(s) \in Builds
      /\ \A s \in Scripts : run[s] = Idle \/ run[s].at # "idle"
      /\ evidence \in [Builds -> Evidence]
  BY DEF CopiesClean, Build, RestTyped
<1>o. /\ faults \in Nat /\ kills \in Nat /\ MaxFaults \in Nat /\ MaxKills \in Nat
      /\ faults <= MaxFaults /\ kills <= MaxKills
  BY InstallAssumption DEF RestTyped
(* The run that is at work is the only one.                                *)
<1>b. ASSUME NEW s \in Scripts PROVE \A b \in Builds : Busy(b) <=> b = Build(s)
  BY <1>b DEF OneAtATime, Busy
<1>c. ASSUME NEW s \in Scripts, run[s].at # "idle", OneFailure
      PROVE  /\ file # Torn /\ run[s].backup # Torn /\ Progress(s)
             /\ faults = MaxFaults => restored # TRUE
             /\ \A b \in Builds \ {Build(s)} : evidence[b] = Untouched \/ evidence[b] = Complete
  BY <1>b, <1>c DEF WholeInstall
(* A run goes on to a step, or ends.                                       *)
<1>g. ASSUME NEW s \in Scripts, run[s].at # "idle", NEW step \in Steps, Go(s, step), OneFailure,
             file' # Torn, faults' = MaxFaults => restored' # TRUE,
             \A b \in Builds \ {Build(s)} : evidence'[b] = evidence[b],
             LET e == evidence'[Build(s)]
             IN  /\ step \in {"check", "stage", "replace", "verify", "record"} => e = Untouched
                 /\ step = "summary" => e = [record |-> TRUE, summary |-> FALSE, index |-> "reviewed"]
                 /\ step = "index"   => e = [record |-> TRUE, summary |-> TRUE, index |-> "reviewed"]
                 /\ step = "erase"   => e.index = "reviewed"
      PROVE  Goal
  <2>1. /\ run'[s].at = step /\ run'[s].build = run[s].build /\ run'[s].backup = run[s].backup
        /\ \A t \in Scripts : t = s
    BY <1>g, <1>t DEF Go, Runs, OneAtATime
  <2>2. Progress(s)' /\ run'[s].backup # Torn
    BY <1>c, <1>g, <2>1 DEF Progress, Build
  <2>3. \A b \in Builds : ~Busy(b)' => b # Build(s)
    BY <2>1 DEF Busy, Build
  <2>4. QED
    BY <1>c, <1>g, <2>1, <2>2, <2>3
<1>q. ASSUME NEW s \in Scripts, run[s].at # "idle", Quit(s), OneFailure,
             file' # Torn, faults' = MaxFaults => restored' # TRUE,
             \A b \in Builds \ {Build(s)} : evidence'[b] = evidence[b],
             evidence'[Build(s)] \in {Untouched, Complete}
      PROVE  Goal
  <2>1. run'[s].at = "idle" /\ run'[s].backup = <<>> /\ \A t \in Scripts : t = s
    BY <1>q, <1>t DEF Quit, Idle, OneAtATime
  <2>2. QED
    BY <1>c, <1>q, <2>1, EmptyIsWhole
(* A write into the folder changes one build's evidence.                   *)
<1>w. ASSUME NEW s \in Scripts, Build(s) \in Builds, NEW field, NEW value, Put(s, field, value)
      PROVE  \A b \in Builds \ {Build(s)} : evidence'[b] = evidence[b]
  BY <1>w, <1>t DEF Put
<1>1. CASE Gateway /\ UNCHANGED scriptVars
  <2>1. UNCHANGED <<file, run, evidence, faults, kills, restored>>
    BY <1>1 DEF Gateway, ProposeTool, ApproveTool, InstallTool, RejectTool, SetStatus,
       Restart, scriptVars
  <2>2. QED
    BY <2>1 DEF WholeInstall, OneFailure, Progress, Build, Busy
<1>2. ASSUME NEW s \in Scripts, Forward(s) PROVE Goal
  <2>o. OneFailure /\ UNCHANGED <<tools, faults, kills>>
    BY <1>2 DEF Forward, Begin, Check, Stage, Replace, Verify, WriteRecord, WriteSummary,
       WriteIndex, OneFailure
  <2>1. ASSUME NEW b \in Builds, Begin(s, b) PROVE Goal
    <3>1. /\ run'[s].at = "check" /\ run'[s].build = b /\ run'[s].backup = file
          /\ \A t \in Scripts : t = s
          /\ UNCHANGED <<file, evidence, faults, restored>> /\ evidence[b] = Untouched
      BY <2>1, <1>t DEF Begin, OneAtATime
    <3>2. Build(s) = None
      BY <2>1 DEF Begin, Build, Idle
    <3>3. \A c \in Builds : ~Busy(c)
      BY <1>b, <3>2, InstallAssumption
    <3>4. Progress(s)'
      BY <3>1 DEF Progress, Build
    <3>5. QED
      BY <2>o, <3>1, <3>3, <3>4 DEF WholeInstall
  <2>2. CASE Check(s)
    <3>1. run[s].at = "check" /\ run[s].backup # Torn /\ evidence[Build(s)] = Untouched
      BY <2>2, <2>o, <1>c DEF Check, At, Progress
    <3>2. (Quit(s) \/ Go(s, "stage")) /\ UNCHANGED <<file, evidence, restored>>
      BY <2>2, <3>1 DEF Check
    <3>3. QED
      BY <2>o, <3>1, <3>2, <1>c, <1>g, <1>q DEF Steps
  <2>3. CASE Stage(s)
    <3>1. run[s].at = "stage" /\ evidence[Build(s)] = Untouched
      BY <2>3, <2>o, <1>c DEF Stage, At, Progress
    <3>2. QED
      BY <2>3, <2>o, <3>1, <1>c, <1>g DEF Stage, Steps
  <2>4. CASE Replace(s)
    <3>1. run[s].at = "replace" /\ evidence[Build(s)] = Untouched
      BY <2>4, <2>o, <1>c DEF Replace, At, Progress
    <3>2. tmp # Missing /\ tmp # Torn
      BY <3>1 DEF InstalledKept, Adds
    <3>3. Go(s, "verify") /\ file' = tmp /\ UNCHANGED <<restored, evidence>>
      BY <2>4, <3>2 DEF Replace
    <3>4. QED
      BY <2>o, <3>1, <3>2, <3>3, <1>c, <1>g DEF Steps
  <2>5. CASE Verify(s)
    <3>1. run[s].at = "verify" /\ evidence[Build(s)] = Untouched
      BY <2>5, <2>o, <1>c DEF Verify, At, Progress
    <3>2. file \in Seq(Names) /\ ToolOf(s) \in ToSet(file)
      BY <3>1 DEF InstalledKept, Adds, CopiesClean, Clean
    <3>3. Visible(ToolOf(s))
      BY <3>2, RowIsVisible DEF Visible
    <3>4. Go(s, "record") /\ UNCHANGED <<file, restored, evidence>>
      BY <2>5, <3>3 DEF Verify
    <3>5. QED
      BY <2>o, <3>1, <3>4, <1>c, <1>g DEF Steps
  <2>6. CASE WriteRecord(s)
    <3>1. run[s].at = "record" /\ evidence[Build(s)] = Untouched /\ Build(s) \in Builds
      BY <2>6, <2>o, <1>c, <1>t DEF WriteRecord, At, Progress
    <3>2. Put(s, "record", TRUE) /\ Go(s, "summary") /\ UNCHANGED <<file, restored>>
      BY <2>6 DEF WriteRecord
    <3>a. /\ evidence'[Build(s)] \in Evidence /\ evidence'[Build(s)].record = TRUE
          /\ evidence'[Build(s)].summary = evidence[Build(s)].summary
          /\ evidence'[Build(s)].index = evidence[Build(s)].index
      BY <3>1, <3>2, <1>t DEF Put, Evidence
    <3>b. /\ evidence'[Build(s)].record = TRUE /\ evidence'[Build(s)].summary = FALSE
          /\ evidence'[Build(s)].index = "reviewed"
      BY <3>1, <3>a DEF Untouched
    <3>c. evidence'[Build(s)] = [record |-> evidence'[Build(s)].record,
            summary |-> evidence'[Build(s)].summary, index |-> evidence'[Build(s)].index]
      BY <3>a, EvidenceIs
    <3>3. evidence'[Build(s)] = [record |-> TRUE, summary |-> FALSE, index |-> "reviewed"]
      BY <3>b, <3>c, Zenon
    <3>4. \A b \in Builds \ {Build(s)} : evidence'[b] = evidence[b]
      BY <3>1, <3>2, <1>w
    <3>5. QED
      BY <2>o, <3>1, <3>2, <3>3, <3>4, <1>c, <1>g DEF Steps
  <2>7. CASE WriteSummary(s)
    <3>1. /\ run[s].at = "summary" /\ Build(s) \in Builds
          /\ evidence[Build(s)] = [record |-> TRUE, summary |-> FALSE, index |-> "reviewed"]
      BY <2>7, <2>o, <1>c, <1>t DEF WriteSummary, At, Progress
    <3>2. Put(s, "summary", TRUE) /\ Go(s, "index") /\ UNCHANGED <<file, restored>>
      BY <2>7 DEF WriteSummary
    <3>a. /\ evidence'[Build(s)] \in Evidence /\ evidence'[Build(s)].summary = TRUE
          /\ evidence'[Build(s)].record = evidence[Build(s)].record
          /\ evidence'[Build(s)].index = evidence[Build(s)].index
      BY <3>1, <3>2, <1>t DEF Put, Evidence
    <3>b. /\ evidence'[Build(s)].record = TRUE /\ evidence'[Build(s)].summary = TRUE
          /\ evidence'[Build(s)].index = "reviewed"
      BY <3>1, <3>a
    <3>c. evidence'[Build(s)] = [record |-> evidence'[Build(s)].record,
            summary |-> evidence'[Build(s)].summary, index |-> evidence'[Build(s)].index]
      BY <3>a, EvidenceIs
    <3>3. evidence'[Build(s)] = [record |-> TRUE, summary |-> TRUE, index |-> "reviewed"]
      BY <3>b, <3>c, Zenon
    <3>4. \A b \in Builds \ {Build(s)} : evidence'[b] = evidence[b]
      BY <3>1, <3>2, <1>w
    <3>5. QED
      BY <2>o, <3>1, <3>2, <3>3, <3>4, <1>c, <1>g DEF Steps
  <2>8. CASE WriteIndex(s)
    <3>1. /\ run[s].at = "index" /\ Build(s) \in Builds
          /\ evidence[Build(s)] = [record |-> TRUE, summary |-> TRUE, index |-> "reviewed"]
      BY <2>8, <2>o, <1>c, <1>t DEF WriteIndex, At, Progress
    <3>2. Put(s, "index", "installed") /\ Quit(s) /\ UNCHANGED <<file, restored>>
      BY <2>8 DEF WriteIndex
    <3>a. /\ evidence'[Build(s)] \in Evidence /\ evidence'[Build(s)].index = "installed"
          /\ evidence'[Build(s)].record = evidence[Build(s)].record
          /\ evidence'[Build(s)].summary = evidence[Build(s)].summary
      BY <3>1, <3>2, <1>t DEF Put, Evidence
    <3>b. /\ evidence'[Build(s)].record = TRUE /\ evidence'[Build(s)].summary = TRUE
          /\ evidence'[Build(s)].index = "installed"
      BY <3>1, <3>a
    <3>c. evidence'[Build(s)] = [record |-> evidence'[Build(s)].record,
            summary |-> evidence'[Build(s)].summary, index |-> evidence'[Build(s)].index]
      BY <3>a, EvidenceIs
    <3>3. evidence'[Build(s)] = Complete
      BY <3>b, <3>c, Zenon DEF Complete
    <3>4. \A b \in Builds \ {Build(s)} : evidence'[b] = evidence[b]
      BY <3>1, <3>2, <1>w
    <3>5. QED
      BY <2>o, <3>1, <3>2, <3>3, <3>4, <1>c, <1>q
  <2>9. QED
    BY <1>2, <2>1, <2>2, <2>3, <2>4, <2>5, <2>6, <2>7, <2>8 DEF Forward
<1>3. ASSUME NEW s \in Scripts, Back(s) PROVE Goal
  <2>o. OneFailure /\ UNCHANGED <<faults, kills, restored>>
    BY <1>3 DEF Back, RestoreRegistry, RestoreIndex, EraseEvidence, OneFailure
  <2>i. run[s].at # "idle" /\ Build(s) \in Builds
    BY <1>3, <1>t DEF Back, RestoreRegistry, RestoreIndex, EraseEvidence, At
  <2>1. CASE RestoreRegistry(s)
    <3>1. file' = run[s].backup /\ Go(s, "reindex") /\ UNCHANGED evidence
      BY <2>1 DEF RestoreRegistry
    <3>2. QED
      BY <2>o, <2>i, <3>1, <1>c, <1>g DEF Steps
  <2>2. CASE RestoreIndex(s)
    <3>1. Put(s, "index", "reviewed") /\ Go(s, "erase") /\ UNCHANGED file
      BY <2>2 DEF RestoreIndex
    <3>2. evidence'[Build(s)].index = "reviewed"
      BY <2>i, <3>1, <1>t DEF Put, Evidence
    <3>3. \A b \in Builds \ {Build(s)} : evidence'[b] = evidence[b]
      BY <2>i, <3>1, <1>w
    <3>4. QED
      BY <2>o, <2>i, <3>1, <3>2, <3>3, <1>c, <1>g DEF Steps
  <2>3. CASE EraseEvidence(s)
    <3>1. /\ run[s].at = "erase" /\ Quit(s) /\ UNCHANGED file
          /\ evidence' = [evidence EXCEPT ![Build(s)].record = FALSE, ![Build(s)].summary = FALSE]
      BY <2>3 DEF EraseEvidence, At
    <3>2. evidence[Build(s)] \in Evidence /\ evidence[Build(s)].index = "reviewed"
      BY <2>o, <2>i, <3>1, <1>c, <1>t DEF Progress
    <3>3. evidence'[Build(s)] = Untouched
      BY <2>i, <3>1, <3>2, <1>t DEF Evidence, Untouched
    <3>4. \A b \in Builds \ {Build(s)} : evidence'[b] = evidence[b]
      BY <3>1, <1>t
    <3>5. QED
      BY <2>o, <2>i, <3>1, <3>3, <3>4, <1>c, <1>q
  <2>4. QED
    BY <1>3, <2>1, <2>2, <2>3 DEF Back
(* The only failure: it happens on the way forward.                        *)
<1>4. ASSUME NEW s \in Scripts, StepFails(s) PROVE Goal
  <2>1. faults = MaxFaults /\ faults' # MaxFaults /\ OneFailure
    BY <1>4, <1>o DEF StepFails, OneFailure
  <2>2. run[s].at # "idle" /\ Build(s) \in Builds
    BY <1>4, <1>t DEF StepFails
  <2>3. run[s].at \notin {"restore", "reindex", "erase"}
    BY <2>1, <2>2, <1>c DEF WholeOrRestored
  <2>4. Go(s, "restore")
    BY <1>4, <2>3 DEF StepFails, At, After
  <2>5. UNCHANGED file
    BY <1>4, <2>3 DEF StepFails, Partial, At
  <2>6. UNCHANGED evidence \/ \E field, value : Put(s, field, value)
    BY <1>4 DEF StepFails, Partial
  <2>7. \A b \in Builds \ {Build(s)} : evidence'[b] = evidence[b]
    BY <2>2, <2>6, <1>w
  <2>8. QED
    BY <2>1, <2>2, <2>4, <2>5, <2>7, <1>c, <1>g DEF Steps
<1>5. ASSUME NEW s \in Scripts, Kill(s) PROVE Goal
  BY <1>5, <1>o DEF Kill, OneFailure
<1>6. CASE UNCHANGED vars
  BY <1>6 DEF vars, scriptVars, WholeInstall, OneFailure, Progress, Build, Busy
<1>7. QED
  BY <1>1, <1>2, <1>3, <1>4, <1>5, <1>6 DEF Next

-----------------------------------------------------------------------------
(* The rows of the file, and of the copies that may become it, are those   *)
(* of complete builds, but for the row a run has added.                    *)
Earned(n) == \E b \in Builds : evidence[b] = Complete /\ NameOf[b] = n
Owned(f)  == f \in Seq(Names) /\ \A n \in ToSet(f) : Earned(n)
OwnedBut(f, s) == \A n \in ToSet(f) : n = ToolOf(s) \/ Earned(n)

RowsEarned ==
  OneFailure =>
    /\ (\A s \in Scripts : run[s].at = "idle") => Owned(file)
    /\ \A s \in Scripts : run[s].at # "idle" =>
         /\ Owned(run[s].backup)
         /\ run[s].at \in {"check", "stage", "replace", "reindex", "erase"} => Owned(file)
         /\ run[s].at = "replace" => OwnedBut(tmp, s)
         /\ run[s].at \in {"verify", "record", "summary", "index"} => OwnedBut(file, s)

LEMMA InitEarned == InitAll => RowsEarned
  BY DEF InitAll, Init, RowsEarned, Idle, Owned, ToSet

LEMMA NextEarned ==
  ASSUME OneAtATime, CopiesClean, RestTyped, WholeOrRestored, InstalledKept, WholeInstall,
         WholeInstall', RowsEarned, [Next]_vars, OneFailure'
  PROVE  RowsEarned'
<1> USE DEF At
<1>t. /\ run \in [Scripts -> Runs] /\ \A s \in Scripts : run[s].at # "idle" => Build(s) \in Builds
      /\ \A s \in Scripts : run[s] = Idle \/ run[s].at # "idle"
      /\ evidence \in [Builds -> Evidence] /\ NameOf \in [Builds -> Names]
  BY InstallAssumption DEF CopiesClean, Build, RestTyped
<1>o. OneFailure
  <2>1. /\ faults \in Nat /\ kills \in Nat /\ MaxFaults \in Nat /\ MaxKills \in Nat
        /\ faults <= MaxFaults /\ kills <= MaxKills
    BY InstallAssumption DEF RestTyped
  <2> DEFINE Spent == faults' \in {faults, faults - 1} /\ kills' \in {kills, kills - 1}
  <2>2. Spent
    <3>1. CASE (Gateway /\ UNCHANGED scriptVars) \/ UNCHANGED vars
      BY <3>1 DEF scriptVars, vars
    <3>2. ASSUME NEW s \in Scripts, Forward(s) PROVE Spent
      BY <3>2 DEF Forward, Begin, Check, Stage, Replace, Verify, WriteRecord, WriteSummary, WriteIndex
    <3>3. ASSUME NEW s \in Scripts, Back(s) \/ StepFails(s) \/ Kill(s) PROVE Spent
      BY <3>3 DEF Back, RestoreRegistry, RestoreIndex, EraseEvidence, StepFails, Kill
    <3>4. QED
      BY <3>1, <3>2, <3>3 DEF Next
  <2>3. QED
    BY <2>1, <2>2 DEF OneFailure
(* A step that leaves the evidence of other builds alone keeps what is     *)
(* earned: the build a run is at is not complete.                          *)
<1>k. ASSUME NEW s \in Scripts, run[s].at # "idle",
             \A b \in Builds \ {Build(s)} : evidence'[b] = evidence[b]
      PROVE  \A n : Earned(n) => Earned(n)'
  <2>1. evidence[Build(s)] # Complete
    BY <1>k DEF InstalledKept, Complete
  <2>2. \A b \in Builds : evidence[b] = Complete => evidence'[b] = Complete
    BY <1>k, <2>1
  <2>3. QED
    BY <2>2 DEF Earned
<1>g. ASSUME NEW s \in Scripts, run[s].at # "idle", NEW step \in Steps, Go(s, step),
             \A b \in Builds \ {Build(s)} : evidence'[b] = evidence[b],
             step \in {"check", "stage", "replace", "reindex", "erase"} => Owned(file'),
             step = "replace" => OwnedBut(tmp', s),
             step \in {"verify", "record", "summary", "index"} => OwnedBut(file', s)
      PROVE  RowsEarned'
  <2>1. /\ run'[s].at = step /\ run'[s].build = run[s].build /\ run'[s].backup = run[s].backup
        /\ \A t \in Scripts : t = s
    BY <1>g, <1>t DEF Go, Runs, OneAtATime
  <2>2. Owned(run[s].backup)
    BY <1>g, <1>o DEF RowsEarned
  <2>3. step # "idle"
    BY DEF Steps
  <2>4. QED
    BY <1>g, <1>k, <2>1, <2>2, <2>3 DEF RowsEarned, Owned, OwnedBut, ToolOf, Build
<1>q. ASSUME NEW s \in Scripts, run[s].at # "idle", Quit(s), Owned(file)', UNCHANGED file
      PROVE  RowsEarned'
  <2>1. run'[s].at = "idle" /\ \A t \in Scripts : t = s
    BY <1>q, <1>t DEF Quit, Idle, OneAtATime
  <2>2. QED
    BY <1>q, <2>1 DEF RowsEarned
<1>w. ASSUME NEW s \in Scripts, Build(s) \in Builds, NEW field, NEW value, Put(s, field, value)
      PROVE  \A b \in Builds \ {Build(s)} : evidence'[b] = evidence[b]
  BY <1>w, <1>t DEF Put
<1>1. CASE (Gateway /\ UNCHANGED scriptVars) \/ UNCHANGED vars
  <2>1. UNCHANGED <<file, run, tmp, evidence, faults, kills>>
    BY <1>1 DEF Gateway, ProposeTool, ApproveTool, InstallTool, RejectTool, SetStatus,
       Restart, scriptVars, vars
  <2>2. QED
    BY <2>1 DEF RowsEarned, OneFailure, Owned, OwnedBut, Earned, ToolOf, Build
<1>2. ASSUME NEW s \in Scripts, Forward(s) PROVE RowsEarned'
  <2>1. ASSUME NEW b \in Builds, Begin(s, b) PROVE RowsEarned'
    <3>1. /\ run'[s].at = "check" /\ run'[s].build = b /\ run'[s].backup = file
          /\ \A t \in Scripts : t = s
          /\ UNCHANGED <<file, evidence>>
      BY <2>1, <1>t DEF Begin, OneAtATime
    <3>2. run[s].at = "idle"
      BY <2>1 DEF Begin, Idle
    <3>3. Owned(file) /\ Owned(file)'
      BY <1>o, <3>1, <3>2 DEF RowsEarned, Owned, Earned
    <3>4. QED
      BY <3>1, <3>3 DEF RowsEarned, Owned, Earned
  <2>i. CASE ~ \E b \in Builds : Begin(s, b)
    <3>1. run[s].at # "idle" /\ Build(s) \in Builds /\ run[s].backup # Torn
      BY <1>2, <2>i, <1>o, <1>t DEF Forward, Check, Stage, Replace, Verify, WriteRecord,
         WriteSummary, WriteIndex, WholeInstall
    <3>2. CASE Check(s)
      <4>1. (Quit(s) \/ Go(s, "stage")) /\ UNCHANGED <<file, evidence>> /\ run[s].at = "check"
        BY <3>1, <3>2 DEF Check
      <4>2. Owned(file) /\ Owned(file)'
        BY <1>o, <4>1 DEF RowsEarned, Owned, Earned
      <4>3. QED
        BY <3>1, <4>1, <4>2, <1>g, <1>q DEF Steps
    <3>3. CASE Stage(s)
      <4>1. /\ run[s].at = "stage" /\ tmp' = Append(run[s].backup, ToolOf(s)) /\ Go(s, "replace")
            /\ UNCHANGED <<file, evidence>>
        BY <3>3 DEF Stage
      <4>2. Owned(file) /\ Owned(run[s].backup) /\ ToolOf(s) \in Names
        BY <1>o, <1>t, <3>1, <4>1 DEF RowsEarned, ToolOf
      <4>3. \A n \in ToSet(tmp') : n = ToolOf(s) \/ n \in ToSet(run[s].backup)
        BY <4>1, <4>2 DEF ToSet, Owned
      <4>4. OwnedBut(tmp', s)
        BY <4>2, <4>3 DEF Owned, OwnedBut
      <4>5. QED
        BY <3>1, <4>1, <4>2, <4>4, <1>g DEF Steps
    <3>4. CASE Replace(s)
      <4>1. run[s].at = "replace" /\ tmp # Missing /\ OwnedBut(tmp, s)
        BY <1>o, <3>4 DEF Replace, InstalledKept, RowsEarned
      <4>2. Go(s, "verify") /\ file' = tmp /\ UNCHANGED evidence
        BY <3>4, <4>1 DEF Replace
      <4>3. QED
        BY <3>1, <4>1, <4>2, <1>g DEF Steps
    <3>5. CASE Verify(s)
      <4>1. /\ run[s].at = "verify" /\ OwnedBut(file, s) /\ UNCHANGED <<file, evidence>>
            /\ Go(s, "record") \/ Go(s, "restore")
        BY <1>o, <3>5 DEF Verify, RowsEarned
      <4>2. QED
        BY <3>1, <4>1, <1>g DEF Steps
    <3>6. CASE WriteRecord(s) \/ WriteSummary(s)
      <4>1. /\ run[s].at \in {"record", "summary"} /\ OwnedBut(file, s) /\ UNCHANGED file
            /\ Go(s, "summary") \/ Go(s, "index")
            /\ \E field, value : Put(s, field, value)
        BY <1>o, <3>6 DEF WriteRecord, WriteSummary, RowsEarned
      <4>2. \A b \in Builds \ {Build(s)} : evidence'[b] = evidence[b]
        BY <3>1, <3>6, <1>w DEF WriteRecord, WriteSummary
      <4>3. QED
        BY <3>1, <3>6, <4>1, <4>2, <1>g DEF Steps, WriteRecord, WriteSummary
    <3>7. CASE WriteIndex(s)
      <4>1. /\ run[s].at = "index" /\ Put(s, "index", "installed") /\ Quit(s) /\ UNCHANGED file
            /\ evidence[Build(s)] = [record |-> TRUE, summary |-> TRUE, index |-> "reviewed"]
            /\ OwnedBut(file, s)
        BY <1>o, <3>7, <3>1 DEF WriteIndex, RowsEarned, WholeInstall, Progress
      <4>r. evidence' = [evidence EXCEPT ![Build(s)].index = "installed"]
        BY <4>1 DEF Put
      <4>e. evidence[Build(s)].record = TRUE /\ evidence[Build(s)].summary = TRUE
        BY <4>1
      <4>a. /\ evidence'[Build(s)] \in Evidence /\ evidence'[Build(s)].index = "installed"
            /\ evidence'[Build(s)].record = TRUE /\ evidence'[Build(s)].summary = TRUE
        BY <3>1, <4>r, <4>e, <1>t DEF Evidence
      <4>2. evidence'[Build(s)] = Complete
        BY <4>a DEF Complete, Evidence
      <4>3. \E b \in Builds : evidence'[b] = Complete /\ NameOf[b] = ToolOf(s)
        BY <3>1, <4>2 DEF ToolOf
      <4>4. \A n : Earned(n) => Earned(n)'
        BY <3>1, <4>1, <1>k, <1>w
      <4>5. file \in Seq(Names)
        BY <1>o DEF CopiesClean, Clean, WholeInstall
      <4>6. Owned(file)'
        BY <4>1, <4>3, <4>4, <4>5 DEF Owned, OwnedBut, Earned
      <4>7. QED
        BY <3>1, <4>1, <4>6, <1>q
    <3>8. QED
      BY <1>2, <2>i, <3>2, <3>3, <3>4, <3>5, <3>6, <3>7 DEF Forward
  <2>2. QED
    BY <2>1, <2>i
<1>3. ASSUME NEW s \in Scripts, Back(s) PROVE RowsEarned'
  <2>i. run[s].at # "idle" /\ Build(s) \in Builds /\ evidence[Build(s)] # Complete
    BY <1>3, <1>t DEF Back, RestoreRegistry, RestoreIndex, EraseEvidence, InstalledKept, Complete
  <2>1. CASE RestoreRegistry(s)
    <3>1. file' = run[s].backup /\ Go(s, "reindex") /\ UNCHANGED evidence /\ Owned(run[s].backup)
      BY <2>1, <2>i, <1>o DEF RestoreRegistry, RowsEarned
    <3>2. QED
      BY <2>i, <3>1, <1>g DEF Steps
  <2>2. CASE RestoreIndex(s)
    <3>1. /\ Put(s, "index", "reviewed") /\ Go(s, "erase") /\ UNCHANGED file /\ Owned(file)
      BY <2>2, <1>o DEF RestoreIndex, RowsEarned
    <3>2. \A b \in Builds \ {Build(s)} : evidence'[b] = evidence[b]
      BY <2>i, <3>1, <1>w
    <3>3. QED
      BY <2>i, <3>1, <3>2, <1>g DEF Steps
  <2>3. CASE EraseEvidence(s)
    <3>1. /\ Quit(s) /\ UNCHANGED file /\ Owned(file)
          /\ evidence' = [evidence EXCEPT ![Build(s)].record = FALSE, ![Build(s)].summary = FALSE]
      BY <2>3, <1>o DEF EraseEvidence, RowsEarned
    <3>2. \A b \in Builds \ {Build(s)} : evidence'[b] = evidence[b]
      BY <3>1, <1>t
    <3>3. \A n : Earned(n) => Earned(n)'
      BY <2>i, <3>2, <1>k
    <3>4. Owned(file)'
      BY <3>1, <3>3 DEF Owned
    <3>5. QED
      BY <2>i, <3>1, <3>4, <1>q
  <2>4. QED
    BY <1>3, <2>1, <2>2, <2>3 DEF Back
<1>4. ASSUME NEW s \in Scripts, StepFails(s) PROVE RowsEarned'
  <2>1. faults = MaxFaults
    <3>1. faults \in Nat /\ MaxFaults \in Nat /\ faults <= MaxFaults
      BY InstallAssumption DEF RestTyped
    <3>2. QED
      BY <1>4, <3>1 DEF StepFails, OneFailure
  <2>2. run[s].at # "idle" /\ Build(s) \in Builds
    BY <1>4, <1>t DEF StepFails
  <2>3. run[s].at \notin {"restore", "reindex", "erase"}
    BY <2>1, <2>2, <1>o DEF WholeOrRestored, WholeInstall
  <2>4. Go(s, "restore")
    BY <1>4, <2>3 DEF StepFails, After
  <2>5. UNCHANGED evidence \/ \E field, value : Put(s, field, value)
    BY <1>4 DEF StepFails, Partial
  <2>6. \A b \in Builds \ {Build(s)} : evidence'[b] = evidence[b]
    BY <2>2, <2>5, <1>w
  <2>7. QED
    BY <2>2, <2>4, <2>6, <1>g DEF Steps
<1>5. ASSUME NEW s \in Scripts, Kill(s) PROVE RowsEarned'
  <2>1. kills \in Nat /\ MaxKills \in Nat /\ kills <= MaxKills
    BY InstallAssumption DEF RestTyped
  <2>2. QED
    BY <1>5, <2>1 DEF Kill, OneFailure
<1>6. QED
  BY <1>1, <1>2, <1>3, <1>4, <1>5 DEF Next

(* At rest, the rows are exactly those of the complete builds.             *)
LEMMA RestIsWhole ==
  ASSUME RestTyped, CopiesClean, WholeInstall, InstalledKept, RowsEarned
  PROVE  AllOrNothing
<1> SUFFICES ASSUME OneFailure, \A b \in Builds : ~Busy(b)
             PROVE  /\ \A b \in Builds : evidence[b] \in {Untouched, Complete}
                    /\ Rows = {NameOf[b] : b \in {c \in Builds : evidence[c] = Complete}}
  BY DEF AllOrNothing
<1>1. file # Torn /\ \A b \in Builds : evidence[b] = Untouched \/ evidence[b] = Complete
  BY DEF WholeInstall
<1>2. \A s \in Scripts : run[s].at = "idle"
  BY DEF CopiesClean, Busy, Build
<1>3. Rows = ToSet(file) /\ \A n \in Rows : Earned(n)
  BY <1>1, <1>2 DEF Rows, RowsEarned, Owned
<1>4. \A b \in Builds : evidence[b] = Complete => NameOf[b] \in Rows
  BY <1>1, <1>3 DEF InstalledKept, Keeps, Complete
<1>5. QED
  BY <1>1, <1>3, <1>4 DEF Earned

(* One run of the script at a time, none killed and one step failing at    *)
(* most: an installation happens as a whole, or leaves the build's folder  *)
(* as it was and no row of it in the registry file.                        *)
THEOREM WholeOrNothing ==
  ASSUME OneAtATime
  PROVE  Spec => []AllOrNothing
<1>1. RestTyped /\ CopiesClean /\ WholeInstall /\ InstalledKept /\ RowsEarned => AllOrNothing
  BY RestIsWhole
<1>2. CopiesClean /\ WholeOrRestored /\ [Next]_vars => WholeOrRestored'
  BY NextWhole, OneAtATime
<1>3. CopiesClean /\ InstalledKept /\ [Next]_vars => InstalledKept'
  BY NextKept, OneAtATime
<1>4. CopiesClean /\ RestTyped /\ WholeOrRestored /\ InstalledKept /\ WholeInstall /\ [Next]_vars
        => WholeInstall'
  BY NextWholeInstall, OneAtATime
<1>5. CopiesClean /\ RestTyped /\ WholeOrRestored /\ InstalledKept /\ WholeInstall /\ WholeInstall'
        /\ RowsEarned /\ [Next]_vars => RowsEarned'
  BY NextEarned, OneAtATime DEF RowsEarned
<1>6. QED
  BY <1>1, <1>2, <1>3, <1>4, <1>5, InitClean, NextClean, InitWhole, InitKept, InitRest, NextRest,
     InitWholeInstall, InitEarned, PTL DEF Spec
=============================================================================
