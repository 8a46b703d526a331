------------------------------- MODULE ToolBuild -------------------------------
(***************************************************************************)
(* The folder data/tool_builds/<id> of one tool build, and the four        *)
(* scripts that carry it from a proposal to a package an install may use:  *)
(* create, generate, test, review.  Each checks its gates, reads           *)
(* BUILD_INDEX.json (test and review twice: for their gates, then for the  *)
(* way back), writes its files in order, and has a catch block that takes  *)
(* them away again.  GeneratedInstall takes over where this ends.          *)
(***************************************************************************)
EXTENDS Naturals, Sequences, SequencesExt

CONSTANTS
  Scripts,   (* slots for runs of the scripts                                *)
  Missing,   (* BUILD_INDEX.json does not exist                              *)
  Torn,      (* BUILD_INDEX.json was cut short and does not parse            *)
  MaxFaults, (* bound: how many file operations may fail                     *)
  MaxKills   (* bound: how many runs may be killed                           *)

(* "dirs" is candidate/ and tests/, "candidate" the four drafts in the      *)
(* first (torn when some of them are missing or cut short), "notes" the    *)
(* plan and the review stub that create writes last.                       *)
Flags   == {"generated", "tested", "reviewed"}
Files   == {"folder", "source", "dirs", "notes", "candidate", "testplan",
            "results", "summary", "manifest", "checklist"}
Content == {"absent", "torn", "whole", "passed", "failed"}
Stages  == {"create", "generate", "test", "review"}

ASSUME BuildAssumption ==
  /\ MaxFaults \in Nat /\ MaxKills \in Nat
  /\ Missing # Torn
  /\ \A flags \in SUBSET Flags : flags \notin {Missing, Torn}

VARIABLES
  disk,       (* disk[f]: a file of the folder, the index apart              *)
  index,      (* BUILD_INDEX.json: the flags that are true in it             *)
  run,        (* run[s]: stage, writes to do, verdict, the index it has read *)
              (* at its gates and the one it would put back                  *)
  faults, kills,  (* how many may still strike                               *)
  overlapped  (* history: two runs have been at work at once                 *)

vars == <<disk, index, run, faults, kills, overlapped>>

Idle == [at |-> "idle", stage |-> "create", todo |-> <<>>, verdict |-> "passed",
         saved |-> Missing, backup |-> Missing]
At(s, step) == run[s].at = step
Go(s, step) == run' = [run EXCEPT ![s].at = step]
Quit(s)     == run' = [run EXCEPT ![s] = Idle]
Readable    == index \notin {Missing, Torn}
Has(fs)     == \A f \in fs : disk[f] # "absent"
HasNone(fs) == \A f \in fs : disk[f] = "absent"

(* Mutant: generate marks the index before its files are written.          *)
OutputsIndexFirst(stage) ==
  CASE stage = "create"   -> <<"folder", "source", "dirs", "index", "notes">>
    [] stage = "generate" -> <<"index", "candidate", "testplan">>
    [] stage = "test"     -> <<"results", "summary", "index">>
    [] stage = "review"   -> <<"manifest", "checklist", "index">>

(* What a stage writes, in order.                                          *)
Outputs(stage) ==
  CASE stage = "create"   -> <<"folder", "source", "dirs", "index", "notes">>
    [] stage = "generate" -> <<"candidate", "testplan", "index">>
    [] stage = "test"     -> <<"results", "summary", "index">>
    [] stage = "review"   -> <<"manifest", "checklist", "index">>

(* The flags a stage adds to the index it has read.                        *)
Marks(stage) ==
  CASE stage = "create" -> {}           [] stage = "generate" -> {"generated"}
    [] stage = "test"   -> {"tested"}   [] stage = "review"   -> {"reviewed"}

(* Mutant: a failed verdict is marked as tested, too.                      *)
TodoAlways(stage, verdict) == Outputs(stage)

(* The index, which comes last in a test, is only marked when the static   *)
(* checks passed.                                                          *)
Todo(stage, verdict) ==
  IF verdict = "failed" THEN Front(Outputs(stage)) ELSE Outputs(stage)

(* The files a catch block removes.                                        *)
OwnOutputs(stage) == ToSet(Outputs(stage)) \ {"index"}

(* Mutant: the summary of a failed test run is left.                       *)
TargetsNoSummary(stage) ==
  IF stage = "create" THEN Files \cup {"index"} ELSE OwnOutputs(stage) \ {"summary"}

(* Create removes the whole folder, the others what they write.            *)
Targets(stage) == IF stage = "create" THEN Files \cup {"index"} ELSE OwnOutputs(stage)
-----------------------------------------------------------------------------
(* The gates of the stages: what must be there, what must not be there,    *)
(* what the index must say.                                                *)

GateCreate == disk["folder"] = "absent"

GateGenerate ==
  /\ Readable /\ Has({"source", "dirs"})
  /\ HasNone(OwnOutputs("generate"))

(* Mutant: the flags of the index are not looked at.                       *)
GateTestNoFlags ==
  /\ Readable
  /\ Has(OwnOutputs("generate")) /\ HasNone(OwnOutputs("test"))

GateTest ==
  /\ Readable /\ "generated" \in index
  /\ Has(OwnOutputs("generate")) /\ HasNone(OwnOutputs("test"))

GateReview ==
  /\ Readable /\ {"generated", "tested"} \subseteq index
  /\ Has({"source"} \cup OwnOutputs("generate") \cup OwnOutputs("test"))
  /\ HasNone(OwnOutputs("review"))
  /\ disk["results"] = "passed"

Gate(stage) ==
  CASE stage = "create" -> GateCreate   [] stage = "generate" -> GateGenerate
    [] stage = "test"   -> GateTest     [] stage = "review"   -> GateReview

(* The static checks look at files people edit: they may pass or fail.     *)
Verdicts(stage) == IF stage = "test" THEN {"passed", "failed"} ELSE {"passed"}

(* Test and review read the index anew, for their catch blocks.            *)
FirstStep(stage) == IF stage \in {"test", "review"} THEN "keep" ELSE "write"

Begin(s, stage) ==
  /\ run[s] = Idle
  /\ Gate(stage)
  /\ \E v \in Verdicts(stage) :
       run' = [run EXCEPT ![s] = [at |-> FirstStep(stage), stage |-> stage,
                                  todo |-> Todo(stage, v), verdict |-> v,
                                  saved |-> index, backup |-> index]]
  /\ overlapped' = (overlapped \/ \E t \in Scripts : run[t] # Idle)
  /\ UNCHANGED <<disk, index, faults, kills>>

(* The second read takes the text as it is, cut short or not; where there  *)
(* is none the script ends, before its catch block can do anything.        *)
Keep(s) ==
  /\ At(s, "keep")
  /\ \/ index = Missing /\ Quit(s)
     \/ index # Missing /\ run' = [run EXCEPT ![s].at = "write", ![s].backup = index]
  /\ UNCHANGED <<disk, index, faults, kills, overlapped>>
-----------------------------------------------------------------------------
(* A write needs the directory it goes to, which the catch block of an     *)
(* overlapping create may have removed.  A directory is made with -Force,  *)
(* its parents included.                                                   *)
HomeThere(f) ==
  CASE f \in {"folder", "dirs"}          -> TRUE
    [] f \in {"candidate", "testplan"}   -> disk["dirs"] # "absent"
    [] OTHER                             -> disk["folder"] # "absent"

NextFile(s) == Head(run[s].todo)
Filled(s, f, c) ==
  disk' = [disk EXCEPT ![f] = c, !["folder"] = IF f = "dirs" THEN "whole" ELSE @]
Advance(s) ==
  IF Len(run[s].todo) = 1 THEN Quit(s) ELSE run' = [run EXCEPT ![s].todo = Tail(@)]
NewIndex(s) == (IF run[s].saved = Missing THEN {} ELSE run[s].saved) \cup Marks(run[s].stage)

WriteFile(s) ==
  /\ At(s, "write") /\ NextFile(s) # "index" /\ HomeThere(NextFile(s))
  /\ Filled(s, NextFile(s), IF NextFile(s) = "results" THEN run[s].verdict ELSE "whole")
  /\ Advance(s)
  /\ UNCHANGED <<index, faults, kills, overlapped>>

(* The flags read at the gate are written back with those of the stage.    *)
WriteIndex(s) ==
  /\ At(s, "write") /\ NextFile(s) = "index" /\ HomeThere("index")
  /\ index' = NewIndex(s)
  /\ Advance(s)
  /\ UNCHANGED <<disk, faults, kills, overlapped>>

LoseHome(s) ==
  /\ At(s, "write") /\ ~HomeThere(NextFile(s))
  /\ Go(s, "erase")
  /\ UNCHANGED <<disk, index, faults, kills, overlapped>>
-----------------------------------------------------------------------------
(* The way back.                                                           *)

(* What is not kept of the targets is gone.                                *)
Erased(s, kept) ==
  LET gone == Targets(run[s].stage) \ kept
  IN  /\ disk' = [f \in Files |-> IF f \in gone THEN "absent" ELSE disk[f]]
      /\ index' = IF "index" \in gone THEN Missing ELSE index

Erase(s) ==
  /\ At(s, "erase")
  /\ Erased(s, {})
  /\ IF run[s].stage = "create" THEN Quit(s) ELSE Go(s, "reindex")
  /\ UNCHANGED <<faults, kills, overlapped>>

Reindex(s) ==
  /\ At(s, "reindex")
  /\ index' = IF HomeThere("index") THEN run[s].backup ELSE index
  /\ Quit(s)
  /\ UNCHANGED <<disk, faults, kills, overlapped>>
-----------------------------------------------------------------------------
(* A directory is only removed when it is empty.                           *)
Nested(kept) ==
  /\ kept # {} => "folder" \in kept
  /\ kept \cap {"candidate", "testplan"} # {} => "dirs" \in kept

(* What an interrupted step may leave: nothing, half a file, or some of    *)
(* the files it was to remove.                                             *)
Partial(s) ==
  \/ UNCHANGED <<disk, index>>
  \/ /\ At(s, "write") /\ HomeThere(NextFile(s))
     /\ IF NextFile(s) = "index"
        THEN index' = Torn /\ UNCHANGED disk
        ELSE Filled(s, NextFile(s), "torn") /\ UNCHANGED index
  \/ /\ At(s, "erase")
     /\ \E kept \in SUBSET {f \in Targets(run[s].stage) : f = "index" \/ disk[f] # "absent"} :
          /\ run[s].stage = "create" => Nested(kept)
          /\ Erased(s, kept)
  \/ At(s, "reindex") /\ HomeThere("index") /\ index' = Torn /\ UNCHANGED disk

(* A file operation raises: the writes stop and the catch block begins; in *)
(* the catch block removals go on, and a failed restore ends the run; so   *)
(* does a read that fails before there is a catch block.                   *)
StepFails(s) ==
  /\ run[s] # Idle
  /\ faults > 0 /\ faults' = faults - 1
  /\ Partial(s)
  /\ CASE At(s, "write") -> Go(s, "erase")
       [] At(s, "erase") /\ run[s].stage # "create" -> Go(s, "reindex")
       [] OTHER -> Quit(s)
  /\ UNCHANGED <<kills, overlapped>>

Kill(s) ==
  /\ run[s] # Idle
  /\ kills > 0 /\ kills' = kills - 1
  /\ Partial(s)
  /\ Quit(s)
  /\ UNCHANGED <<faults, overlapped>>
-----------------------------------------------------------------------------
Init ==
  /\ disk = [f \in Files |-> "absent"]
  /\ index = Missing
  /\ run = [s \in Scripts |-> Idle]
  /\ faults = MaxFaults /\ kills = MaxKills
  /\ overlapped = FALSE

Next == \E s \in Scripts :
  \/ \E stage \in Stages : Begin(s, stage)
  \/ Keep(s)
  \/ WriteFile(s) \/ WriteIndex(s) \/ LoseHome(s)
  \/ Erase(s) \/ Reindex(s)
  \/ StepFails(s) \/ Kill(s)

Spec == Init /\ [][Next]_vars
-----------------------------------------------------------------------------
(* Properties.                                                             *)

(* Every variable stays in its declared range, and nothing lies in a       *)
(* folder that is not there (the type invariant).                          *)
TypeOK ==
  /\ disk \in [Files -> Content]
  /\ index \in {Missing, Torn} \/ index \subseteq Flags
  /\ disk["folder"] = "absent" => index = Missing /\ HasNone(Files)
  /\ \A s \in Scripts : run[s] = Idle \/
       /\ run[s].at \in {"keep", "write", "erase", "reindex"} /\ run[s].stage \in Stages
       /\ run[s].verdict \in Verdicts(run[s].stage)
       /\ run[s].todo # <<>> /\ ToSet(run[s].todo) \subseteq Files \cup {"index"}
       /\ run[s].saved = Missing \/ run[s].saved \subseteq Flags
       /\ run[s].backup \in {Missing, Torn} \/ run[s].backup \subseteq Flags
  /\ faults \in 0..MaxFaults /\ kills \in 0..MaxKills /\ overlapped \in BOOLEAN

(* The index never claims a stage without the stages before it, although   *)
(* every run writes back flags it has read earlier and its catch block an  *)
(* index of another moment, whatever runs side by side, fails or is killed.*)
StagesInOrder ==
  Readable => index \in {{}, {"generated"}, {"generated", "tested"}, Flags}

(* One run at a time, a flag in the index is true whatever failed or was   *)
(* killed: the files of its stage are there and whole, and "tested" means  *)
(* that the checks passed.                                                 *)
FlagsTellTruth ==
  ~overlapped /\ Readable =>
    /\ "generated" \in index => disk["candidate"] = "whole" /\ disk["testplan"] = "whole"
    /\ "tested" \in index => disk["results"] = "passed" /\ disk["summary"] = "whole"
    /\ "reviewed" \in index => disk["manifest"] = "whole" /\ disk["checklist"] = "whole"

(* One run at a time, a build whose checks failed is out for good: no      *)
(* later run marks it as tested or makes an install package of it.         *)
FailedStaysOut ==
  ~overlapped /\ disk["results"] = "failed" =>
    /\ Readable => index \cap {"tested", "reviewed"} = {}
    /\ disk["manifest"] = "absent" /\ disk["checklist"] = "absent"

(* "rolls back partial candidate output": one failing step never leaves a  *)
(* build that no script accepts any more, as long as nothing is killed and *)
(* the catch block it leads to goes through.                               *)
NeverStuck ==
  /\ ~overlapped /\ kills = MaxKills /\ faults >= MaxFaults - 1
  /\ \A s \in Scripts : run[s] = Idle
  => \/ \E stage \in Stages : Gate(stage)
     \/ disk["results"] = "failed"
     \/ Readable /\ "reviewed" \in index
=============================================================================
