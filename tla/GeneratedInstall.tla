---------------------------- MODULE GeneratedInstall ---------------------------
(***************************************************************************)
(* registry_append_reviewed_generated_tool.py: the script that adds a      *)
(* reviewed generated tool to the file the gateway's registry loads, and   *)
(* leaves evidence of it in the build's folder.  Runs of the script are    *)
(* processes of their own, next to the gateway and to each other.          *)
(***************************************************************************)
EXTENDS ToolRegistry

CONSTANTS
  Builds,    (* tool builds that were reviewed and may be installed          *)
  NameOf,    (* NameOf[b]: the tool name derived from the build id           *)
  Scripts,   (* slots for runs of the script                                 *)
  None,      (* no build                                                     *)
  Missing,   (* a temporary file that is not there                           *)
  MaxFaults, (* bound: how many file operations may fail                     *)
  MaxKills   (* bound: how many runs may be killed                           *)

ASSUME InstallAssumption ==
  /\ NameOf \in [Builds -> Names]
  /\ None \notin Builds
  /\ Missing \notin Seq(Names) \cup {Torn}
  /\ MaxFaults \in Nat /\ MaxKills \in Nat

VARIABLES
  run,       (* run[s]: next step, build, and the registry read at the start *)
  tmp,       (* the temporary file of _atomic_write_json, one for all runs   *)
  evidence,  (* evidence[b]: the files the script writes into the build      *)
  faults, kills, (* how many may still strike                                *)
  restored   (* history: some run has begun to roll back                     *)

scriptVars == <<run, tmp, evidence, faults, kills, restored>>
vars == <<tools, file, scriptVars>>

Steps == {"check", "stage", "replace", "verify", "record", "summary", "index",
          "restore", "reindex", "erase"}
Idle  == [at |-> "idle", build |-> None, backup |-> <<>>]
Evidence == [record : BOOLEAN, summary : BOOLEAN, index : {"reviewed", "installed", "torn"}]
Untouched == [record |-> FALSE, summary |-> FALSE, index |-> "reviewed"]
Complete  == [record |-> TRUE, summary |-> TRUE, index |-> "installed"]

At(s, step) == run[s].at = step
Go(s, step) == run' = [run EXCEPT ![s].at = step]
Quit(s)     == run' = [run EXCEPT ![s] = Idle]
Build(s)    == run[s].build
ToolOf(s)   == NameOf[Build(s)]
Put(s, field, value) == evidence' = [evidence EXCEPT ![Build(s)][field] = value]

(* Whether a fresh interpreter that imports the registry has the tool.     *)
Visible(n) == Has(Import(file), n, V1)
-----------------------------------------------------------------------------
(* The way forward.                                                        *)

(* All gates hold, the evidence is not there, and the registry is read.    *)
Begin(s, b) ==
  /\ run[s] = Idle
  /\ evidence[b] = Untouched
  /\ run' = [run EXCEPT ![s] = [at |-> "check", build |-> b, backup |-> file]]
  /\ UNCHANGED <<tools, file, tmp, evidence, faults, kills, restored>>

(* Mutant: only the fresh import is asked, not the rows that were read.    *)
CheckFreshOnly(s) ==
  /\ At(s, "check") /\ run[s].backup # Torn
  /\ IF Visible(ToolOf(s)) THEN Quit(s) ELSE Go(s, "stage")
  /\ UNCHANGED <<tools, file, tmp, evidence, faults, kills, restored>>

Check(s) ==
  /\ At(s, "check")
  /\ IF run[s].backup = Torn
     THEN Go(s, "restore") /\ restored' = TRUE
     ELSE /\ IF ToolOf(s) \in ToSet(run[s].backup) \/ Visible(ToolOf(s))
             THEN Quit(s) ELSE Go(s, "stage")
          /\ UNCHANGED restored
  /\ UNCHANGED <<tools, file, tmp, evidence, faults, kills>>

Stage(s) ==
  /\ At(s, "stage")
  /\ tmp' = Append(run[s].backup, ToolOf(s))
  /\ Go(s, "replace")
  /\ UNCHANGED <<tools, file, evidence, faults, kills, restored>>

(* The rename fails when another run has renamed the same temporary file.  *)
Replace(s) ==
  /\ At(s, "replace")
  /\ IF tmp = Missing
     THEN Go(s, "restore") /\ restored' = TRUE /\ UNCHANGED <<file, tmp>>
     ELSE Go(s, "verify") /\ file' = tmp /\ tmp' = Missing /\ UNCHANGED restored
  /\ UNCHANGED <<tools, evidence, faults, kills>>

Verify(s) ==
  /\ At(s, "verify")
  /\ IF Visible(ToolOf(s))
     THEN Go(s, "record") /\ UNCHANGED restored
     ELSE Go(s, "restore") /\ restored' = TRUE
  /\ UNCHANGED <<tools, file, tmp, evidence, faults, kills>>

WriteRecord(s) ==
  /\ At(s, "record") /\ Put(s, "record", TRUE) /\ Go(s, "summary")
  /\ UNCHANGED <<tools, file, tmp, faults, kills, restored>>

WriteSummary(s) ==
  /\ At(s, "summary") /\ Put(s, "summary", TRUE) /\ Go(s, "index")
  /\ UNCHANGED <<tools, file, tmp, faults, kills, restored>>

WriteIndex(s) ==
  /\ At(s, "index") /\ Put(s, "index", "installed") /\ Quit(s)
  /\ UNCHANGED <<tools, file, tmp, faults, kills, restored>>
-----------------------------------------------------------------------------
(* The way back: every step is tried, whatever became of the one before.   *)

(* Mutant: the file is emptied instead of restored.                        *)
RestoreRegistryEmpty(s) ==
  /\ At(s, "restore") /\ file' = <<>> /\ Go(s, "reindex")
  /\ UNCHANGED <<tools, tmp, evidence, faults, kills, restored>>

(* Mutant: the way back leaves the registry file alone.                    *)
RestoreRegistrySkipped(s) ==
  /\ At(s, "restore") /\ Go(s, "reindex")
  /\ UNCHANGED <<tools, file, tmp, evidence, faults, kills, restored>>

RestoreRegistry(s) ==
  /\ At(s, "restore") /\ file' = run[s].backup /\ Go(s, "reindex")
  /\ UNCHANGED <<tools, tmp, evidence, faults, kills, restored>>

RestoreIndex(s) ==
  /\ At(s, "reindex") /\ Put(s, "index", "reviewed") /\ Go(s, "erase")
  /\ UNCHANGED <<tools, file, tmp, faults, kills, restored>>

EraseEvidence(s) ==
  /\ At(s, "erase")
  /\ evidence' = [evidence EXCEPT ![Build(s)].record = FALSE, ![Build(s)].summary = FALSE]
  /\ Quit(s)
  /\ UNCHANGED <<tools, file, tmp, faults, kills, restored>>
-----------------------------------------------------------------------------
(* Failures.                                                               *)

(* Mutant: the registry file is written in place.                          *)
PartialInPlace(s) ==
  \/ UNCHANGED <<file, tmp, evidence>>
  \/ At(s, "replace") /\ file' = Torn /\ UNCHANGED <<tmp, evidence>>

(* What an interrupted step may leave behind: nothing, or half of its      *)
(* write.  A rename and a fresh import leave nothing.                     *)
Partial(s) ==
  \/ UNCHANGED <<file, tmp, evidence>>
  \/ At(s, "stage") /\ tmp' = Torn /\ UNCHANGED <<file, evidence>>
  \/ At(s, "restore") /\ file' = Torn /\ UNCHANGED <<tmp, evidence>>
  \/ /\ \/ At(s, "record")  /\ Put(s, "record", TRUE)
        \/ At(s, "summary") /\ Put(s, "summary", TRUE)
        \/ At(s, "index")   /\ Put(s, "index", "torn")
        \/ At(s, "reindex") /\ Put(s, "index", "torn")
        \/ At(s, "erase")   /\ Put(s, "record", FALSE)
     /\ UNCHANGED <<file, tmp>>

After(step) == CASE step = "restore" -> "reindex"
                 [] step = "reindex" -> "erase"
                 [] OTHER            -> "restore"

(* A step raises: on the way forward the way back begins, on the way back  *)
(* the error is ignored (of the two evidence files either one may stay).   *)
StepFails(s) ==
  /\ run[s] # Idle
  /\ faults > 0 /\ faults' = faults - 1
  /\ \/ Partial(s)
     \/ At(s, "erase") /\ Put(s, "summary", FALSE) /\ UNCHANGED <<file, tmp>>
  /\ IF At(s, "erase") THEN Quit(s) ELSE Go(s, After(run[s].at))
  /\ restored' = TRUE
  /\ UNCHANGED <<tools, kills>>

(* The process is killed.                                                  *)
Kill(s) ==
  /\ run[s] # Idle
  /\ kills > 0 /\ kills' = kills - 1
  /\ Partial(s)
  /\ Quit(s)
  /\ UNCHANGED <<tools, faults, restored>>
-----------------------------------------------------------------------------
InitAll ==
  /\ Init
  /\ run = [s \in Scripts |-> Idle]
  /\ tmp = Missing
  /\ evidence = [b \in Builds |-> Untouched]
  /\ faults = MaxFaults /\ kills = MaxKills
  /\ restored = FALSE

Forward(s) == \/ \E b \in Builds : Begin(s, b)
              \/ Check(s) \/ Stage(s) \/ Replace(s) \/ Verify(s)
              \/ WriteRecord(s) \/ WriteSummary(s) \/ WriteIndex(s)
Back(s) == RestoreRegistry(s) \/ RestoreIndex(s) \/ EraseEvidence(s)

Next == \/ Gateway /\ UNCHANGED scriptVars
        \/ \E s \in Scripts : Forward(s) \/ Back(s) \/ StepFails(s) \/ Kill(s)

Spec == InitAll /\ [][Next]_vars
-----------------------------------------------------------------------------
(* Properties.                                                             *)

Rows == IF file = Torn THEN {} ELSE ToSet(file)
Busy(b) == \E s \in Scripts : Build(s) = b
OneFailure == faults >= MaxFaults - 1 /\ kills = MaxKills

(* Every variable stays in its declared range (the type invariant).        *)
TypeOK ==
  /\ TypeOKTools
  /\ \A s \in Scripts : run[s] = Idle \/
       /\ run[s].at \in Steps /\ Build(s) \in Builds
       /\ run[s].backup = Torn \/ run[s].backup \in Seq(Names)
  /\ tmp \in {Missing, Torn} \/ tmp \in Seq(Names)
  /\ evidence \in [Builds -> Evidence]
  /\ faults \in 0..MaxFaults /\ kills \in 0..MaxKills /\ restored \in BOOLEAN

(* An installation happens as a whole or not at all, as far as one failing *)
(* step goes: when no run is at work, each build's evidence is complete or *)
(* as it was before, and the file has the tools of the complete ones, no   *)
(* more and no less.                                                       *)
AllOrNothing ==
  OneFailure /\ (\A b \in Builds : ~Busy(b)) =>
    /\ \A b \in Builds : evidence[b] \in {Untouched, Complete}
    /\ Rows = {NameOf[b] : b \in {c \in Builds : evidence[c] = Complete}}

(* An installation that was completed stays: no later or concurrent run    *)
(* takes its row out of the file again, unless it is torn while it is      *)
(* restored.  (The script "appends atomically to the persistent JSON".)    *)
InstalledStays ==
  \A b \in Builds : evidence[b].index = "installed" => NameOf[b] \in Rows \/ file = Torn

(* The file the gateway reads at its start is torn only if a roll back was *)
(* interrupted, as long as one run at a time is made: the way forward      *)
(* replaces the file as a whole.                                           *)
TornOnlyByRestore == file = Torn => restored

(* No tool has two rows, whatever runs side by side, fails or is killed.   *)
RowsAreUnique == file # Torn => IsInjective(file)

=============================================================================
