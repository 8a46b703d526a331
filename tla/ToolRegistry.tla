------------------------------ MODULE ToolRegistry -----------------------------
(***************************************************************************)
(* The gateway's tool registry: registry.py behind the endpoints of        *)
(* routers/tools.py.  The store is a dict in memory, kept here as the      *)
(* sequence of its entries in insertion order; it is rebuilt from the      *)
(* built-in tools and the persisted generated rows at every start.         *)
(***************************************************************************)
EXTENDS Naturals, Sequences, FiniteSets, SequencesExt

CONSTANTS
  Names,    (* tool names                                                    *)
  Versions, (* version strings of a tool                                     *)
  V1,       (* the version of built-in and generated tools                   *)
  Builtin,  (* the names seeded at import time                               *)
  Torn      (* the content of a file whose writing was interrupted           *)

ASSUME RegistryAssumption ==
  /\ Builtin \subseteq Names /\ IsFiniteSet(Builtin)
  /\ V1 \in Versions
  /\ Torn \notin Seq(Names)

VARIABLES
  tools,   (* the entries of _registry                                       *)
  file     (* the names in generated_installed_tools.json, in order; or Torn *)

Statuses == {"proposed", "approved", "installed", "rejected"}
Origins  == {"builtin", "api", "file"}
Entry == [name : Names, version : Versions, status : Statuses, from : Origins]

Entries(ts)  == ToSet(ts)
Has(ts, n, v) == \E e \in Entries(ts) : e.name = n /\ e.version = v

(* One row of the file: skipped when its key is taken.                     *)
Load1(ts, n) ==
  IF Has(ts, n, V1) THEN ts
  ELSE Append(ts, [name |-> n, version |-> V1, status |-> "installed", from |-> "file"])

Seeded == LET order == SetToSeq(Builtin)
          IN  [i \in DOMAIN order |->
                 [name |-> order[i], version |-> V1, status |-> "installed", from |-> "builtin"]]

(* Importing the module: the seed, then the rows of the file; an unreadable *)
(* file is skipped as a whole.                                             *)
Import(f) ==
  IF f = Torn THEN Seeded
  ELSE LET load[i \in 0..Len(f)] == IF i = 0 THEN Seeded ELSE Load1(load[i - 1], f[i])
       IN  load[Len(f)]

(* Mutant: the last installed entry of that name.                          *)
GetInstalledLast(ts, n) ==
  SelectLastInSeq(ts, LAMBDA e : e.name = n /\ e.status = "installed")

(* The entry that validates the arguments of a call of n, as its position; *)
(* 0 when the call is refused.                                             *)
GetInstalled(ts, n) == SelectInSeq(ts, LAMBDA e : e.name = n /\ e.status = "installed")
-----------------------------------------------------------------------------
Init ==
  /\ file = <<>>
  /\ tools = Import(file)

ProposeTool(n, v) ==
  /\ ~Has(tools, n, v)
  /\ tools' = Append(tools, [name |-> n, version |-> v, status |-> "proposed", from |-> "api"])
  /\ UNCHANGED file

SetStatus(i, s) == tools' = [tools EXCEPT ![i].status = s] /\ UNCHANGED file

ApproveTool(i) == tools[i].status = "proposed" /\ SetStatus(i, "approved")

(* Mutant: a proposal can be installed without its approval.               *)
InstallToolUnapproved(i) ==
  tools[i].status \in {"proposed", "approved"} /\ SetStatus(i, "installed")

InstallTool(i) == tools[i].status = "approved" /\ SetStatus(i, "installed")

(* Mutant: a word that is no status (the model does not check assignments). *)
RejectToolDenied(i) == SetStatus(i, "denied")

(* From whatever status the entry has, installed included.                 *)
RejectTool(i) == SetStatus(i, "rejected")

Restart == tools' = Import(file) /\ UNCHANGED file

Gateway ==
  \/ \E n \in Names, v \in Versions : ProposeTool(n, v)
  \/ \E i \in DOMAIN tools : ApproveTool(i) \/ InstallTool(i) \/ RejectTool(i)
  \/ Restart
-----------------------------------------------------------------------------
(* Properties.                                                             *)

TypeOKTools ==
  /\ tools \in Seq(Entry)
  /\ file = Torn \/ file \in Seq(Names)

(* As long as a built-in tool is installed, its own entry and schema serve *)
(* the calls of its name: no version or row that is installed later, in    *)
(* memory or on disk, takes its place.                                     *)
BuiltinServes ==
  \A n \in Builtin : \A i \in DOMAIN tools :
    tools[i] = [name |-> n, version |-> V1, status |-> "installed", from |-> "builtin"] =>
      GetInstalled(tools, n) = i

(* An entry gets installed in two ways only: by its approval and then its  *)
(* installation through the API, or at a start of the gateway, which       *)
(* rebuilds the store from the seed and the reviewed rows of the file.     *)
(* What is rejected stays so until then.                                   *)
InstalledOnlyReviewed ==
  [][/\ \A e \in Entries(tools') : e.status = "installed" /\ e \notin Entries(tools) =>
          \/ [e EXCEPT !.status = "approved"] \in Entries(tools)
          \/ /\ tools' = Import(file)
             /\ \/ e.from = "builtin"
                \/ e.from = "file" /\ file # Torn /\ e.name \in ToSet(file)
     /\ \A e \in Entries(tools) : e.status = "rejected" =>
          e \in Entries(tools') \/ tools' = Import(file)]_tools

(* "If multiple versions are installed (unusual), returns the last one":   *)
(* no other installed entry of a name comes after the one that serves it.  *)
LastInstalledServes ==
  \A n \in Names : \A i \in DOMAIN tools :
    tools[i].name = n /\ tools[i].status = "installed" => i <= GetInstalled(tools, n)
=============================================================================
