------------------------------- MODULE RepoTools -------------------------------
(***************************************************************************)
(* The tools of tools.py that look at the repository: inspect_file,        *)
(* propose_patch, list_project_files and search_repo.  They run in a       *)
(* worker process while other programs change the files; a walk takes one  *)
(* step per file.  A line is abstracted to whether it holds the query.     *)
(***************************************************************************)
EXTENDS Naturals, Integers, Sequences, SequencesExt

CONSTANTS
  Callers,    (* the calls a worker may run for                              *)
  Walk,       (* the files below the root in rglob's order, each once        *)
  Traits,     (* Traits[f]: what the name and place of file f make of it     *)
  Versions,   (* bound: the contents a file may have                         *)
  Gone,       (* the file is not there                                       *)
  TopResults, (* TopResults[tool]: the largest max_results a tool accepts    *)
  Trees,      (* bound: the trees the tools may find                         *)
  MaxEdits    (* bound: how often a file may change under the tools          *)

WalkTools == {"list_project_files", "search_repo"}
FileTools == {"inspect_file", "propose_patch"}
RepoToolNames == WalkTools \cup FileTools
Files     == ToSet(Walk)

(* linked: a symbolic link; outside: its path leaves the repository;       *)
(* excluded: below a mandatory exclude directory; globbed: an include glob *)
(* matches.  big: above the size limit; binary: a NUL byte near its start. *)
Trait   == [linked : BOOLEAN, outside : BOOLEAN, secret : BOOLEAN,
            excluded : BOOLEAN, hidden : BOOLEAN, globbed : BOOLEAN]
Version == [lines : Seq(BOOLEAN), big : BOOLEAN, binary : BOOLEAN]

ASSUME RepoAssumption ==
  /\ Walk \in Seq(Files) /\ IsInjective(Walk)
  /\ Traits \in [Files -> Trait]
  /\ Versions \subseteq Version /\ Gone \notin Version
  /\ Trees \subseteq [Files -> Versions \cup {Gone}]
  /\ TopResults \in [WalkTools -> Nat \ {0}] /\ MaxEdits \in Nat

VARIABLES
  tree,  (* tree[f]: what file f holds now                                   *)
  edits, (* how many changes may still happen                                *)
  scan   (* scan[c]: how far the walk of call c is and what it found         *)

repoVars == <<tree, edits, scan>>

NoScan == [tool |-> "none", pos |-> 1, max |-> 1, found |-> <<>>, read |-> <<>>]
Match == Files \X Nat

RepoType ==
  /\ tree \in [Files -> Versions \cup {Gone}] /\ edits \in Nat
  /\ scan \in [Callers -> [tool : WalkTools \cup {"none"}, pos : Nat, max : Nat,
                           found : Seq(Match), read : Seq(Match)]]
-----------------------------------------------------------------------------
(* Mutant: nothing keeps max_results above zero.                           *)
ClampAbove(n, top) == IF n > top THEN top ELSE n

(* max_results: an integer is brought into 1..top; what is neither an      *)
(* integer nor digits is the default.                                      *)
Clamp(n, top) == IF n < 1 THEN 1 ELSE IF n > top THEN top ELSE n

(* _repo_relative_file, _exclude_prefixes, _is_secret_name and the globs;  *)
(* the listing skips hidden files too, the search does not.                *)
Eligible(tool, f) ==
  LET t == Traits[f]
  IN  ~t.linked /\ ~t.outside /\ ~t.excluded /\ ~t.secret /\ t.globbed
        /\ (tool = "list_project_files" => ~t.hidden)

(* The matching lines of a file, read line by line.                        *)
Matches(f, lines) ==
  LET upto[n \in 0..Len(lines)] ==
        IF n = 0 THEN <<>>
        ELSE IF lines[n] THEN Append(upto[n - 1], <<f, n>>) ELSE upto[n - 1]
  IN  upto[Len(lines)]

(* What one file adds: the listing an entry, the search the matching lines.*)
Hits(tool, f) ==
  IF tree[f] = Gone \/ ~Eligible(tool, f) THEN <<>>
  ELSE IF tool = "list_project_files" THEN <<<<f, 0>>>>
  ELSE IF tree[f].big \/ tree[f].binary THEN <<>>
  ELSE Matches(f, tree[f].lines)

StartScan(c, tool, n) ==
  scan' = [scan EXCEPT ![c] = [NoScan EXCEPT !.tool = tool, !.max = Clamp(n, TopResults[tool])]]

ScanDone(c) == scan[c].pos > Len(Walk) \/ Len(scan[c].found) >= scan[c].max

(* Mutant: the number of matches is compared between files only.           *)
ScanFileUnbroken(c, k) ==
  LET s == scan[c]
      f == Walk[s.pos]
      hits == Hits(s.tool, f)
  IN  /\ s.tool # "none" /\ ~ScanDone(c) /\ k \in 0..Len(hits)
      /\ scan' = [scan EXCEPT ![c].pos = @ + 1, ![c].found = @ \o SubSeq(hits, 1, k),
                              ![c].read = @ \o SubSeq(hits, 1, k)]

(* One file of the walk.  The read may break off with an OSError after k   *)
(* hits, which stay; the search leaves the file at the last wanted match.  *)
ScanFile(c, k) ==
  LET s == scan[c]
      f == Walk[s.pos]
      hits == Hits(s.tool, f)
      room == s.max - Len(s.found)
  IN  /\ s.tool # "none" /\ ~ScanDone(c) /\ k \in 0..Len(hits)
      /\ scan' = [scan EXCEPT ![c].pos = @ + 1,
                    ![c].found = @ \o SubSeq(hits, 1, IF k < room THEN k ELSE room),
                    ![c].read = @ \o SubSeq(hits, 1, k)]

(* inspect_file and propose_patch: whether the call succeeds.              *)
FileAnswer(tool, f) ==
  /\ ~Traits[f].outside /\ ~Traits[f].secret
  /\ tool = "inspect_file" => tree[f] # Gone /\ ~tree[f].big

(* Another program changes a file.                                         *)
EditFile(f, v) ==
  /\ edits > 0 /\ edits' = edits - 1
  /\ v # tree[f] /\ tree' = [tree EXCEPT ![f] = v]
  /\ UNCHANGED scan

RepoInit ==
  /\ tree \in Trees /\ edits = MaxEdits
  /\ scan = [c \in Callers |-> NoScan]
-----------------------------------------------------------------------------
(* A walk that is over reports the first max_results hits of what it read, *)
(* file by file and line by line, no matter how the tree changed under it: *)
(* never one more, none twice, and fewer only when every file was visited. *)
WalkIsExact ==
  \A c \in Callers :
    LET s == scan[c]
    IN  /\ s.found = SubSeq(s.read, 1, IF Len(s.read) < s.max THEN Len(s.read) ELSE s.max)
        /\ \A i, j \in 1..Len(s.found) : s.found[i] = s.found[j] => i = j
        /\ s.tool # "none" /\ ScanDone(c) /\ Len(s.found) < s.max => s.pos = Len(Walk) + 1
=============================================================================
