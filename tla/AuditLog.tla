-------------------------------- MODULE AuditLog --------------------------------
(***************************************************************************)
(* audit.py: a ring of the newest entries in memory, and what /logs shows. *)
(* Its asyncio lock is never held across an await, so an append is one     *)
(* step.  Entries keep what tells them apart: the kind of entry, the       *)
(* request it is about and the lane it names.                              *)
(***************************************************************************)
EXTENDS Naturals, Sequences, SequencesExt

CONSTANTS
  MaxEntries,  (* MAX_ENTRIES                                                *)
  NoLane       (* an entry that names no lane                                *)

ASSUME MaxEntriesAssumption == MaxEntries \in Nat \ {0}

VARIABLES
  log,      (* _store                                                        *)
  appended  (* history: every entry appended since the process started       *)

auditVars == <<log, appended>>

Entry(kind, r, lane) == [kind |-> kind, req |-> r, lane |-> lane]

Newest(limit, entries) ==
  SubSeq(entries, 1 + (IF Len(entries) > limit THEN Len(entries) - limit ELSE 0),
         Len(entries))

(* append: a deque with maxlen drops at its other end.                     *)
RingAppend(e) ==
  /\ log' = Newest(MaxEntries, Append(log, e))
  /\ appended' = Append(appended, e)

(* Several entries of a handler with no suspension between them.           *)
RingAppendAll(es) ==
  /\ log' = Newest(MaxEntries, log \o es)
  /\ appended' = appended \o es

AllEntries(limit) == Newest(limit, log)

AuditInit == log = <<>> /\ appended = <<>>
=============================================================================
