------------------------------ MODULE RequestAuth ------------------------------
(***************************************************************************)
(* The door of the gateway: the middleware of main.py in front of every    *)
(* handler, and the key kinds and route roles of services/auth_roles.py    *)
(* it decides by.  The keys are read once, when config.py is imported.     *)
(***************************************************************************)
CONSTANTS
  Requests,   (* requests the gateway receives                               *)
  KeyValues,  (* values an X-API-Key header or a configured key may have     *)
  NoKey,      (* an empty header, or a key that is not configured            *)
  Presented,  (* bound: the header values requests come with                 *)
  KeySetups   (* bound: the configurations of the four keys                  *)

KeyKinds   == {"master", "input", "approval", "admin"}
KeyConfigs == [KeyKinds -> KeyValues \cup {NoKey}]

ASSUME KeysAssumption ==
  /\ KeySetups \subseteq KeyConfigs
  /\ Presented \subseteq KeyValues \cup {NoKey}
  /\ NoKey \notin KeyValues

InputPosts == {"ingest", "propose", "from_message"}
Decisions  == {"approve", "reject", "execute"}
ReadRoutes == {"pending_list", "pending_one", "notifications", "workspaces",
               "workspace_one", "workspace_file", "workspace_compact",
               "logs", "events", "tools", "tool_one"}
AdminPosts == {"tools_propose", "tools_approve", "tools_install", "tools_reject"}
Routes     == InputPosts \cup Decisions \cup ReadRoutes \cup AdminPosts
                \cup {"health", "unlisted"}

VARIABLES
  keys,  (* keys[kind]: the configured key of each kind                      *)
  door,  (* door[r]: "idle", how the middleware refused r, or the route      *)
         (* whose handler r was let through to                               *)
  by     (* history: the header value r was let through with                 *)

authVars == <<keys, door, by>>

AuthType ==
  /\ keys \in KeyConfigs
  /\ door \in [Requests -> Routes \cup {"idle", "served", "401", "403"}]
  /\ by \in [Requests -> KeyValues \cup {NoKey}]
-----------------------------------------------------------------------------
(* classify_api_key: of two kinds configured with one value the first in   *)
(* this order counts, for the routes of the second as well.                *)
ClassifyApiKey(p) ==
  IF p = NoKey                 THEN "none"
  ELSE IF p = keys["master"]   THEN "master"
  ELSE IF p = keys["input"]    THEN "input"
  ELSE IF p = keys["approval"] THEN "approval"
  ELSE IF p = keys["admin"]    THEN "admin"
  ELSE "none"

(* route_api_role: a route no pattern lists is for the master key.         *)
RouteApiRole(route) ==
  CASE route \in InputPosts -> "INPUT_POST"
    [] route \in Decisions  -> "APPROVAL_ACTION"
    [] route \in ReadRoutes -> "READ_REVIEW"
    [] route \in AdminPosts -> "ADMIN_ACTION"
    [] OTHER                -> "MASTER_ONLY"

(* Mutant: the readers' row is used for the decisions on a plan too.       *)
KeyAllowsRouteReaders(role, kind) ==
  \/ kind = "master"
  \/ role = "INPUT_POST"   /\ kind = "input"
  \/ role \in {"READ_REVIEW", "APPROVAL_ACTION"} /\ kind \in {"input", "approval", "admin"}
  \/ role = "ADMIN_ACTION" /\ kind = "admin"

(* key_allows_route; a key of a kind is only recognised when it is         *)
(* configured, which is what its bool(cfg....) conditions ask for.         *)
KeyAllowsRoute(role, kind) ==
  \/ kind = "master"
  \/ role = "INPUT_POST"      /\ kind = "input"
  \/ role = "READ_REVIEW"     /\ kind \in {"input", "approval", "admin"}
  \/ role = "APPROVAL_ACTION" /\ kind = "approval"
  \/ role = "ADMIN_ACTION"    /\ kind = "admin"

(* require_api_key; the health probe is let through unseen.                *)
Verdict(route, p) ==
  LET kind == ClassifyApiKey(p)
  IN  IF route = "health" THEN route
      ELSE IF kind = "none" THEN "401"
      ELSE IF ~KeyAllowsRoute(RouteApiRole(route), kind) THEN "403"
      ELSE route

Arrive(r, route, p) ==
  /\ door[r] = "idle"
  /\ door' = [door EXCEPT ![r] = Verdict(route, p)]
  /\ by' = [by EXCEPT ![r] = IF Verdict(route, p) = route THEN p ELSE @]
  /\ UNCHANGED keys

(* The handlers that only read answer in one step and change nothing.      *)
Serve(r) ==
  /\ door[r] \in ReadRoutes \cup {"health", "unlisted"}
  /\ door' = [door EXCEPT ![r] = "served"]
  /\ by' = [by EXCEPT ![r] = NoKey]
  /\ UNCHANGED keys

AuthInit ==
  /\ keys \in KeySetups
  /\ door = [r \in Requests |-> "idle"]
  /\ by = [r \in Requests |-> NoKey]
-----------------------------------------------------------------------------
(* Who brings a plan in may not decide on it: whatever the keys are        *)
(* configured with, equal values included, no header value but the master  *)
(* key's has been let through by main.py's middleware to a POST that       *)
(* proposes a plan and to one that approves, rejects or executes one.      *)
NoSelfApproval ==
  \A r, s \in Requests :
    door[r] \in InputPosts /\ door[s] \in Decisions /\ by[r] = by[s]
      => by[r] = keys["master"]
=============================================================================
