------------------------------- MODULE MCGateway -------------------------------
(* Values for TLC: two overlapping requests of any kind.                   *)
EXTENDS Gateway

CONSTANTS r1, r2, mk, ik, ak, p1

(* Keys of distinct values, and a key that serves two kinds.               *)
MCKeySetups ==
  {[master |-> mk, input |-> ik, approval |-> ak, admin |-> NoKey],
   [master |-> ak, input |-> ik, approval |-> ik, admin |-> NoKey]}

MCAgents == {"project_maintainer_agent", "media_agent", "other_agent"}

(* A call beside a change of the registry or a decision; two that bring    *)
(* something in; one that brings in beside one that decides or changes the *)
(* registry; reads beside a decision.                                      *)
MCTraffic ==
  {[r \in {r1, r2} |-> IF r = r1 THEN {"execute"} ELSE {"tools_install", "approve", "health"}],
   [r \in {r1, r2} |-> IF r = r1 THEN {"ingest"} ELSE {"ingest", "propose"}],
   [r \in {r1, r2} |-> IF r = r1 THEN {"propose", "from_message"}
                       ELSE {"propose", "from_message"} \cup {"approve", "reject"}
                              \cup AdminPosts],
   [r \in {r1, r2} |-> IF r = r1 THEN ReadRoutes \cup {"unlisted"} ELSE {"approve"}]}

Text(content, meta, source) ==
  [modality |-> "text", formed |-> TRUE, content |-> content, meta |-> meta, source |-> source]
MCEnvelopes ==
  {Text(FALSE, TRUE, TRUE),
   [Text(FALSE, TRUE, FALSE) EXCEPT !.modality = "voice"],
   [Text(FALSE, FALSE, TRUE) EXCEPT !.modality = "event"],
   [Text(FALSE, FALSE, FALSE) EXCEPT !.formed = FALSE]}
MCNamings == {{}, {"LOCAL_TOOLS", "LOCAL_LLM"}, {"CLOUD_LLM", "DROP"}}

MCAgentFiles ==
  [a \in MCAgents |->
     CASE a = "media_agent" -> [dir |-> TRUE, parsed |-> TRUE, mode |-> "strict",
                                listed |-> {"radarr_search", "radarr_add"}]
       [] a = "project_maintainer_agent" ->
            [dir |-> TRUE, parsed |-> FALSE, mode |-> "strict", listed |-> {}]
       [] OTHER -> [dir |-> FALSE, parsed |-> FALSE, mode |-> "strict", listed |-> {}]]
MCTools == {"list_project_files", "search_repo", "inspect_file", "sabnzbd_queue",
            "sabnzbd_pause", "radarr_add", "radarr_search", "sonarr_search", "gen_delete"}
Draft(agent, tool) ==
  [agent |-> agent, risk |-> 2, approval |-> TRUE, tools |-> {tool}, calls |-> 1,
   max_calls |-> 6, cloud |-> FALSE, allow_cloud |-> FALSE, allow_delete |-> FALSE]
MCDrafts ==
  {Draft("media_agent", "radarr_add"), Draft("media_agent", "sonarr_search"),
   Draft("other_agent", "gen_delete"),
   [Draft("other_agent", "search_repo") EXCEPT !.risk = 0, !.approval = FALSE]}
MCMessages == {{"search"}, {"movie_add"}, {"movie", "cloud"}, {"long"}}
MCInstalledSets == {MCTools, MCTools \ {"radarr_add", "search_repo"}}

(* Two files the walks report lines of and a hidden one.                   *)
MCWalk   == <<"a.py", ".b.md", "c.md">>
MCTraits == [f \in {"a.py", ".b.md", "c.md"} |->
  [linked |-> FALSE, outside |-> FALSE, secret |-> FALSE, excluded |-> FALSE,
   hidden |-> f = ".b.md", globbed |-> f # "c.md"]]
MCVersions == {[lines |-> <<TRUE, FALSE, TRUE>>, big |-> FALSE, binary |-> FALSE],
               [lines |-> <<TRUE>>, big |-> FALSE, binary |-> TRUE]}
MCTrees == {[f \in {"a.py", ".b.md", "c.md"} |-> [lines |-> <<TRUE, FALSE, TRUE>>, big |-> FALSE, binary |-> FALSE]]}
MCTop == [t \in {"list_project_files", "search_repo"} |-> IF t = "search_repo" THEN 3 ELSE 4]

(* One service configured below a path, one not at all, one malformed.     *)
MCGatewayUrl == [s \in {"radarr", "sonarr", "sabnzbd"} |->
  CASE s = "radarr"  -> [origin |-> "nas:7878", path |-> <<"radarr">>]
    [] s = "sabnzbd" -> NoUrl
    [] OTHER         -> [origin |-> "none", path |-> <<>>]]
MCDefaultUrl == [s \in {"radarr", "sonarr", "sabnzbd"} |->
  [origin |-> "localhost:" \o s, path |-> <<>>]]
Args(tool, file, max) == [tool |-> tool, file |-> file, max |-> max,
                          valid |-> TRUE, usable |-> TRUE]
MCCalls ==
  {Args("radarr_add", Gone, 0), Args("sonarr_search", Gone, 0), Args("sabnzbd_pause", Gone, 0),
   Args("search_repo", Gone, 9), Args("list_project_files", Gone, -1),
   Args("inspect_file", "a.py", 0), Args("gen_delete", Gone, 0),
   [Args("radarr_search", Gone, 0) EXCEPT !.valid = FALSE],
   [Args("search_repo", Gone, 9) EXCEPT !.usable = FALSE]}
=============================================================================
