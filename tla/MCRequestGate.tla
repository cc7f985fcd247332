---------------------------- MODULE MCRequestGate ----------------------------
(***************************************************************************)
(* An instance of RequestGate.  The calls are the endpoints that the       *)
(* policy names, each respelt in every way that adds or leaves out one     *)
(* segment, and once more with an "upload" or an empty segment in front.   *)
(***************************************************************************)
EXTENDS RequestGate, TLC

CONSTANTS k1, k2, r1, c1
TwoKeys == {k1, k2}
OneRule == {r1}
OneCaller == {c1}

Mail == <<"gmail", "v1", "users", "me">>
Endpoints ==
  {Mail \o e : e \in {<<"messages">>, <<"messages", "send">>, <<"drafts", "send">>,
                      <<"messages", "batchdelete">>, <<"settings", "filters">>}}
  \cup {<<"drive", v, "files">> \o e : v \in DriveVersions,
          e \in {<<>>, <<"id1">>, <<"id1", "comments">>, <<"id1", "copy">>, <<"generateids">>}}
  \cup {<<"v4", "spreadsheets">>, <<"v4", "spreadsheets", "id1", "values">>, <<"v1", "documents", "id1">>,
        <<"slides", "v1", "presentations", "id1">>, <<"batch", "gmail", "v1">>, <<"v1", "people">>}
Inserted == {"", "upload", "batch", "..", "drive", "v3", "files", "id2", "send", "spreadsheets", "sheets", "v4",
             "people", "gmail", "comments"}
Respelt(p) ==
  {SubSeq(p, 1, i) \o <<s>> \o SubSeq(p, i + 1, Len(p)) : i \in 0..Len(p), s \in Inserted}
    \cup {RemoveAt(p, i) : i \in DOMAIN p}
Once == Endpoints \cup UNION {Respelt(p) : p \in Endpoints}
MCCalls == [method : {"GET", "POST", "PATCH", "DELETE"}, path : Once \cup {<<s>> \o p : p \in Once, s \in {"", "upload"}}]
==============================================================================
