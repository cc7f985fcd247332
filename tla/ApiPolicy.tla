------------------------------ MODULE ApiPolicy ------------------------------
(***************************************************************************)
(* The pure classifier of raw Google API calls (src/src/app/api/mcp/       *)
(* googleApiPolicy.ts), shared by the MCP tools and the REST proxy, next   *)
(* to what Google serves at the URL the call is forwarded to.  A path is  *)
(* the sequence of its segments, in lower case; "" is what a repeated or   *)
(* leading slash leaves, and a segment's verb (":append") is left out: the *)
(* code drops it wherever it compares a family or a collection.            *)
(***************************************************************************)
EXTENDS Naturals, Sequences, SequencesExt

CONSTANTS
  Ids,            \* ids of files, messages and drafts
  Calls           \* the calls that are checked: [method |-> .., path |-> ..]

ASSUME CallsHaveMethodAndPath ==
  \A c \in Calls : DOMAIN c = {"method", "path"} /\ c.path \in Seq(STRING)

ForwardableMethods == {"GET", "POST", "PUT", "PATCH"}
UnsupportedFamilies == {"people", "contacts", "calendar", "tasks", "youtube", "chat", "admin",
                        "classroom", "photoslibrary", "meet", "groups"}
(* The kinds of native files, in the order the classifier tries them.      *)
Kinds == <<"spreadsheets", "documents", "presentations">>
Version == [spreadsheets |-> "v4", documents |-> "v1", presentations |-> "v1"]
Prefix == [spreadsheets |-> "sheets", documents |-> "docs", presentations |-> "slides"]
DriveVersions == {"v2", "v3"}

NonEmpty(p) == SelectSeq(p, LAMBDA s : s # "")
StartsWith(p, sets) == Len(p) >= Len(sets) /\ \A i \in DOMAIN sets : p[i] \in sets[i]
Without(p, s) == IF p # <<>> /\ Head(p) = s THEN Tail(p) ELSE p
First(p, P(_)) == CHOOSE i \in DOMAIN p : P(i) /\ \A j \in 1..(i - 1) : ~P(j)

IsDrivePath(p) == StartsWith(Without(NonEmpty(p), "upload"), <<{"drive"}, STRING>>)

WithoutLeadingSlashes(p) ==
  IF NonEmpty(p) = <<>> THEN <<>> ELSE SubSeq(p, First(p, LAMBDA i : p[i] # ""), Len(p))

(* One spelling per Drive path: no empty segments.                         *)
CollapseDrivePathNot(p) == p                                                 \* mutant
CollapseDrivePath(p) == IF IsDrivePath(p) THEN NonEmpty(p) ELSE p

(* canonicalizeGoogleApiPath: bare Drive paths get their family.           *)
Canonical(path) ==
  LET p == WithoutLeadingSlashes(path)
      bare == StartsWith(p, <<DriveVersions, {"files", "drives", "about", "changes"}>>)
  IN  CollapseDrivePath(IF bare THEN <<"drive">> \o p ELSE p)

HasDotSegment(p) == \E i \in DOMAIN p : p[i] \in {".", ".."}

NamesKind(p, k) == \E i \in DOMAIN p : p[i] = k
FileKind(p) ==
  LET named == SelectSeq(Kinds, LAMBDA k : NamesKind(p, k))
  IN  IF named = <<>> THEN "none" ELSE Head(named)

(* The id after the collection segment; "" when there is none.             *)
FileKindId(k, p) ==
  LET At(i) == p[i] = k /\ i < Len(p) /\ p[i + 1] # ""
  IN  IF \E i \in DOMAIN p : At(i) THEN p[First(p, At) + 1] ELSE ""

Class(kind, id, mutating) == [kind |-> kind, id |-> id, mutating |-> mutating]
Denied(code) == Class("denied", code, FALSE)
(* What is left over: Drive's own listings, and families the code has no   *)
(* rules for.                                                              *)
Passthrough(segments, mutating) ==
  Class(IF StartsWith(segments, <<{"drive"}, STRING>>) THEN "drive_passthrough" ELSE "passthrough",
        "", mutating)

ClassifyGmail(segments, mutating) ==
  LET n == Len(segments)
      Ends(parent, last) == n >= 2 /\ segments[n] = last /\ segments[n - 1] = parent
  IN  CASE ~mutating -> Class("gmail_read", "", FALSE)
        [] mutating /\ Ends("messages", "send") -> Class("gmail_send", "", TRUE)
        [] mutating /\ Ends("drafts", "send") -> Class("gmail_draft_send", "", TRUE)
        [] mutating /\ Ends("messages", "batchdelete") -> Denied("gmail_write_unsupported")
        [] OTHER -> IF \E i \in DOMAIN segments : segments[i] = "settings"
                    THEN Denied("gmail_settings_unsupported")
                    ELSE Class("gmail_write", "", TRUE)

(* Drive and everything else: the path itself is matched from its start,   *)
(* and only some of the patterns look behind an upload prefix.             *)
ClassifyDrive(p, segments, mutating) ==
  LET collection == <<{"drive"}, DriveVersions, {"files"}>>
      uploaded == Without(p, "upload")
      named == StartsWith(uploaded, Append(collection, STRING)) /\ uploaded[4] # ""
  IN  IF StartsWith(p, Append(collection, STRING) \o <<{"comments"}>>) /\ p[4] # ""
      THEN Class("file_comments", p[4], mutating)
      ELSE IF /\ mutating /\ Len(p) = 5 /\ p[4] # ""
              /\ StartsWith(p, Append(collection, STRING) \o <<{"copy"}>>)
      THEN Class("drive_copy", p[4], TRUE)
      ELSE IF mutating /\ Len(uploaded) = 3 /\ StartsWith(uploaded, collection)
      THEN Class("drive_create", "", TRUE)
      ELSE IF named /\ uploaded[4] # "generateids"
      THEN Class("drive_file", uploaded[4], mutating)
      ELSE Passthrough(segments, mutating)

Classify(c) ==
  LET p == Canonical(c.path)
      segments == Without(NonEmpty(p), "upload")
      mutating == c.method # "GET"
      kind == FileKind(p)
      id == FileKindId(kind, p)
  IN  IF c.method \notin ForwardableMethods THEN Denied("raw_api_method_unsupported")
      ELSE IF HasDotSegment(p) THEN Denied("raw_api_path_malformed")
      ELSE IF NamesKind(segments, "batch") THEN Denied("raw_api_batch_unsupported")
      ELSE IF \E i \in DOMAIN segments \cap {1, 2} : segments[i] \in UnsupportedFamilies
      THEN Denied("raw_api_family_unsupported")
      ELSE IF kind # "none"
      THEN IF id # "" THEN Class("file", id, mutating)
           ELSE Class(IF mutating THEN "file_create" ELSE "passthrough", "", mutating)
      ELSE IF segments # <<>> /\ Head(segments) = "gmail" THEN ClassifyGmail(segments, mutating)
      ELSE ClassifyDrive(p, segments, mutating)

(* rawUrl: the host that owns the family, and the path there.              *)
RawUrl(path) ==
  LET p == Canonical(path)
      k == FileKind(p)
      rest == Without(p, Prefix[k])
  IN  IF k = "none" THEN [host |-> "www", path |-> p]
      ELSE [host |-> k, path |-> IF rest # <<>> /\ Head(rest) = Version[k] THEN rest
                                 ELSE <<Version[k]>> \o rest]
------------------------------------------------------------------------------
(* What Google serves at a URL: the operation, and the file it is on.  The *)
(* grammar is the one the code's comments state: uploads are twins of      *)
(* their endpoints, Drive reads through repeated slashes, dot segments are *)
(* resolved before the request leaves, and nothing else is served.         *)

Resolved(p) ==
  FoldLeft(LAMBDA done, s : IF s = "." THEN done
                            ELSE IF s = ".." THEN (IF done = <<>> THEN done ELSE Front(done))
                            ELSE Append(done, s), <<>>, p)

Op(name, id) == [op |-> name, id |-> id]
Nothing == Op("nothing", "")

ServesFiles(k, p) ==
  IF ~StartsWith(p, <<{Version[k]}, {k}>>) THEN Nothing
  ELSE IF Len(p) = 2 THEN Op("collection", "")
  ELSE IF p[3] \in Ids THEN Op("content", p[3]) ELSE Nothing

ServesDrive(p) ==
  IF ~StartsWith(p, <<{"drive"}, DriveVersions, {"files"}>>) THEN Nothing
  ELSE IF Len(p) = 3 THEN Op("collection", "")
  ELSE IF p[4] \notin Ids THEN Nothing
  ELSE Op(IF Len(p) > 4 /\ p[5] = "comments" THEN "comments"
          ELSE IF Len(p) = 5 /\ p[5] = "copy" THEN "copy" ELSE "content", p[4])

ServesGmail(p) ==
  IF ~StartsWith(p, <<{"gmail"}, {"v1"}, {"users"}, {"me"},
                    {"messages", "drafts", "threads", "labels", "settings"}>>) \/ NonEmpty(p) # p
  THEN Nothing
  ELSE IF p[5] \in {"messages", "drafts"} /\ Len(p) = 6 /\ p[6] = "send" THEN Op("send_" \o p[5], "")
  ELSE IF p[5] = "messages" /\ Len(p) = 6 /\ p[6] = "batchdelete" THEN Op("destroy", "")
  ELSE Op(IF p[5] = "settings" THEN "settings" ELSE "mail", "")

Serves(url) ==
  LET p == Resolved(url.path)
  IN  IF url.host # "www" THEN ServesFiles(url.host, p)
      ELSE IF p # <<>> /\ Head(p) = "batch" THEN Op("batch", "")
      ELSE IF IsDrivePath(p) THEN ServesDrive(Without(NonEmpty(p), "upload"))
      ELSE ServesGmail(Without(p, "upload"))
=============================================================================
