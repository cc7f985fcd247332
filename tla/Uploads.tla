------------------------------- MODULE Uploads -------------------------------
(***************************************************************************)
(* One resumable upload through the REST proxy: its initiation, and the    *)
(* chunks (and status queries) that continue it, several of which may be   *)
(* in flight.  A chunk is authorized by the session row and by the access  *)
(* the initiation needed, which is looked up again; a Gmail send also by   *)
(* the recipients in the message's header block, which only a chunk that   *)
(* starts at byte 0 shows.  Bytes are counted in steps, Unit of which are  *)
(* Google's resumable unit of 256 KiB.                                     *)
(***************************************************************************)
EXTENDS Naturals, FiniteSets, Sequences

CONSTANTS
  Callers,        \* requests that can be in flight at once
  Recipients,     \* what a message's To, Cc and Bcc can be
  NoOne,          \* none of them
  Unit,           \* RESUMABLE_UNIT
  Total,          \* the upload's length
  MaxReplays      \* bound on the answers with the file to data chunks sent again

ASSUME WholeUnits == Unit \in Nat /\ Unit > 1 /\ Total \in Nat /\ Total >= 2 * Unit
ASSUME ReplaysAreBounded == MaxReplays \in Nat
ASSUME NoOneIsNone == NoOne \notin Recipients

VARIABLES
  kind,           \* "send", "create" or "update": what the upload is
  session,        \* the resumable_uploads row: its stage and recipientVerdict
  facts,          \* which of "row", "delegation" and "writable" hold
  listed,         \* the recipients that the send rules allow
  google,         \* Google's session: the bytes it holds, and what it sent
  call,           \* the requests in flight
  granted,        \* times the created file was granted
  replayed,       \* answers with the file to data chunks sent again
  checked         \* recipients some byte-0 chunk was allowed with

vars == <<kind, session, facts, listed, google, call, granted, replayed, checked>>

(* A message is told by its recipients, and by whether its header block    *)
(* ends in the first step or beyond the first unit: only the bytes at      *)
(* Marks show which message they are of.                                   *)
Content == [to : Recipients, long : BOOLEAN]
Blank == [to |-> NoOne, long |-> FALSE]
Marks == {1, Unit + 1}
HeaderEnd(content) == IF content.long THEN Unit + 1 ELSE 1
Chunk(start, end) == [is |-> "chunk", start |-> start, end |-> end]
Status == [is |-> "status", start |-> 0, end |-> 0]
Unparsed == [is |-> "none", start |-> 0, end |-> 0]
Ranges ==
  {Chunk(0, Unit + 1), Chunk(0, Total), Chunk(1, Total), Chunk(Unit, Total), Status, Unparsed}

(* What a chunk may carry: one of a send that is refused for its range     *)
(* needs no message, and beyond byte 0 only the recipients tell.           *)
Carried(range) ==
  CASE kind # "send" \/ range.is # "chunk" \/ range.start = 1 -> {Blank}
    [] kind = "send" /\ range.is = "chunk" /\ range.start = 0 -> Content
    [] OTHER -> [to : Recipients, long : {FALSE}]
Stages == {"idle", "row", "delegation", "writable", "range", "allow", "deny", "forward", "grant"}
Idle == [stage |-> "idle", range |-> Unparsed, content |-> Blank, verdict |-> "none", stood |-> {}]
(* What a chunk's access is looked up by.                                  *)
Needed ==
  CASE kind = "send" -> <<"row", "delegation">> [] kind = "update" -> <<"writable">> [] kind = "create" -> <<>>
At(c, stage) == call[c].stage = stage
Asked == {Needed[i] : i \in DOMAIN Needed}
Standing == Asked \cap facts
To(c, stage) == call' = [call EXCEPT ![c].stage = stage]
Pass(c) == call' = [call EXCEPT ![c].stage = "forward", ![c].verdict = "none"]
Denied(c) == call' = [call EXCEPT ![c] = Idle]
------------------------------------------------------------------------------
(* Google opens a session, and the proxy adopts it: the row is inserted    *)
(* before the caller gets a URL.  The process may die in between.          *)
Initiate ==
  /\ session.stage = "none" /\ Asked \subseteq facts
  /\ session' = [session EXCEPT !.stage = "opened"]
  /\ UNCHANGED <<kind, facts, listed, google, call, granted, replayed, checked>>
AdoptResumableSession ==
  /\ session.stage = "opened"
  /\ session' \in {[session EXCEPT !.stage = "adopted"], [session EXCEPT !.stage = "none"]}
  /\ UNCHANGED <<kind, facts, listed, google, call, granted, replayed, checked>>

(* A chunk arrives, and the session row is read, with the verdict as it is *)
(* then.  A session too old only refuses what arrives, as if nothing did.  *)
Arrive(c) ==
  /\ At(c, "idle") /\ session.stage = "adopted"
  /\ \E r \in Ranges : \E content \in Carried(r) :
       call' = [call EXCEPT ![c] =
                  [stage |-> IF Needed = <<>> THEN "range" ELSE Needed[1], range |-> r, content |-> content,
                   verdict |-> session.verdict, stood |-> Standing]]
  /\ UNCHANGED <<kind, session, facts, listed, google, granted, replayed, checked>>
ReadRowOnly(c) ==                                                            \* mutant
  /\ At(c, "row") /\ IF "row" \in facts THEN To(c, "range") ELSE Denied(c)
  /\ UNCHANGED <<kind, session, facts, listed, google, granted, replayed, checked>>
ReadRow(c) ==
  /\ At(c, "row") /\ IF "row" \in facts THEN To(c, "delegation") ELSE Denied(c)
  /\ UNCHANGED <<kind, session, facts, listed, google, granted, replayed, checked>>
ReadLast(c) ==
  /\ \/ At(c, "delegation") \/ At(c, "writable")
  /\ IF call[c].stage \in facts THEN To(c, "range") ELSE Denied(c)
  /\ UNCHANGED <<kind, session, facts, listed, google, granted, replayed, checked>>

(* The ranges and headers of a send.                                       *)
HasHeader(c) == call[c].range.end >= HeaderEnd(call[c].content)
HeaderCheckedAnywhere(c) == HasHeader(c)                                     \* mutant
HeaderChecked(c) == HasHeader(c) /\ HeaderEnd(call[c].content) < Unit
AllowedRange(c) ==
  LET r == call[c].range
  IN  call[c].verdict = "allowed" /\ (r.is = "status" \/ r.start >= Unit)
Judge(c) ==
  /\ At(c, "range")
  /\ LET r == call[c].range
     IN  CASE kind # "send" -> Pass(c)
           [] kind = "send" /\ (call[c].verdict = "denied" \/ r.is = "none") -> Denied(c)
           [] kind = "send" /\ call[c].verdict # "denied" /\ r.is = "chunk" /\ r.start = 0 ->
                IF HeaderChecked(c) THEN To(c, IF call[c].content.to \in listed THEN "allow" ELSE "deny")
                ELSE Denied(c)
           [] OTHER -> IF AllowedRange(c) THEN Pass(c) ELSE Denied(c)
  /\ UNCHANGED <<kind, session, facts, listed, google, granted, replayed, checked>>
SetVerdict(c) ==
  /\ \/ At(c, "allow") /\ session' = [session EXCEPT !.verdict = "allowed"] /\ Pass(c)
        /\ checked' = checked \cup {call[c].content.to}
     \/ At(c, "deny") /\ session' = [session EXCEPT !.verdict = "denied"] /\ Denied(c) /\ UNCHANGED checked
  /\ UNCHANGED <<kind, facts, listed, google, granted, replayed>>
------------------------------------------------------------------------------
(* Google: bytes that follow those it holds are taken, a whole unit at a   *)
(* time unless they end the upload; bytes it holds already are replaced or *)
(* not.  What it holds when the upload ends is what it sends.              *)
Sent(bytes) == IF bytes[1].long THEN bytes[Unit + 1].to ELSE bytes[1].to
Taken(c, replaces) ==
  LET r == call[c].range
      first == IF replaces THEN r.start ELSE google.held
      bytes == [i \in Marks |-> IF i > first /\ i <= r.end THEN call[c].content ELSE google.bytes[i]]
      held == IF r.end = Total THEN Total ELSE (r.end \div Unit) * Unit
  IN  [google EXCEPT !.bytes = bytes, !.held = IF held > @ THEN held ELSE @, !.done = r.end = Total]
(* The created file gets its grant from the data chunk that completes it,  *)
(* not from a status query that Google also answers with the file.         *)
CreatesOnAnyAnswer(c) == kind = "create"                                     \* mutant
Creates(c) == kind = "create" /\ call[c].range.is = "chunk"
(* forwardToGoogle: the answer may be lost after Google took the bytes, or *)
(* the bytes before it.  A data chunk sent again to a session that is over *)
(* may be answered with the file too, as a status query is; that matters   *)
(* to a created file only.                                                 *)
Replay(c) ==
  /\ google.done /\ kind = "create" /\ call[c].range.is = "chunk"
  /\ replayed < MaxReplays /\ replayed' = replayed + 1
Forward(c) ==
  /\ At(c, "forward")
  /\ \/ /\ call[c].range.is # "status" /\ ~google.done /\ call[c].range.start <= google.held
        /\ \E replaces \in BOOLEAN : google' = Taken(c, replaces)
        /\ UNCHANGED replayed
     \/ Replay(c) /\ UNCHANGED google
     \/ UNCHANGED <<google, replayed>>
  /\ LET complete == /\ google'.done
                     /\ google' # google \/ replayed' # replayed \/ call[c].range.is = "status"
     IN  \/ Denied(c)
         \/ complete /\ Creates(c) /\ To(c, "grant")
  /\ UNCHANGED <<kind, session, facts, listed, granted, checked>>
GrantProxyCreatedFile(c) ==
  /\ At(c, "grant") /\ granted' = granted + 1 /\ Denied(c)
  /\ UNCHANGED <<kind, session, facts, listed, google, replayed, checked>>

(* Meanwhile: grants, rules and the session's age change, and a request's  *)
(* process is killed.                                                      *)
Notice(now) ==
  call' = [c \in Callers |->
             IF At(c, "idle") THEN call[c] ELSE [call[c] EXCEPT !.stood = @ \cup (now \cap Asked)]]
Toggle ==
  /\ ~google.done
  /\ \E f \in Asked :
       LET now == IF f \in facts THEN facts \ {f} ELSE facts \cup {f}
       IN  facts' = now /\ Notice(now)
  /\ UNCHANGED <<kind, session, listed, google, granted, replayed, checked>>
Relist ==
  /\ kind = "send" /\ ~google.done /\ listed' \in SUBSET Recipients
  /\ UNCHANGED <<kind, session, facts, google, call, granted, replayed, checked>>
Crash(c) ==
  /\ ~At(c, "idle") /\ Denied(c)
  /\ UNCHANGED <<kind, session, facts, listed, google, granted, replayed, checked>>

Init ==
  /\ kind \in {"send", "create", "update"} /\ session = [stage |-> "none", verdict |-> "none"]
  /\ facts = {"row", "delegation", "writable"} /\ listed \in SUBSET Recipients
  /\ google = [bytes |-> [i \in Marks |-> Blank], held |-> 0, done |-> FALSE]
  /\ call = [c \in Callers |-> Idle] /\ granted = 0 /\ replayed = 0 /\ checked = {}

Handle(c) ==
  \/ Arrive(c) \/ ReadRow(c) \/ ReadLast(c) \/ Judge(c) \/ SetVerdict(c) \/ Forward(c)
  \/ GrantProxyCreatedFile(c) \/ Crash(c)
Next == Initiate \/ AdoptResumableSession \/ Toggle \/ Relist \/ \E c \in Callers : Handle(c)

Spec == Init /\ [][Next]_vars
------------------------------------------------------------------------------
TypeOK ==
  /\ kind \in {"send", "create", "update"}
  /\ session \in [stage : {"none", "opened", "adopted"}, verdict : {"none", "allowed", "denied"}]
  /\ facts \subseteq {"row", "delegation", "writable"} /\ listed \subseteq Recipients
  /\ google \in [bytes : [Marks -> Content \cup {Blank}], held : 0..Total, done : BOOLEAN]
  /\ google.done <=> google.held = Total
  /\ call \in [Callers -> [stage : Stages, range : Ranges, content : Content \cup {Blank},
                          verdict : {"none", "allowed", "denied"}, stood : SUBSET {"row", "delegation", "writable"}]]
  /\ granted \in Nat /\ replayed \in 0..MaxReplays /\ checked \subseteq Recipients

(* A message goes out only to recipients that the rules allowed when some  *)
(* byte-0 chunk of it was checked, whatever chunks overlap, are sent again *)
(* or race each other (route.ts:899-904).                                  *)
SentAsChecked == kind = "send" /\ google.done => Sent(google.bytes) \in checked

(* Google is given nothing by a request unless everything the initiation   *)
(* needed stood again at some moment of that request (route.ts:894).       *)
ForwardedOnlyWhatStood ==
  [][\A c \in Callers : google' # google /\ call'[c] # call[c]
        => Asked \subseteq call[c].stood]_vars

(* The file an upload creates is granted once for the data chunk that      *)
(* completes the upload, and at most once more for each data chunk sent    *)
(* again that Google answers with the file; status queries add no grant,   *)
(* however many are asked and whatever they race (route.ts:1001-1005).     *)
GrantedOnce == granted <= 1 + replayed

(* The same without the chunks sent again: violated.  The code grants on   *)
(* any 200 or 201 to a data chunk, so a client that lost the last answer   *)
(* and repeats its chunk may have the file granted again.                  *)
GrantedJustOnce == granted <= 1
==============================================================================
