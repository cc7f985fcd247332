-------------------------- MODULE GmailCursorProofs --------------------------
(***************************************************************************)
(* The cursors for any number of subscriptions, handlers, renewals,        *)
(* consents, messages and failures: no readable message is passed over by  *)
(* a cursor that exists, and a detached partner gets nothing.              *)
(***************************************************************************)
EXTENDS GmailCursor, TLAPS

SubRow == [status : {"none", "active", "suspended", "cancelled"}, cursor : Cursor,
           watch : {"due", "good"}]
HandlerState ==
  [pc : {"idle", "loop", "enqueue"}, note : Message \union {0}, todo : SUBSET Subs,
   snap : [Subs -> Cursor], keyed : [Subs -> Key \union {0}], sub : SUBSET Subs,
   ids : SUBSET Message, new : Message \union {0}]
JobState ==
  [pc : {"idle", "subscribe", "arm", "write", "block", "revoke", "attach", "cancel", "others", "stop"},
   todo : SUBSET Subs, snap : [Subs -> Cursor], got : Message \union {0}, key : Key \union {0}]

Typed ==
  /\ history \in Message \union {0} /\ watched \in BOOLEAN
  /\ sub \in [Subs -> SubRow] /\ start \in [Subs -> Cursor]
  /\ bound \in [Subs -> Key \union {0}] /\ key \in [Subs -> [Key -> {"none", "live", "dead"}]]
  /\ enqueued \in [Subs -> SUBSET Message] /\ given \in [Subs -> SUBSET Message]
  /\ notes \subseteq Message /\ unacked \subseteq notes
  /\ handler \in [Handlers -> HandlerState] /\ job \in [Jobs -> JobState]
  /\ faults \in 0..MaxFaults

LEMMA TypedIsTypeOK == Typed <=> TypeOK
BY DEF Typed, TypeOK, SubRow, HandlerState, JobState

LEMMA Blank == Quiet \in HandlerState /\ NoJob \in JobState /\ NoSub \in SubRow
BY DEF Quiet, NoJob, NoSub, HandlerState, JobState, SubRow, Cursor

(* What is between a message and the readings of the history.              *)
LEMMA Readings ==
  /\ MaxHistory \in Nat /\ MaxFaults \in Nat /\ Message \subseteq Nat \ {0}
  /\ Cursor \subseteq Int /\ Readable \subseteq Message /\ Established \subseteq Subs
  /\ NoCursor \in Cursor /\ Message \union {0} \subseteq Cursor \ {NoCursor}
BY CursorParameters DEF Message, Cursor, NoCursor

LEMMA TypedInit == Init => Typed
<1>. SUFFICES ASSUME Init PROVE Typed
  OBVIOUS
<1>1. sub \in [Subs -> SubRow]
  <2>1. [status |-> "active", cursor |-> 0, watch |-> "good"] \in SubRow
    BY Readings DEF SubRow
  <2>. QED BY <2>1, Blank DEF Init
<1>2. 1 \in Key /\ 0 \in 0..MaxFaults
  BY CursorParameters DEF Key
<1>3. watched \in BOOLEAN
  BY DEF Init
<1>. QED BY <1>1, <1>2, <1>3, Readings, Blank DEF Init, Typed

LEMMA PublishOK ==
  ASSUME Typed, NEW n \in Message, Publish(n) \/ UNCHANGED pubsub
  PROVE  notes' \subseteq Message /\ unacked' \subseteq notes'
BY DEF Typed, Publish, pubsub

LEMMA SetCursorOK ==
  ASSUME Typed, NEW s \in Subs, NEW c \in Cursor, SetCursor(s, c)
  PROVE  sub' \in [Subs -> SubRow] /\ start' \in [Subs -> Cursor]
<1>1. [sub[s] EXCEPT !.cursor = c] \in SubRow
  <2>1. sub[s] \in SubRow
    BY DEF Typed
  <2>. QED BY <2>1 DEF SubRow
<1>. QED BY <1>1 DEF SetCursor, Typed

LEMMA DoneOK ==
  ASSUME Typed, NEW h \in Handlers, NEW s \in Subs, Done(h, s)
  PROVE  handler' \in [Handlers -> HandlerState]
<1>. DEFINE new == [handler[h] EXCEPT !.pc = "loop", !.todo = @ \ {s}, !.sub = {}, !.ids = {}, !.new = 0]
<1>1. handler[h] \in HandlerState
  BY DEF Typed
<1>2. new \in HandlerState
  BY <1>1 DEF HandlerState
<1>3. handler' = [handler EXCEPT ![h] = new]
  BY DEF Done
<1>. HIDE DEF new
<1>. QED BY <1>2, <1>3 DEF Typed

LEMMA TypedKept == Typed /\ [Next]_vars => Typed'
<1>. SUFFICES ASSUME Typed, [Next]_vars PROVE Typed'
  OBVIOUS
<1>. USE DEF mailbox, pubsub, access, ghosts
<1>f. Fault => faults' \in 0..MaxFaults
  BY Readings DEF Fault, Typed
<1>h. ASSUME NEW h \in Handlers, NEW new \in HandlerState, handler' = [handler EXCEPT ![h] = new]
      PROVE  handler' \in [Handlers -> HandlerState]
  BY <1>h DEF Typed
<1>j. ASSUME NEW j \in Jobs, NEW new \in JobState, job' = [job EXCEPT ![j] = new]
      PROVE  job' \in [Jobs -> JobState]
  BY <1>j DEF Typed
<1>1. CASE Arrive
  <2>1. history + 1 \in Message
    BY <1>1, Readings DEF Arrive, Typed, Message
  <2>2. notes' \subseteq Message /\ unacked' \subseteq notes'
    BY <1>1, <2>1, PublishOK DEF Arrive
  <2>. QED BY <1>1, <2>1, <2>2 DEF Arrive, Typed
<1>2. ASSUME NEW s \in Subs, ExpiryNears(s) PROVE Typed'
  <2>1. [sub[s] EXCEPT !.watch = "due"] \in SubRow
    BY DEF Typed, SubRow
  <2>. QED BY <1>2, <1>f, <2>1 DEF ExpiryNears, Typed
<1>3. CASE WatchEnds
  BY <1>3 DEF WatchEnds, Typed
<1>4. ASSUME NEW s \in Subs, NEW k \in Key, KeyDies(s, k) PROVE Typed'
  BY <1>4, <1>f DEF KeyDies, Typed
<1>5. ASSUME NEW h \in Handlers, NEW n \in notes, Receive(h, n) PROVE Typed'
  <2>. DEFINE new == [Quiet EXCEPT !.pc = "loop", !.note = n, !.todo = {s \in Subs : Active(s)},
                                   !.snap = Cursors, !.keyed = bound]
  <2>1. Cursors \in [Subs -> Cursor]
    BY DEF Cursors, Typed, SubRow
  <2>2. new \in HandlerState
    BY <2>1, Blank DEF HandlerState, Typed
  <2>3. handler' = [handler EXCEPT ![h] = new]
    BY <1>5 DEF Receive
  <2>. HIDE DEF new
  <2>. QED BY <1>5, <1>h, <2>2, <2>3 DEF Receive, Typed
<1>6. ASSUME NEW h \in Handlers, NEW s \in Subs, SkipSub(h, s) PROVE Typed'
  BY <1>6, DoneOK DEF SkipSub, Typed
<1>7. ASSUME NEW h \in Handlers, NEW s \in Subs, AdoptCursor(h, s) PROVE Typed'
  <2>1. handler[h].note \in Cursor
    BY Readings DEF Typed, HandlerState
  <2>2. sub' \in [Subs -> SubRow] /\ start' \in [Subs -> Cursor] /\ handler' \in [Handlers -> HandlerState]
    BY <1>7, <2>1, SetCursorOK, DoneOK DEF AdoptCursor
  <2>. QED BY <1>7, <2>2 DEF AdoptCursor, Typed
<1>8. ASSUME NEW h \in Handlers, NEW s \in Subs, Diff(h, s) PROVE Typed'
  <2>. DEFINE new == [handler[h] EXCEPT !.pc = "enqueue", !.sub = {s},
                        !.ids = Between(handler[h].snap[s], history), !.new = history]
  <2>1. handler[h] \in HandlerState /\ Between(handler[h].snap[s], history) \subseteq Message
    BY DEF Typed, Between
  <2>2. new \in HandlerState
    BY <2>1 DEF HandlerState, Typed
  <2>3. handler' = [handler EXCEPT ![h] = new]
    BY <1>8 DEF Diff
  <2>. HIDE DEF new
  <2>. QED BY <1>8, <1>h, <2>2, <2>3 DEF Diff, Typed
<1>9. ASSUME NEW h \in Handlers, NEW s \in Subs, Resync(h, s) PROVE Typed'
  <2>1. handler[h].note \in Cursor
    BY Readings DEF Typed, HandlerState
  <2>2. sub' \in [Subs -> SubRow] /\ start' \in [Subs -> Cursor] /\ handler' \in [Handlers -> HandlerState]
    BY <1>9, <2>1, SetCursorOK, DoneOK DEF Resync
  <2>3. given' \in [Subs -> SUBSET Message]
    BY <1>9 DEF Resync, Between, Typed
  <2>. QED BY <1>9, <1>f, <2>2, <2>3 DEF Resync, Typed
<1>10. ASSUME NEW h \in Handlers, NEW s \in Subs, NEW m \in Message, Consider(h, s, m) \/ GiveUp(h, s, m)
       PROVE  Typed'
  <2>. DEFINE new == [handler[h] EXCEPT !.ids = @ \ {m}]
  <2>1. handler[h] \in HandlerState
    BY DEF Typed
  <2>2. new \in HandlerState
    BY <2>1 DEF HandlerState
  <2>3. handler' = [handler EXCEPT ![h] = new]
    BY <1>10 DEF Consider, GiveUp
  <2>4. CASE Consider(h, s, m)
    <3>1. enqueued' \in [Subs -> SUBSET Message]
      <4>1. CASE m \in Readable
        BY <2>4, <4>1 DEF Consider, Typed
      <4>2. CASE m \notin Readable
        BY <2>4, <4>2 DEF Consider, Typed
      <4>. QED BY <4>1, <4>2
    <3>. HIDE DEF new
    <3>. QED BY <1>h, <2>2, <2>3, <2>4, <3>1 DEF Consider, Typed
  <2>5. CASE GiveUp(h, s, m)
    <3>1. given' \in [Subs -> SUBSET Message]
      BY <2>5 DEF GiveUp, Typed
    <3>. HIDE DEF new
    <3>. QED BY <1>f, <1>h, <2>2, <2>3, <2>5, <3>1 DEF GiveUp, Typed
  <2>. QED BY <1>10, <2>4, <2>5
<1>11. ASSUME NEW h \in Handlers, NEW s \in Subs, Advance(h, s) PROVE Typed'
  <2>1. Greatest(sub[s].cursor, handler[h].new) \in Cursor
    BY Readings DEF Greatest, Typed, HandlerState, SubRow
  <2>2. sub' \in [Subs -> SubRow] /\ start' \in [Subs -> Cursor] /\ handler' \in [Handlers -> HandlerState]
    BY <1>11, <2>1, SetCursorOK, DoneOK DEF Advance
  <2>. QED BY <1>11, <2>2 DEF Advance, Typed
<1>12. ASSUME NEW h \in Handlers, Ack(h) \/ HandlerFails(h) PROVE Typed'
  BY <1>12, <1>f, <1>h, Blank DEF Ack, HandlerFails, Typed
<1>13. ASSUME NEW j \in Jobs, NEW s \in Subs, Provision(j, s) PROVE Typed'
  <2>1. [NoJob EXCEPT !.pc = "subscribe", !.todo = {s}] \in JobState
    BY Blank DEF JobState
  <2>2. PICK k \in Key : key' = [key EXCEPT ![s][k] = "live"] /\ bound' = [bound EXCEPT ![s] = k]
    BY <1>13 DEF Provision, NewKey, Unused
  <2>. QED BY <1>13, <1>j, <2>1, <2>2 DEF Provision, Typed
<1>14. ASSUME NEW j \in Jobs, NEW s \in Subs, Subscribe(j, s) PROVE Typed'
  <2>1. Cursors \in [Subs -> Cursor] /\ [sub[s] EXCEPT !.status = "active"] \in SubRow
    <3>1. sub \in [Subs -> SubRow]
      BY DEF Typed
    <3>2. Cursors \in [Subs -> Cursor]
      BY <3>1 DEF Cursors, SubRow
    <3>3. [sub[s] EXCEPT !.status = "active"] \in SubRow
      BY <3>1 DEF SubRow
    <3>. QED BY <3>2, <3>3
  <2>2. [NoJob EXCEPT !.pc = "arm", !.todo = {s}, !.snap = Cursors] \in JobState
    BY <2>1, Blank DEF JobState
  <2>. QED BY <1>14, <1>j, <2>1, <2>2 DEF Subscribe, Typed
<1>15. ASSUME NEW j \in Jobs, Renew(j) PROVE Typed'
  <2>1. Cursors \in [Subs -> Cursor] /\ ToRenew \subseteq Subs
    BY DEF Cursors, ToRenew, Typed, SubRow
  <2>2. [NoJob EXCEPT !.pc = "arm", !.todo = ToRenew, !.snap = Cursors] \in JobState
    BY <2>1, Blank DEF JobState
  <2>. QED BY <1>15, <1>j, <2>2 DEF Renew, Typed
<1>16. ASSUME NEW j \in Jobs, ArmWatch(j) PROVE Typed'
  <2>1. notes' \subseteq Message /\ unacked' \subseteq notes'
    BY <1>16, PublishOK DEF ArmWatch, Typed
  <2>2. [job[j] EXCEPT !.pc = "write", !.got = history] \in JobState
    <3>1. job[j] \in JobState /\ history \in Message \union {0}
      BY DEF Typed
    <3>. QED BY <3>1 DEF JobState
  <2>. QED BY <1>16, <1>j, <2>1, <2>2 DEF ArmWatch, Typed
<1>17. ASSUME NEW j \in Jobs, NEW s \in Subs, WriteArmed(j, s) PROVE Typed'
  <2>. DEFINE c == IF job[j].snap[s] # NoCursor THEN job[j].snap[s] ELSE job[j].got
              new == IF job[j].todo = {s} THEN NoJob ELSE [job[j] EXCEPT !.todo = @ \ {s}]
  <2>0. job[j].snap[s] \in Cursor /\ job[j].got \in Cursor
    <3>1. job[j] \in JobState
      BY DEF Typed
    <3>. QED BY <3>1, Readings DEF JobState
  <2>1. c \in Cursor
    BY <2>0
  <2>2. [sub[s] EXCEPT !.cursor = c, !.watch = "good"] \in SubRow
    <3>1. sub[s] \in SubRow
      BY DEF Typed
    <3>. HIDE DEF c
    <3>. QED BY <2>1, <3>1 DEF SubRow
  <2>3. new \in JobState
    BY Blank DEF Typed, JobState
  <2>4. sub' = [sub EXCEPT ![s] = [sub[s] EXCEPT !.cursor = c, !.watch = "good"]]
    BY <1>17 DEF WriteArmed, Typed
  <2>5. start' \in [Subs -> Cursor]
    BY <1>17, <2>1 DEF WriteArmed, Typed
  <2>6. job' = [job EXCEPT ![j] = new]
    BY <1>17 DEF WriteArmed
  <2>. HIDE DEF c, new
  <2>7. sub' \in [Subs -> SubRow] /\ job' \in [Jobs -> JobState]
    BY <1>j, <2>2, <2>3, <2>4, <2>6 DEF Typed
  <2>. QED BY <1>17, <2>5, <2>7 DEF WriteArmed, Typed
<1>18. ASSUME NEW j \in Jobs, NEW s \in Subs, ReadConnection(j, s) PROVE Typed'
  <2>1. [NoJob EXCEPT !.pc = "block", !.todo = {s}, !.key = bound[s]] \in JobState
    BY Blank DEF JobState, Typed
  <2>. QED BY <1>18, <1>j, <2>1 DEF ReadConnection, Typed
<1>19. ASSUME NEW j \in Jobs, NEW s \in Subs, Block(j, s) \/ Revoke(j, s) PROVE Typed'
  <2>1. \A pc \in {"cancel", "revoke"} : [job[j] EXCEPT !.pc = pc] \in JobState
    BY DEF Typed, JobState
  <2>2. \E pc \in {"cancel", "revoke"} : job' = [job EXCEPT ![j] = [job[j] EXCEPT !.pc = pc]]
    BY <1>19 DEF Block, Revoke
  <2>3. job' \in [Jobs -> JobState]
    BY <1>j, <2>1, <2>2
  <2>4. key' \in [Subs -> [Key -> {"none", "live", "dead"}]]
    <3>1. CASE Block(j, s)
      BY <3>1 DEF Block, Typed
    <3>2. CASE Revoke(j, s)
      <4>1. [key[s] EXCEPT ![job[j].key] = "dead"] \in [Key -> {"none", "live", "dead"}]
        BY DEF Typed
      <4>2. key' = [key EXCEPT ![s] = [key[s] EXCEPT ![job[j].key] = "dead"]]
        BY <3>2 DEF Revoke
      <4>. QED BY <4>1, <4>2 DEF Typed
    <3>. QED BY <1>19, <3>1, <3>2
  <2>5. bound' \in [Subs -> Key \union {0}]
    BY <1>19 DEF Block, Revoke, Typed
  <2>. QED BY <1>19, <2>3, <2>4, <2>5 DEF Block, Revoke, Typed
<1>20. ASSUME NEW j \in Jobs, NEW s \in Subs, Cancel(j, s) PROVE Typed'
  <2>1. [NoJob EXCEPT !.pc = "others"] \in JobState /\ [sub[s] EXCEPT !.status = "cancelled"] \in SubRow
    BY Blank DEF JobState, Typed, SubRow
  <2>2. job' \in [Jobs -> JobState]
    BY <1>20, <1>j, <2>1, Blank DEF Cancel
  <2>. QED BY <1>20, <2>1, <2>2 DEF Cancel, Typed
<1>21. ASSUME NEW j \in Jobs, LookForOthers(j) \/ StopWatch(j) \/ JobFails(j) PROVE Typed'
  <2>1. [NoJob EXCEPT !.pc = "stop"] \in JobState
    BY Blank DEF JobState
  <2>2. job' \in [Jobs -> JobState]
    BY <1>21, <1>j, <2>1, Blank DEF LookForOthers, StopWatch, JobFails
  <2>. QED BY <1>21, <1>f, <2>2 DEF LookForOthers, StopWatch, JobFails, Typed
<1>22. ASSUME NEW s \in Subs, Suspend(s) PROVE Typed'
  <2>1. [sub[s] EXCEPT !.status = "suspended"] \in SubRow
    BY DEF Typed, SubRow
  <2>. QED BY <1>22, <1>f, <2>1 DEF Suspend, Typed
<1>23. ASSUME NEW j \in Jobs, NEW s \in Subs, ReadProfile(j, s) PROVE Typed'
  <2>1. PICK k \in Key : /\ key' = key \/ key' = [key EXCEPT ![s][k] = "live"]
                        /\ job' = [job EXCEPT ![j] = [NoJob EXCEPT !.pc = "attach", !.todo = {s}, !.key = k]]
    BY <1>23 DEF ReadProfile, NewKey
  <2>2. [NoJob EXCEPT !.pc = "attach", !.todo = {s}, !.key = k] \in JobState
    BY Blank DEF JobState
  <2>3. key' \in [Subs -> [Key -> {"none", "live", "dead"}]]
    BY <2>1 DEF Typed
  <2>. QED BY <1>23, <1>j, <2>1, <2>2, <2>3 DEF ReadProfile, Typed
<1>24. ASSUME NEW j \in Jobs, NEW s \in Subs, Attach(j, s) PROVE Typed'
  <2>1. job[j].key \in Key \union {0}
    BY DEF Typed, JobState
  <2>. QED BY <1>24, <1>j, <2>1, Blank DEF Attach, Typed
<1>25. CASE UNCHANGED vars
  BY <1>25 DEF vars, Typed
<1>. QED
  BY <1>1, <1>2, <1>3, <1>4, <1>5, <1>6, <1>7, <1>8, <1>9, <1>10, <1>11, <1>12, <1>13, <1>14, <1>15,
     <1>16, <1>17, <1>18, <1>19, <1>20, <1>21, <1>22, <1>23, <1>24, <1>25
  DEF Next, HandlerStep, JobStep

(* Every state of the cursors is of its type.                              *)
THEOREM CursorTypeCorrect == Spec => []TypeOK
<1>. QED BY TypedInit, TypedKept, TypedIsTypeOK, PTL DEF Spec
------------------------------------------------------------------------------
(* NothingPassedOver is not inductive: a cursor is written from what was   *)
(* read some steps before.  Every cursor that anybody still remembers has  *)
(* nothing unannounced behind it, and what a handler has read of the       *)
(* history is announced, given up, or on the list it is working through.   *)
Covered(s, c) == \A m \in Readable : m <= c => m \in enqueued[s] \union given[s]

RowCovered(s) == sub[s].cursor # NoCursor /\ start[s] = 0 /\ Covered(s, sub[s].cursor)

HandlerCovered(h, s) ==
  /\ handler[h].pc # "idle" => handler[h].snap[s] # NoCursor /\ Covered(s, handler[h].snap[s])
  /\ s \in handler[h].sub =>
       /\ handler[h].sub = {s}
       /\ \A m \in Readable : m <= handler[h].new => m \in handler[h].ids \union enqueued[s] \union given[s]

JobCovered(j, s) ==
  job[j].pc \in {"arm", "write"} => job[j].snap[s] # NoCursor /\ Covered(s, job[j].snap[s])

CoverInv ==
  \A s \in Established :
    /\ RowCovered(s)
    /\ \A h \in Handlers : HandlerCovered(h, s)
    /\ \A j \in Jobs : JobCovered(j, s)

LEMMA CoverInit == Init => CoverInv
<1>. SUFFICES ASSUME Init PROVE CoverInv
  OBVIOUS
<1>1. ASSUME NEW s \in Established PROVE RowCovered(s)
  <2>1. sub[s].cursor = 0 /\ start[s] = 0 /\ s \in Subs
    BY Readings DEF Init
  <2>. QED BY <2>1, Readings DEF RowCovered, Covered, NoCursor
<1>2. /\ \A h \in Handlers : handler[h].pc = "idle" /\ handler[h].sub = {}
      /\ \A j \in Jobs : job[j].pc = "idle"
  BY DEF Init, Quiet, NoJob
<1>. QED BY <1>1, <1>2 DEF CoverInv, HandlerCovered, JobCovered

(* What is announced or given up stays so.                                 *)
Grows(s) == enqueued[s] \subseteq enqueued'[s] /\ given[s] \subseteq given'[s]

LEMMA Growth == ASSUME Typed, [Next]_vars, NEW s \in Subs PROVE Grows(s)
<1>. USE DEF mailbox, pubsub, access, ghosts
<1>1. ASSUME NEW h \in Handlers, NEW t \in Subs, NEW m \in Message, Consider(h, t, m) PROVE Grows(s)
  BY <1>1 DEF Consider, Grows, Typed
<1>2. ASSUME NEW h \in Handlers, NEW t \in Subs, NEW m \in Message, GiveUp(h, t, m) PROVE Grows(s)
  BY <1>2 DEF GiveUp, Grows, Typed
<1>3. ASSUME NEW h \in Handlers, NEW t \in Subs, Resync(h, t) PROVE Grows(s)
  BY <1>3 DEF Resync, Grows, Typed
<1>4. ASSUME enqueued' = enqueued, given' = given PROVE Grows(s)
  BY <1>4 DEF Grows
<1>5. ASSUME NEW h \in Handlers, NEW t \in Subs, SkipSub(h, t) \/ AdoptCursor(h, t) \/ Diff(h, t) \/ Advance(h, t)
      PROVE  Grows(s)
  BY <1>4, <1>5 DEF SkipSub, AdoptCursor, Diff, Advance
<1>6. ASSUME NEW h \in Handlers, Ack(h) \/ HandlerFails(h) \/ \E n \in notes : Receive(h, n) PROVE Grows(s)
  BY <1>4, <1>6 DEF Ack, HandlerFails, Receive
<1>7. ASSUME NEW j \in Jobs, JobStep(j) \/ JobFails(j) \/ Renew(j) PROVE Grows(s)
  BY <1>4, <1>7 DEF JobStep, JobFails, Renew, ArmWatch, LookForOthers, StopWatch, Subscribe, WriteArmed,
                   Block, Revoke, Attach, Cancel
<1>8. ASSUME NEW j \in Jobs, NEW t \in Subs, Provision(j, t) \/ ReadConnection(j, t) \/ ReadProfile(j, t)
      PROVE  Grows(s)
  BY <1>4, <1>8 DEF Provision, ReadConnection, ReadProfile
<1>9. CASE Arrive \/ WatchEnds \/ \E t \in Subs : ExpiryNears(t) \/ Suspend(t) \/ \E k \in Key : KeyDies(t, k)
  BY <1>4, <1>9 DEF Arrive, WatchEnds, ExpiryNears, Suspend, KeyDies
<1>10. CASE UNCHANGED vars
  BY <1>4, <1>10 DEF vars
<1>. QED BY <1>1, <1>2, <1>3, <1>5, <1>6, <1>7, <1>8, <1>9, <1>10 DEF Next, HandlerStep

(* Parts of the invariant that a step leaves alone.                        *)
LEMMA RowLeft ==
  ASSUME NEW s, RowCovered(s), Grows(s), sub'[s].cursor = sub[s].cursor, start'[s] = start[s]
  PROVE  RowCovered(s)'
BY DEF RowCovered, Covered, Grows

LEMMA HandlerLeft ==
  ASSUME NEW s, NEW h, HandlerCovered(h, s), Grows(s), handler'[h] = handler[h]
  PROVE  HandlerCovered(h, s)'
BY DEF HandlerCovered, Covered, Grows

LEMMA HandlerQuiet ==
  ASSUME NEW s, NEW h \in Handlers, Typed, handler' = [handler EXCEPT ![h] = Quiet]
  PROVE  HandlerCovered(h, s)'
BY DEF Typed, Quiet, HandlerCovered

LEMMA JobLeft ==
  ASSUME NEW s, NEW j, JobCovered(j, s), Grows(s), job'[j] = job[j]
  PROVE  JobCovered(j, s)'
BY DEF JobCovered, Covered, Grows

LEMMA JobElsewhere ==
  ASSUME NEW s, NEW j, job'[j].pc \notin {"arm", "write"}
  PROVE  JobCovered(j, s)'
BY DEF JobCovered

(* Done with a subscription: the handler goes on with what it had read.    *)
LEMMA DoneCovered ==
  ASSUME Typed, NEW s, NEW h \in Handlers, NEW t, HandlerCovered(h, s), Grows(s),
         handler[h].pc # "idle", Done(h, t)
  PROVE  HandlerCovered(h, s)'
<1>1. handler'[h].snap = handler[h].snap /\ handler'[h].sub = {}
  BY DEF Done, Typed, HandlerState
<1>. QED BY <1>1 DEF HandlerCovered, Covered, Grows

(* A cursor set to what is covered.                                        *)
LEMMA SetCovered ==
  ASSUME Typed, NEW s \in Established, NEW t \in Subs, NEW c \in Cursor, RowCovered(s), Grows(s),
         SetCursor(t, c),
         t = s => c # NoCursor /\ \A m \in Readable : m <= c => m \in enqueued'[s] \union given'[s]
  PROVE  RowCovered(s)'
<1>0. s \in Subs /\ sub[s] \in SubRow
  BY Readings DEF Typed
<1>1. start'[s] = start[s]
  BY <1>0 DEF SetCursor, RowCovered, NoCursor, Typed
<1>2. CASE t = s
  <2>1. sub'[s].cursor = c
    BY <1>0, <1>2 DEF SetCursor, SubRow, Typed
  <2>. QED BY <1>1, <1>2, <2>1 DEF RowCovered, Covered
<1>3. CASE t # s
  <2>1. sub'[s] = sub[s]
    BY <1>0, <1>3 DEF SetCursor, Typed
  <2>. QED BY <1>1, <2>1, RowLeft
<1>. QED BY <1>2, <1>3

LEMMA CoverKept == Typed /\ CoverInv /\ [Next]_vars => CoverInv'
<1>. SUFFICES ASSUME Typed, CoverInv, [Next]_vars, NEW s \in Established
              PROVE  /\ RowCovered(s)'
                     /\ \A h \in Handlers : HandlerCovered(h, s)'
                     /\ \A j \in Jobs : JobCovered(j, s)'
  BY DEF CoverInv
<1>. USE DEF mailbox, pubsub, access, ghosts
<1>0. /\ s \in Subs /\ Grows(s) /\ RowCovered(s)
      /\ \A h \in Handlers : HandlerCovered(h, s)
      /\ \A j \in Jobs : JobCovered(j, s)
  BY Readings, Growth DEF CoverInv
<1>r. ASSUME UNCHANGED <<sub, start>> PROVE RowCovered(s)'
  BY <1>0, <1>r, RowLeft
<1>h. ASSUME UNCHANGED handler PROVE \A h \in Handlers : HandlerCovered(h, s)'
  BY <1>0, <1>h, HandlerLeft
<1>j. ASSUME UNCHANGED job PROVE \A j \in Jobs : JobCovered(j, s)'
  BY <1>0, <1>j, JobLeft
<1>d. ASSUME NEW h \in Handlers, NEW t \in Subs, handler[h].pc # "idle", Done(h, t)
      PROVE  \A g \in Handlers : HandlerCovered(g, s)'
  <2>1. \A g \in Handlers \ {h} : handler'[g] = handler[g]
    BY <1>d DEF Done, Typed
  <2>. QED BY <1>0, <1>d, <2>1, HandlerLeft, DoneCovered
<1>k. ASSUME NEW j \in Jobs, NEW new, job' = [job EXCEPT ![j] = new], new.pc \notin {"arm", "write"}
      PROVE  \A i \in Jobs : JobCovered(i, s)'
  BY <1>0, <1>k, JobLeft, JobElsewhere DEF Typed
<1>c. Cursors[s] = sub[s].cursor /\ Cursors[s] # NoCursor /\ Covered(s, Cursors[s])
  BY <1>0 DEF Cursors, RowCovered
<1>n. Quiet.pc = "idle" /\ Quiet.sub = {} /\ NoJob.pc = "idle"
  BY DEF Quiet, NoJob
<1>1. CASE Arrive \/ WatchEnds \/ \E t \in Subs, k \in Key : KeyDies(t, k)
  BY <1>1, <1>r, <1>h, <1>j DEF Arrive, WatchEnds, KeyDies
<1>2. ASSUME NEW t \in Subs, ExpiryNears(t)
      PROVE  RowCovered(s)' /\ (\A h \in Handlers : HandlerCovered(h, s)') /\ (\A j \in Jobs : JobCovered(j, s)')
  <2>1. sub'[s].cursor = sub[s].cursor /\ start' = start
    BY <1>0, <1>2 DEF ExpiryNears, Typed, SubRow
  <2>. QED BY <1>0, <1>2, <1>h, <1>j, <2>1, RowLeft DEF ExpiryNears
<1>3. ASSUME NEW h \in Handlers, NEW n \in notes, Receive(h, n)
      PROVE  RowCovered(s)' /\ (\A g \in Handlers : HandlerCovered(g, s)') /\ (\A j \in Jobs : JobCovered(j, s)')
  <2>1. handler'[h].snap = Cursors /\ handler'[h].sub = {}
    BY <1>3, <1>n DEF Receive, Typed, Quiet
  <2>2. \A g \in Handlers \ {h} : handler'[g] = handler[g]
    BY <1>3 DEF Receive, Typed
  <2>3. enqueued' = enqueued /\ given' = given
    BY <1>3 DEF Receive
  <2>4. HandlerCovered(h, s)'
    BY <1>c, <2>1, <2>3 DEF HandlerCovered, Covered
  <2>5. RowCovered(s)' /\ \A j \in Jobs : JobCovered(j, s)'
    BY <1>3, <1>r, <1>j DEF Receive
  <2>. QED BY <1>0, <2>2, <2>4, <2>5, HandlerLeft
<1>4. ASSUME NEW h \in Handlers, NEW t \in Subs, SkipSub(h, t)
      PROVE  RowCovered(s)' /\ (\A g \in Handlers : HandlerCovered(g, s)') /\ (\A j \in Jobs : JobCovered(j, s)')
  BY <1>4, <1>r, <1>d, <1>j DEF SkipSub
<1>5. ASSUME NEW h \in Handlers, NEW t \in Subs, AdoptCursor(h, t)
      PROVE  RowCovered(s)' /\ (\A g \in Handlers : HandlerCovered(g, s)') /\ (\A j \in Jobs : JobCovered(j, s)')
  <2>1. t # s
    BY <1>0, <1>5 DEF AdoptCursor, HandlerCovered
  <2>2. handler[h].note \in Cursor
    BY Readings DEF Typed, HandlerState
  <2>3. RowCovered(s)'
    BY <1>0, <1>5, <2>1, <2>2, SetCovered DEF AdoptCursor
  <2>. QED BY <1>5, <1>d, <1>j, <2>3 DEF AdoptCursor
<1>6. ASSUME NEW h \in Handlers, NEW t \in Subs, Diff(h, t)
      PROVE  RowCovered(s)' /\ (\A g \in Handlers : HandlerCovered(g, s)') /\ (\A j \in Jobs : JobCovered(j, s)')
  <2>1. /\ handler'[h].snap = handler[h].snap /\ handler'[h].sub = {t} /\ handler'[h].new = history
        /\ handler'[h].ids = Between(handler[h].snap[t], history)
    BY <1>6 DEF Diff, Typed, HandlerState
  <2>2. \A g \in Handlers \ {h} : handler'[g] = handler[g]
    BY <1>6 DEF Diff, Typed
  <2>3. handler[h].pc # "idle" /\ enqueued' = enqueued /\ given' = given
    BY <1>6 DEF Diff
  <2>4. handler[h].snap[s] \in Cursor /\ Covered(s, handler[h].snap[s]) /\ handler[h].snap[s] # NoCursor
    BY <1>0, <2>3 DEF HandlerCovered, Typed, HandlerState
  <2>5. t = s => \A m \in Readable : m <= history =>
                   m \in Between(handler[h].snap[s], history) \union enqueued[s] \union given[s]
    <3>. SUFFICES ASSUME NEW m \in Readable, m <= history
                  PROVE  m \in Between(handler[h].snap[s], history) \union enqueued[s] \union given[s]
      OBVIOUS
    <3>1. handler[h].snap[s] \in Int /\ m \in Message /\ m \in Int
      BY <2>4, Readings
    <3>2. CASE m <= handler[h].snap[s]
      BY <2>4, <3>2 DEF Covered
    <3>3. CASE handler[h].snap[s] < m
      BY <3>1, <3>3 DEF Between
    <3>. QED BY <3>1, <3>2, <3>3
  <2>6. HandlerCovered(h, s)'
    BY <2>1, <2>3, <2>4, <2>5 DEF HandlerCovered, Covered
  <2>7. RowCovered(s)' /\ \A j \in Jobs : JobCovered(j, s)'
    BY <1>6, <1>r, <1>j DEF Diff
  <2>. QED BY <1>0, <2>2, <2>6, <2>7, HandlerLeft
<1>7. ASSUME NEW h \in Handlers, NEW t \in Subs, Resync(h, t)
      PROVE  RowCovered(s)' /\ (\A g \in Handlers : HandlerCovered(g, s)') /\ (\A j \in Jobs : JobCovered(j, s)')
  <2>1. handler[h] \in HandlerState /\ handler[h].note \in Cursor \ {NoCursor} /\ handler[h].pc # "idle"
    <3>1. handler[h] \in HandlerState
      BY DEF Typed
    <3>. QED BY <1>7, <3>1, Readings DEF HandlerState, Resync
  <2>2. t = s => given'[s] = given[s] \union Between(handler[h].snap[s], handler[h].note)
    BY <1>0, <1>7 DEF Resync, Typed
  <2>3. t = s => \A m \in Readable : m <= handler[h].note => m \in enqueued'[s] \union given'[s]
    <3>. SUFFICES ASSUME t = s, NEW m \in Readable, m <= handler[h].note
                  PROVE  m \in enqueued'[s] \union given'[s]
      OBVIOUS
    <3>1. handler[h].snap[s] \in Int /\ m \in Message /\ m \in Int
      BY <1>0, <2>1, Readings DEF HandlerState
    <3>2. CASE m <= handler[h].snap[s]
      BY <1>0, <2>1, <3>2 DEF HandlerCovered, Covered, Grows
    <3>3. CASE handler[h].snap[s] < m
      BY <2>2, <3>1, <3>3 DEF Between
    <3>. QED BY <3>1, <3>2, <3>3
  <2>4. RowCovered(s)'
    BY <1>0, <1>7, <2>1, <2>3, SetCovered DEF Resync
  <2>. QED BY <1>7, <1>d, <1>j, <2>1, <2>4 DEF Resync
<1>8. ASSUME NEW h \in Handlers, NEW t \in Subs, NEW m \in Message, Consider(h, t, m) \/ GiveUp(h, t, m)
      PROVE  RowCovered(s)' /\ (\A g \in Handlers : HandlerCovered(g, s)') /\ (\A j \in Jobs : JobCovered(j, s)')
  <2>1. /\ handler'[h].snap = handler[h].snap /\ handler'[h].sub = handler[h].sub
        /\ handler'[h].new = handler[h].new /\ handler'[h].ids = handler[h].ids \ {m}
        /\ handler[h].pc = "enqueue" /\ t \in handler[h].sub
    BY <1>8 DEF Consider, GiveUp, Typed, HandlerState
  <2>2. \A g \in Handlers \ {h} : handler'[g] = handler[g]
    BY <1>8 DEF Consider, GiveUp, Typed
  <2>3. s \in handler[h].sub => (m \in Readable => m \in enqueued'[s] \union given'[s])
    <3>1. s \in handler[h].sub => t = s
      BY <1>0, <2>1 DEF HandlerCovered
    <3>. QED BY <1>0, <1>8, <3>1 DEF Consider, GiveUp, Typed
  <2>4. HandlerCovered(h, s)'
    BY <1>0, <2>1, <2>3 DEF HandlerCovered, Covered, Grows
  <2>5. RowCovered(s)' /\ \A j \in Jobs : JobCovered(j, s)'
    BY <1>8, <1>r, <1>j DEF Consider, GiveUp
  <2>. QED BY <1>0, <2>2, <2>4, <2>5, HandlerLeft
<1>9. ASSUME NEW h \in Handlers, NEW t \in Subs, Advance(h, t)
      PROVE  RowCovered(s)' /\ (\A g \in Handlers : HandlerCovered(g, s)') /\ (\A j \in Jobs : JobCovered(j, s)')
  <2>. DEFINE c == Greatest(sub[t].cursor, handler[h].new)
  <2>1. sub[t].cursor \in Cursor /\ handler[h].new \in Cursor \ {NoCursor} /\ handler[h].pc # "idle"
    <3>1. handler[h] \in HandlerState /\ sub[t] \in SubRow
      BY DEF Typed
    <3>. QED BY <1>9, <3>1, Readings DEF HandlerState, SubRow, Advance
  <2>2. c \in Cursor
    BY <2>1 DEF Greatest
  <2>3. t = s => c # NoCursor /\ \A m \in Readable : m <= c => m \in enqueued[s] \union given[s]
    <3>1. t = s => sub[s].cursor # NoCursor /\ Covered(s, sub[s].cursor) /\ Covered(s, handler[h].new)
      BY <1>0, <1>9 DEF Advance, RowCovered, HandlerCovered, Covered
    <3>. QED BY <2>1, <3>1 DEF Greatest, Covered
  <2>. HIDE DEF c
  <2>4. SetCursor(t, c) /\ Done(h, t)
    BY <1>9 DEF Advance, c
  <2>5. RowCovered(s)'
    BY <1>0, <2>2, <2>3, <2>4, SetCovered DEF Grows
  <2>. QED BY <1>9, <1>d, <1>j, <2>1, <2>4, <2>5 DEF Advance
<1>10. ASSUME NEW h \in Handlers, Ack(h) \/ HandlerFails(h)
       PROVE  RowCovered(s)' /\ (\A g \in Handlers : HandlerCovered(g, s)') /\ (\A j \in Jobs : JobCovered(j, s)')
  <2>1. \A g \in Handlers \ {h} : handler'[g] = handler[g]
    BY <1>10 DEF Ack, HandlerFails, Typed
  <2>2. HandlerCovered(h, s)'
    BY <1>10, HandlerQuiet DEF Ack, HandlerFails
  <2>3. RowCovered(s)' /\ \A j \in Jobs : JobCovered(j, s)'
    BY <1>10, <1>r, <1>j DEF Ack, HandlerFails
  <2>. QED BY <1>0, <2>1, <2>2, <2>3, HandlerLeft
<1>11. ASSUME NEW j \in Jobs, NEW t \in Subs, Subscribe(j, t)
       PROVE  RowCovered(s)' /\ (\A h \in Handlers : HandlerCovered(h, s)') /\ (\A i \in Jobs : JobCovered(i, s)')
  <2>1. sub'[s].cursor = sub[s].cursor /\ start' = start
    BY <1>0, <1>11 DEF Subscribe, Typed, SubRow
  <2>2. job'[j].snap = Cursors /\ \A i \in Jobs \ {j} : job'[i] = job[i]
    BY <1>11 DEF Subscribe, Typed, NoJob
  <2>3. JobCovered(j, s)'
    BY <1>c, <1>11, <2>2 DEF JobCovered, Covered, Subscribe
  <2>4. RowCovered(s)' /\ \A h \in Handlers : HandlerCovered(h, s)'
    BY <1>0, <1>11, <1>h, <2>1, RowLeft DEF Subscribe
  <2>. QED BY <1>0, <2>2, <2>3, <2>4, JobLeft
<1>12. ASSUME NEW j \in Jobs, Renew(j)
       PROVE  RowCovered(s)' /\ (\A h \in Handlers : HandlerCovered(h, s)') /\ (\A i \in Jobs : JobCovered(i, s)')
  <2>1. job'[j].snap = Cursors /\ \A i \in Jobs \ {j} : job'[i] = job[i]
    BY <1>12 DEF Renew, Typed, NoJob
  <2>2. JobCovered(j, s)'
    BY <1>c, <1>12, <2>1 DEF JobCovered, Covered, Renew
  <2>3. RowCovered(s)' /\ \A h \in Handlers : HandlerCovered(h, s)'
    BY <1>12, <1>r, <1>h DEF Renew
  <2>. QED BY <1>0, <2>1, <2>2, <2>3, JobLeft
<1>13. ASSUME NEW j \in Jobs, ArmWatch(j)
       PROVE  RowCovered(s)' /\ (\A h \in Handlers : HandlerCovered(h, s)') /\ (\A i \in Jobs : JobCovered(i, s)')
  <2>1. job'[j].snap = job[j].snap /\ job[j].pc = "arm" /\ \A i \in Jobs \ {j} : job'[i] = job[i]
    BY <1>13 DEF ArmWatch, Typed, JobState
  <2>2. JobCovered(j, s)'
    BY <1>0, <1>13, <2>1 DEF JobCovered, Covered, ArmWatch
  <2>3. RowCovered(s)' /\ \A h \in Handlers : HandlerCovered(h, s)'
    BY <1>13, <1>r, <1>h DEF ArmWatch
  <2>. QED BY <1>0, <2>1, <2>2, <2>3, JobLeft
<1>14. ASSUME NEW j \in Jobs, NEW t \in Subs, WriteArmed(j, t)
       PROVE  RowCovered(s)' /\ (\A h \in Handlers : HandlerCovered(h, s)') /\ (\A i \in Jobs : JobCovered(i, s)')
  <2>. DEFINE c == IF job[j].snap[t] # NoCursor THEN job[j].snap[t] ELSE job[j].got
  <2>1. job[j].pc = "write" /\ job[j] \in JobState /\ job[j].snap[s] # NoCursor /\ Covered(s, job[j].snap[s])
    BY <1>0, <1>14 DEF WriteArmed, JobCovered, Typed
  <2>2. start'[s] = start[s]
    BY <1>0, <1>14 DEF WriteArmed, RowCovered, NoCursor, Typed
  <2>3. sub'[s].cursor = IF t = s THEN job[j].snap[s] ELSE sub[s].cursor
    BY <1>0, <1>14, <2>1 DEF WriteArmed, Typed, SubRow
  <2>4. enqueued' = enqueued /\ given' = given /\ handler' = handler
    BY <1>14 DEF WriteArmed
  <2>5. RowCovered(s)'
    BY <1>0, <2>1, <2>2, <2>3, <2>4 DEF RowCovered, Covered
  <2>6. job'[j].pc = "idle" \/ job'[j].snap = job[j].snap
    <3>1. job'[j] = IF job[j].todo = {t} THEN NoJob ELSE [job[j] EXCEPT !.todo = @ \ {t}]
      BY <1>14 DEF WriteArmed, Typed
    <3>. QED BY <1>n, <2>1, <3>1 DEF JobState
  <2>7. \A i \in Jobs \ {j} : job'[i] = job[i]
    BY <1>14 DEF WriteArmed, Typed
  <2>8. JobCovered(j, s)'
    BY <2>1, <2>4, <2>6 DEF JobCovered, Covered
  <2>. QED BY <1>0, <1>h, <2>4, <2>5, <2>7, <2>8, JobLeft
<1>15. ASSUME NEW j \in Jobs, NEW t \in Subs,
              Provision(j, t) \/ ReadConnection(j, t) \/ ReadProfile(j, t) \/ Attach(j, t)
       PROVE  RowCovered(s)' /\ (\A h \in Handlers : HandlerCovered(h, s)') /\ (\A i \in Jobs : JobCovered(i, s)')
  <2>1. \E new : job' = [job EXCEPT ![j] = new] /\ new.pc \notin {"arm", "write"}
    <3>1. [NoJob EXCEPT !.pc = "subscribe", !.todo = {t}].pc = "subscribe"
      BY DEF NoJob
    <3>2. [NoJob EXCEPT !.pc = "block", !.todo = {t}, !.key = bound[t]].pc = "block"
      BY DEF NoJob
    <3>3. \A k \in Key : [NoJob EXCEPT !.pc = "attach", !.todo = {t}, !.key = k].pc = "attach"
      BY DEF NoJob
    <3>. QED BY <1>15, <1>n, <3>1, <3>2, <3>3 DEF Provision, ReadConnection, ReadProfile, Attach
  <2>. QED BY <1>15, <1>r, <1>h, <1>k, <2>1 DEF Provision, ReadConnection, ReadProfile, Attach
<1>16. ASSUME NEW j \in Jobs, NEW t \in Subs, Block(j, t) \/ Revoke(j, t)
       PROVE  RowCovered(s)' /\ (\A h \in Handlers : HandlerCovered(h, s)') /\ (\A i \in Jobs : JobCovered(i, s)')
  <2>1. \E pc \in {"cancel", "revoke"} : job' = [job EXCEPT ![j] = [job[j] EXCEPT !.pc = pc]]
    BY <1>16 DEF Block, Revoke
  <2>2. \A pc \in {"cancel", "revoke"} : [job[j] EXCEPT !.pc = pc].pc = pc
    BY DEF Typed, JobState
  <2>3. \E new : job' = [job EXCEPT ![j] = new] /\ new.pc \notin {"arm", "write"}
    BY <2>1, <2>2
  <2>. QED BY <1>16, <1>r, <1>h, <1>k, <2>3 DEF Block, Revoke
<1>17. ASSUME NEW j \in Jobs, NEW t \in Subs, Cancel(j, t)
       PROVE  RowCovered(s)' /\ (\A h \in Handlers : HandlerCovered(h, s)') /\ (\A i \in Jobs : JobCovered(i, s)')
  <2>1. sub'[s].cursor = sub[s].cursor /\ start' = start
    <3>1. sub[t] \in SubRow /\ sub \in [Subs -> SubRow]
      BY DEF Typed
    <3>2. [sub[t] EXCEPT !.status = "cancelled"].cursor = sub[t].cursor
      BY <3>1 DEF SubRow
    <3>3. sub' = sub \/ sub' = [sub EXCEPT ![t] = [sub[t] EXCEPT !.status = "cancelled"]]
      BY <1>17 DEF Cancel
    <3>4. start' = start
      BY <1>17 DEF Cancel
    <3>5. CASE sub' = sub
      BY <3>4, <3>5
    <3>6. ASSUME NEW row, row.cursor = sub[t].cursor, sub' = [sub EXCEPT ![t] = row] PROVE sub'[s].cursor = sub[s].cursor
      BY <1>0, <3>1, <3>6
    <3>. QED BY <3>2, <3>3, <3>4, <3>5, <3>6
  <2>2. [NoJob EXCEPT !.pc = "others"].pc = "others"
    BY DEF NoJob
  <2>3. \E new : job' = [job EXCEPT ![j] = new] /\ new.pc \notin {"arm", "write"}
    BY <1>17, <1>n, <2>2 DEF Cancel
  <2>. QED BY <1>0, <1>17, <1>h, <1>k, <2>1, <2>3, RowLeft DEF Cancel
<1>18. ASSUME NEW j \in Jobs, LookForOthers(j) \/ StopWatch(j) \/ JobFails(j)
       PROVE  RowCovered(s)' /\ (\A h \in Handlers : HandlerCovered(h, s)') /\ (\A i \in Jobs : JobCovered(i, s)')
  <2>1. [NoJob EXCEPT !.pc = "stop"].pc = "stop"
    BY DEF NoJob
  <2>2. \E new : job' = [job EXCEPT ![j] = new] /\ new.pc \notin {"arm", "write"}
    BY <1>18, <1>n, <2>1 DEF LookForOthers, StopWatch, JobFails
  <2>. QED BY <1>18, <1>r, <1>h, <1>k, <2>2 DEF LookForOthers, StopWatch, JobFails
<1>19. ASSUME NEW t \in Subs, Suspend(t)
       PROVE  RowCovered(s)' /\ (\A h \in Handlers : HandlerCovered(h, s)') /\ (\A i \in Jobs : JobCovered(i, s)')
  <2>1. sub'[s].cursor = sub[s].cursor /\ start' = start
    BY <1>0, <1>19 DEF Suspend, Typed, SubRow
  <2>. QED BY <1>0, <1>19, <1>h, <1>j, <2>1, RowLeft DEF Suspend
<1>20. CASE UNCHANGED vars
  BY <1>20, <1>r, <1>h, <1>j DEF vars
<1>. QED
  BY <1>1, <1>2, <1>3, <1>4, <1>5, <1>6, <1>7, <1>8, <1>9, <1>10, <1>11, <1>12, <1>13, <1>14, <1>15,
     <1>16, <1>17, <1>18, <1>19, <1>20
  DEF Next, HandlerStep, JobStep

(* A cursor that exists passes over no readable message, whoever writes it *)
(* and in whatever order, however many handlers, renewals and consents     *)
(* race, fail and are killed.                                              *)
THEOREM NoMailPassedOver == Spec => []NothingPassedOver
<1>1. Typed /\ CoverInv => NothingPassedOver
  BY Readings DEF CoverInv, RowCovered, Covered, NothingPassedOver, KeepsUp, Between
<1>2. Spec => [](Typed /\ CoverInv)
  BY TypedInit, TypedKept, CoverInit, CoverKept, PTL DEF Spec
<1>. QED BY <1>1, <1>2, PTL
------------------------------------------------------------------------------
(* A connection without a live key gets nothing announced, once no handler *)
(* is at work on its subscription that had seen one alive; and it stays    *)
(* so until the owner consents again, or makes a profile to attach it to.  *)
THEOREM DetachedStaysSilent == Spec => DetachedGetsNothing
<1>1. ASSUME Typed, [Next]_vars, NEW s \in Subs, Detached(s), Unused(s)' = Unused(s)
      PROVE  Detached(s)' /\ enqueued'[s] = enqueued[s]
  <2>. USE DEF mailbox, pubsub, access, ghosts
  <2>0. (\A k \in Key : key[s][k] # "live") /\ (\A h \in Handlers : s \notin handler[h].sub)
    BY <1>1, CursorParameters DEF Detached, Live, Key
  <2>1. \A k \in Key : key'[s][k] # "live"
    <3>1. ASSUME NEW t \in Subs, NEW k \in Key, KeyDies(t, k) PROVE \A l \in Key : key'[s][l] # "live"
      BY <1>1, <2>0, <3>1 DEF KeyDies, Typed
    <3>2. ASSUME NEW t \in Subs, NEW n \in Key, NewKey(t, n) PROVE \A l \in Key : key'[s][l] # "live"
      <4>1. PICK k \in Unused(t) : key' = [key EXCEPT ![t][k] = "live"]
        BY <3>2 DEF NewKey
      <4>2. t # s
        BY <1>1, <4>1 DEF Unused, Typed
      <4>. QED BY <1>1, <2>0, <4>1, <4>2 DEF Typed
    <3>3. ASSUME NEW j \in Jobs, NEW t \in Subs, Revoke(j, t) PROVE \A l \in Key : key'[s][l] # "live"
      BY <1>1, <2>0, <3>3 DEF Revoke, Typed
    <3>4. ASSUME NEW h \in Handlers, HandlerStep(h) \/ HandlerFails(h) \/ \E n \in notes : Receive(h, n)
          PROVE  key' = key
      BY <3>4 DEF HandlerStep, HandlerFails, Receive, SkipSub, AdoptCursor, Diff, Resync, Advance, Consider, GiveUp, Ack
    <3>5. ASSUME NEW j \in Jobs, NEW t \in Subs,
                 \/ ArmWatch(j) \/ LookForOthers(j) \/ StopWatch(j) \/ JobFails(j) \/ Renew(j)
                 \/ Subscribe(j, t) \/ WriteArmed(j, t) \/ Block(j, t) \/ Cancel(j, t) \/ ReadConnection(j, t)
                 \/ Attach(j, t) \/ (ReadProfile(j, t) /\ \A k \in Key : ~NewKey(t, k))
          PROVE  key' = key
      BY <3>5 DEF ArmWatch, LookForOthers, StopWatch, JobFails, Renew, Subscribe, WriteArmed, Block, Cancel,
                  ReadConnection, Attach, ReadProfile
    <3>6. CASE Arrive \/ WatchEnds \/ (\E t \in Subs : ExpiryNears(t) \/ Suspend(t)) \/ UNCHANGED vars
      BY <2>0, <3>6 DEF Arrive, WatchEnds, ExpiryNears, Suspend, vars
    <3>7. ASSUME NEW j \in Jobs, NEW t \in Subs, Provision(j, t)
          PROVE  \A l \in Key : key'[s][l] # "live"
      BY <3>2, <3>7 DEF Provision
    <3>. QED BY <1>1, <2>0, <3>1, <3>2, <3>3, <3>4, <3>5, <3>6, <3>7 DEF Next, JobStep
  <2>2. (\A h \in Handlers : s \notin handler'[h].sub) /\ enqueued'[s] = enqueued[s]
    <3>1. ASSUME NEW h \in Handlers, NEW new, handler' = [handler EXCEPT ![h] = new], s \notin new.sub
          PROVE  \A g \in Handlers : s \notin handler'[g].sub
      BY <1>1, <2>0, <3>1 DEF Typed
    <3>2. ASSUME NEW h \in Handlers, NEW t \in Subs, Done(h, t)
          PROVE  \A g \in Handlers : s \notin handler'[g].sub
      BY <1>1, <2>0, <3>2 DEF Done, Typed, HandlerState
    <3>3. ASSUME NEW h \in Handlers, NEW t \in Subs,
                 SkipSub(h, t) \/ AdoptCursor(h, t) \/ Resync(h, t) \/ Advance(h, t)
          PROVE  (\A g \in Handlers : s \notin handler'[g].sub) /\ enqueued'[s] = enqueued[s]
      BY <3>2, <3>3 DEF SkipSub, AdoptCursor, Resync, Advance
    <3>4. ASSUME NEW h \in Handlers, NEW t \in Subs, Diff(h, t)
          PROVE  (\A g \in Handlers : s \notin handler'[g].sub) /\ enqueued'[s] = enqueued[s]
      <4>1. handler[h] \in HandlerState
        BY <1>1 DEF Typed
      <4>2. t # s
        BY <2>0, <3>4, <4>1 DEF Diff, Keyed, Live, HandlerState
      <4>3. /\ handler'[h].sub = {t}
            /\ \A g \in Handlers \ {h} : handler'[g] = handler[g]
        BY <1>1, <3>4, <4>1 DEF Diff, Typed, HandlerState
      <4>. QED BY <2>0, <3>4, <4>2, <4>3 DEF Diff
    <3>5. ASSUME NEW h \in Handlers, NEW t \in Subs, NEW m \in Message, Consider(h, t, m) \/ GiveUp(h, t, m)
          PROVE  (\A g \in Handlers : s \notin handler'[g].sub) /\ enqueued'[s] = enqueued[s]
      <4>1. t # s
        BY <2>0, <3>5 DEF Consider, GiveUp
      <4>2. \A g \in Handlers : handler'[g].sub = handler[g].sub
        <5>1. PICK h2 \in Handlers : handler' = [handler EXCEPT ![h2].ids = @ \ {m}]
          BY <3>5 DEF Consider, GiveUp
        <5>2. [handler[h2] EXCEPT !.ids = @ \ {m}].sub = handler[h2].sub
          <6>1. handler[h2] \in HandlerState
            BY <1>1 DEF Typed
          <6>. QED BY <6>1 DEF HandlerState
        <5>3. handler'[h2] = [handler[h2] EXCEPT !.ids = @ \ {m}]
          BY <1>1, <5>1 DEF Typed
        <5>4. \A g \in Handlers \ {h2} : handler'[g] = handler[g]
          BY <1>1, <5>1 DEF Typed
        <5>. QED BY <5>2, <5>3, <5>4
      <4>. QED BY <1>1, <2>0, <3>5, <4>1, <4>2 DEF Consider, GiveUp, Typed
    <3>6. ASSUME NEW h \in Handlers, Ack(h) \/ HandlerFails(h) \/ \E n \in notes : Receive(h, n)
          PROVE  (\A g \in Handlers : s \notin handler'[g].sub) /\ enqueued'[s] = enqueued[s]
      <4>1. \E new : handler' = [handler EXCEPT ![h] = new] /\ s \notin new.sub
        <5>1. \A n : [Quiet EXCEPT !.pc = "loop", !.note = n, !.todo = {t \in Subs : Active(t)},
                                    !.snap = Cursors, !.keyed = bound].sub = {} /\ Quiet.sub = {}
          BY DEF Quiet
        <5>. QED BY <3>6, <5>1 DEF Ack, HandlerFails, Receive
      <4>. QED BY <3>1, <3>6, <4>1 DEF Ack, HandlerFails, Receive
    <3>7. ASSUME NEW j \in Jobs, NEW t \in Subs,
                 \/ JobStep(j) \/ JobFails(j) \/ Renew(j)
                 \/ Provision(j, t) \/ ReadConnection(j, t) \/ ReadProfile(j, t)
          PROVE  handler' = handler /\ enqueued' = enqueued
      BY <3>7 DEF JobStep, ArmWatch, LookForOthers, StopWatch, JobFails, Renew, Subscribe, WriteArmed, Block,
                  Revoke, Attach, Cancel, Provision, ReadConnection, ReadProfile
    <3>8. CASE \/ Arrive \/ WatchEnds \/ UNCHANGED vars
               \/ \E t \in Subs : ExpiryNears(t) \/ Suspend(t) \/ \E k \in Key : KeyDies(t, k)
      BY <2>0, <3>8 DEF Arrive, WatchEnds, ExpiryNears, Suspend, KeyDies, vars
    <3>. QED BY <1>1, <2>0, <3>3, <3>4, <3>5, <3>6, <3>7, <3>8 DEF Next, HandlerStep
  <2>. QED BY <2>1, <2>2 DEF Detached, Live
<1>2. Typed /\ [Next]_vars =>
        [\A s \in Subs : Detached(s) /\ Unused(s)' = Unused(s) => Detached(s)' /\ enqueued'[s] = enqueued[s]]_vars
  BY <1>1
<1>. QED BY <1>2, TypedInit, TypedKept, PTL DEF Spec, DetachedGetsNothing
====
