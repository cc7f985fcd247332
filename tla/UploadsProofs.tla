---------------------------- MODULE UploadsProofs ----------------------------
(***************************************************************************)
(* What a resumable upload through the proxy guarantees, for any number of *)
(* requests in flight, any recipients and any length; and, in the second   *)
(* half, what a request's walk up the folders of Drive does, for any tree, *)
(* any cache life and any limit on the hops.                               *)
(***************************************************************************)
EXTENDS Uploads, DriveLineage, FiniteSetTheorems, WellFoundedInduction, TLAPS

(* A chunk's bytes are taken by whole units, never beyond its end.         *)
LEMMA WholeUnitsFit ==
  ASSUME NEW n \in Nat
  PROVE  (n \div Unit) * Unit \in 0..n
<1>1. n \div Unit \in Nat /\ n = Unit * (n \div Unit) + (n % Unit) /\ n % Unit \in 0..(Unit - 1)
  BY WholeUnits
<1>. QED BY <1>1, WholeUnits

LEMMA RangesType ==
  ASSUME NEW r \in Ranges
  PROVE  /\ r.is \in {"chunk", "status", "none"} /\ r.start \in {0, 1, Unit} /\ r.end \in 0..Total
         /\ r.is = "chunk" => r.start < r.end
         /\ r.is # "chunk" => r.start = 0 /\ r.end = 0
  BY WholeUnits DEF Ranges, Chunk, Status, Unparsed

(* What Google makes of a chunk's bytes is a session again.                *)
LEMMA TakenType ==
  ASSUME TypeOK, NEW c \in Callers, NEW replaces \in BOOLEAN, ~google.done
  PROVE  /\ Taken(c, replaces) \in [bytes : [Marks -> Content \cup {Blank}], held : 0..Total, done : BOOLEAN]
         /\ Taken(c, replaces).done <=> Taken(c, replaces).held = Total
<1>. DEFINE r == call[c].range
            first == IF replaces THEN r.start ELSE google.held
            bytes == [i \in Marks |-> IF i > first /\ i <= r.end THEN call[c].content ELSE google.bytes[i]]
            held == IF r.end = Total THEN Total ELSE (r.end \div Unit) * Unit
<1>1. r \in Ranges /\ call[c].content \in Content \cup {Blank}
  BY DEF TypeOK
<1>2. r.end \in 0..Total
  BY <1>1, RangesType
<1>3. held \in 0..Total /\ (held = Total <=> r.end = Total)
  BY <1>2, WholeUnitsFit, WholeUnits
<1>4. google.held \in 0..Total /\ google.held # Total
  BY DEF TypeOK
<1>5. bytes \in [Marks -> Content \cup {Blank}]
  BY <1>1 DEF TypeOK
<1>6. Taken(c, replaces) = [google EXCEPT !.bytes = bytes, !.held = IF held > @ THEN held ELSE @,
                                          !.done = r.end = Total]
  BY DEF Taken
<1>7. Taken(c, replaces) = [bytes |-> bytes, held |-> IF held > google.held THEN held ELSE google.held,
                            done |-> r.end = Total]
  BY <1>6 DEF TypeOK
<1>. HIDE DEF bytes, held, r
<1>8. /\ (IF held > google.held THEN held ELSE google.held) \in 0..Total
      /\ r.end = Total <=> (IF held > google.held THEN held ELSE google.held) = Total
  BY <1>3, <1>4, WholeUnits
<1>9. (r.end = Total) \in BOOLEAN
  OBVIOUS
<1>10. Taken(c, replaces) \in [bytes : [Marks -> Content \cup {Blank}], held : 0..Total, done : BOOLEAN]
  BY <1>5, <1>7, <1>8, <1>9
<1>11. Taken(c, replaces).done <=> Taken(c, replaces).held = Total
  <2>1. Taken(c, replaces).held = IF held > google.held THEN held ELSE google.held
    BY <1>7
  <2>2. Taken(c, replaces).done = (r.end = Total)
    BY <1>7
  <2>. QED BY <1>8, <2>1, <2>2
<1>. QED BY <1>10, <1>11

(* A byte-0 chunk whose header block the check saw.                        *)
HeaderSeen(c) ==
  /\ call[c].range.is = "chunk" /\ call[c].range.start = 0
  /\ call[c].content \in Content /\ ~call[c].content.long

(* The inductive invariant: how far each request in flight is from the     *)
(* check that lets its bytes through, and what the bytes Google holds are. *)
Carries ==
  \A c \in Callers :
    kind = "send" /\ call[c].stage # "idle" /\ call[c].range.is = "chunk" /\ call[c].range.start = 0
      => call[c].content \in Content
Allowing == \A c \in Callers : call[c].stage = "allow" => HeaderSeen(c)
Passing ==
  \A c \in Callers :
    kind = "send" /\ call[c].stage = "forward"
      => \/ call[c].range.is = "status"
         \/ call[c].range.start >= Unit
         \/ HeaderSeen(c) /\ call[c].content.to \in checked
Holding == kind = "send" /\ google.held > 0 => ~google.bytes[1].long /\ google.bytes[1].to \in checked
IInv == TypeOK /\ Carries /\ Allowing /\ Passing /\ Holding

LEMMA TypeInit == Init => TypeOK
  BY WholeUnits, ReplaysAreBounded DEF Init, TypeOK, Idle, Blank, Stages, Ranges, Unparsed

LEMMA NeededType ==
  ASSUME kind \in {"send", "create", "update"}
  PROVE  /\ (IF Needed = <<>> THEN "range" ELSE Needed[1]) \in {"row", "writable", "range"}
         /\ Standing \in SUBSET {"row", "delegation", "writable"}
         /\ Asked \in SUBSET {"row", "delegation", "writable"}
<1>1. CASE kind = "send" BY <1>1 DEF Needed, Asked, Standing
<1>2. CASE kind = "create" BY <1>2 DEF Needed, Asked, Standing
<1>3. CASE kind = "update" BY <1>3 DEF Needed, Asked, Standing
<1>. QED BY <1>1, <1>2, <1>3

LEMMA TypeStep ==
  ASSUME TypeOK, Allowing, [Next]_vars
  PROVE  TypeOK'
<1>1. CASE Initiate BY <1>1 DEF Initiate, TypeOK
<1>2. CASE AdoptResumableSession BY <1>2 DEF AdoptResumableSession, TypeOK
<1>3. CASE Toggle
  <2>1. Asked \in SUBSET {"row", "delegation", "writable"}
    BY NeededType DEF TypeOK
  <2>. QED BY <1>3, <2>1 DEF Toggle, Notice, At, TypeOK
<1>4. CASE Relist BY <1>4 DEF Relist, TypeOK
<1>5. ASSUME NEW c \in Callers, Handle(c) PROVE TypeOK'
  <2>1. CASE Arrive(c)
    <3>. PICK r \in Ranges : \E content \in Carried(r) :
           call' = [call EXCEPT ![c] =
                      [stage |-> IF Needed = <<>> THEN "range" ELSE Needed[1], range |-> r, content |-> content,
                       verdict |-> session.verdict, stood |-> Standing]]
      BY <2>1 DEF Arrive
    <3>1. Carried(r) \subseteq Content \cup {Blank}
      BY DEF Carried, Content
    <3>2. /\ (IF Needed = <<>> THEN "range" ELSE Needed[1]) \in Stages
          /\ Standing \in SUBSET {"row", "delegation", "writable"}
      BY NeededType DEF TypeOK, Stages
    <3>. HIDE DEF Needed, Standing
    <3>. QED BY <2>1, <3>1, <3>2 DEF Arrive, TypeOK
  <2>2. CASE ReadRow(c) BY <2>2 DEF ReadRow, At, To, Denied, Idle, Stages, Ranges, TypeOK
  <2>3. CASE ReadLast(c) BY <2>3 DEF ReadLast, At, To, Denied, Idle, Stages, Ranges, TypeOK
  <2>4. CASE Judge(c) BY <2>4 DEF Judge, At, To, Pass, Denied, Idle, Stages, Ranges, TypeOK
  <2>5. CASE SetVerdict(c)
    <3>1. call[c].stage = "allow" => call[c].content.to \in Recipients
      BY DEF Allowing, HeaderSeen, Content
    <3>. QED BY <2>5, <3>1 DEF SetVerdict, At, Pass, Denied, Idle, Stages, Ranges, TypeOK
  <2>6. CASE Forward(c)
    <3>1. google' \in [bytes : [Marks -> Content \cup {Blank}], held : 0..Total, done : BOOLEAN]
          /\ (google'.done <=> google'.held = Total)
      <4>1. CASE UNCHANGED google BY <4>1 DEF TypeOK
      <4>2. CASE ~google.done /\ \E replaces \in BOOLEAN : google' = Taken(c, replaces)
        BY <4>2, TakenType
      <4>. QED BY <2>6, <4>1, <4>2 DEF Forward, Replay
    <3>2. Denied(c) \/ To(c, "grant")
      BY <2>6 DEF Forward
    <3>3. call' \in [Callers -> [stage : Stages, range : Ranges, content : Content \cup {Blank},
                        verdict : {"none", "allowed", "denied"}, stood : SUBSET {"row", "delegation", "writable"}]]
      BY <3>2 DEF To, Denied, Idle, Stages, Ranges, TypeOK
    <3>4. replayed' \in 0..MaxReplays
      BY <2>6, ReplaysAreBounded DEF Forward, Replay, TypeOK
    <3>. QED BY <2>6, <3>1, <3>3, <3>4 DEF Forward, TypeOK
  <2>7. CASE GrantProxyCreatedFile(c)
    BY <2>7 DEF GrantProxyCreatedFile, At, Denied, Idle, Stages, Ranges, TypeOK
  <2>8. CASE Crash(c) BY <2>8 DEF Crash, At, Denied, Idle, Stages, Ranges, TypeOK
  <2>. QED BY <1>5, <2>1, <2>2, <2>3, <2>4, <2>5, <2>6, <2>7, <2>8 DEF Handle
<1>6. CASE UNCHANGED vars BY <1>6 DEF vars, TypeOK
<1>. QED BY <1>1, <1>2, <1>3, <1>4, <1>5, <1>6 DEF Next

(* Bytes that Google takes replace its first byte only with a byte of a    *)
(* chunk that starts at 0, and any other chunk it takes finds some there.  *)
LEMMA TakenFirst ==
  ASSUME TypeOK, NEW c \in Callers, NEW replaces \in BOOLEAN, call[c].range.start <= google.held
  PROVE  \/ Taken(c, replaces).bytes[1] = call[c].content /\ call[c].range.start = 0 /\ call[c].range.end > 0
         \/ /\ Taken(c, replaces).bytes[1] = google.bytes[1]
            /\ google.held > 0 \/ call[c].range.end = 0
<1>. DEFINE r == call[c].range
            first == IF replaces THEN r.start ELSE google.held
            bytes == [i \in Marks |-> IF i > first /\ i <= r.end THEN call[c].content ELSE google.bytes[i]]
<1>1. r.start \in {0, 1, Unit} /\ r.end \in 0..Total /\ google.held \in 0..Total
  BY RangesType DEF TypeOK
<1>2. Taken(c, replaces).bytes = bytes
  BY DEF Taken, TypeOK
<1>3. 1 \in Marks
  BY DEF Marks
<1>4. bytes[1] = IF 1 > first /\ 1 <= r.end THEN call[c].content ELSE google.bytes[1]
  BY <1>3
<1>5. CASE 1 > first /\ 1 <= r.end
  BY <1>1, <1>2, <1>4, <1>5, WholeUnits
<1>6. CASE ~(1 > first /\ 1 <= r.end)
  BY <1>1, <1>2, <1>4, <1>6, WholeUnits
<1>. QED BY <1>5, <1>6

LEMMA SafeStep ==
  ASSUME IInv, [Next]_vars
  PROVE  Carries' /\ Allowing' /\ Passing' /\ Holding'
<1>. USE DEF IInv, Carries, Allowing, Passing, Holding, HeaderSeen
<1>1. CASE Initiate \/ AdoptResumableSession \/ Relist \/ UNCHANGED vars
  BY <1>1 DEF Initiate, AdoptResumableSession, Relist, vars
<1>2. CASE Toggle
  BY <1>2 DEF Toggle, Notice, At, TypeOK
<1>3. ASSUME NEW c \in Callers, Handle(c) PROVE Carries' /\ Allowing' /\ Passing' /\ Holding'
  <2>1. CASE Arrive(c)
    <3>0. PICK r \in Ranges : \E content \in Carried(r) :
           call' = [call EXCEPT ![c] =
                      [stage |-> IF Needed = <<>> THEN "range" ELSE Needed[1], range |-> r, content |-> content,
                       verdict |-> session.verdict, stood |-> Standing]]
      BY <2>1 DEF Arrive
    <3>1. PICK content \in Carried(r) :
           call' = [call EXCEPT ![c] =
                      [stage |-> IF Needed = <<>> THEN "range" ELSE Needed[1], range |-> r, content |-> content,
                       verdict |-> session.verdict, stood |-> Standing]]
      BY <3>0
    <3>2. (IF Needed = <<>> THEN "range" ELSE Needed[1]) \notin {"allow", "forward"}
      BY NeededType DEF TypeOK
    <3>3. call'[c].stage \notin {"allow", "forward"} /\ call'[c].range = r /\ call'[c].content = content
      BY <3>1, <3>2 DEF TypeOK
    <3>4. kind = "send" /\ r.is = "chunk" /\ r.start = 0 => content \in Content
      BY <3>1, WholeUnits DEF Carried
    <3>5. \A d \in Callers : d # c => call'[d] = call[d]
      BY <3>1 DEF TypeOK
    <3>. QED BY <2>1, <3>3, <3>4, <3>5 DEF Arrive
  <2>2. CASE ReadRow(c) BY <2>2 DEF ReadRow, At, To, Denied, Idle, TypeOK
  <2>3. CASE ReadLast(c) BY <2>3 DEF ReadLast, At, To, Denied, Idle, TypeOK
  <2>4. CASE Judge(c)
    <3>. DEFINE r == call[c].range
    <3>1. \/ Denied(c)
          \/ kind # "send" /\ Pass(c)
          \/ /\ kind = "send" /\ r.is = "chunk" /\ r.start = 0 /\ HeaderChecked(c)
             /\ To(c, "allow") \/ To(c, "deny")
          \/ AllowedRange(c) /\ Pass(c)
      BY <2>4 DEF Judge
    <3>2. UNCHANGED <<kind, google, checked>>
      BY <2>4 DEF Judge
    <3>3. CASE Denied(c) BY <3>2, <3>3 DEF Denied, Idle, TypeOK
    <3>4. CASE kind # "send" /\ Pass(c) BY <3>2, <3>4 DEF Pass, TypeOK
    <3>5. CASE /\ kind = "send" /\ r.is = "chunk" /\ r.start = 0 /\ HeaderChecked(c)
               /\ To(c, "allow") \/ To(c, "deny")
      <4>1. ~call[c].content.long
        BY <3>5, WholeUnits DEF HeaderChecked, HeaderEnd
      <4>2. call[c].content \in Content
        BY <2>4, <3>5 DEF Judge, At
      <4>. QED BY <3>2, <3>5, <4>1, <4>2 DEF To, TypeOK
    <3>6. CASE AllowedRange(c) /\ Pass(c)
      BY <3>2, <3>6 DEF AllowedRange, Pass, TypeOK
    <3>. QED BY <3>1, <3>3, <3>4, <3>5, <3>6
  <2>5. CASE SetVerdict(c) BY <2>5 DEF SetVerdict, At, Pass, Denied, Idle, TypeOK
  <2>6. CASE Forward(c)
    <3>1. UNCHANGED <<kind, checked>> /\ At(c, "forward") /\ (Denied(c) \/ To(c, "grant"))
      BY <2>6 DEF Forward
    <3>2. Carries' /\ Allowing' /\ Passing'
      <4>1. CASE Denied(c) BY <3>1, <4>1 DEF Denied, Idle, TypeOK
      <4>2. CASE To(c, "grant") BY <3>1, <4>2 DEF At, To, TypeOK
      <4>. QED BY <3>1, <4>1, <4>2
    <3>3. CASE UNCHANGED google
      BY <3>1, <3>2, <3>3
    <3>4. ASSUME NEW replaces \in BOOLEAN, google' = Taken(c, replaces),
                 call[c].range.is # "status", call[c].range.start <= google.held
          PROVE  Holding'
      <4>. SUFFICES ASSUME kind = "send", google'.held > 0
                    PROVE  ~google'.bytes[1].long /\ google'.bytes[1].to \in checked
        BY <3>1
      <4>1. call[c].range \in Ranges /\ google.held \in 0..Total
        BY DEF TypeOK
      <4>2. CASE google.held = 0
        <5>1. call[c].range.start = 0
          BY <3>4, <4>1, <4>2, RangesType, WholeUnits
        <5>2. HeaderSeen(c) /\ call[c].content.to \in checked
          BY <3>1, <3>4, <5>1, WholeUnits DEF At
        <5>3. call[c].range.end > 0
          BY <4>1, <5>1, <5>2, RangesType
        <5>. QED BY <3>4, <4>2, <5>2, <5>3, TakenFirst
      <4>3. CASE google.held > 0
        <5>1. CASE call[c].range.start = 0
          <6>1. HeaderSeen(c) /\ call[c].content.to \in checked
            BY <3>1, <3>4, <5>1, WholeUnits DEF At
          <6>. QED BY <3>4, <4>3, <6>1, TakenFirst
        <5>2. CASE call[c].range.start # 0
          BY <3>4, <4>3, <5>2, TakenFirst
        <5>. QED BY <5>1, <5>2
      <4>. QED BY <4>1, <4>2, <4>3
    <3>. QED BY <2>6, <3>2, <3>3, <3>4 DEF Forward
  <2>7. CASE GrantProxyCreatedFile(c) BY <2>7 DEF GrantProxyCreatedFile, At, Denied, Idle, TypeOK
  <2>8. CASE Crash(c) BY <2>8 DEF Crash, At, Denied, Idle, TypeOK
  <2>. QED BY <1>3, <2>1, <2>2, <2>3, <2>4, <2>5, <2>6, <2>7, <2>8 DEF Handle
<1>. QED BY <1>1, <1>2, <1>3 DEF Next

LEMMA Inductive == Spec => []IInv
<1>1. Init => IInv
  BY TypeInit DEF Init, IInv, Carries, Allowing, Passing, Holding, Idle
<1>2. IInv /\ [Next]_vars => IInv'
  BY TypeStep, SafeStep DEF IInv
<1>. QED BY <1>1, <1>2, PTL DEF Spec

THEOREM UploadsTypeCorrect == Spec => []TypeOK
<1>1. IInv => TypeOK
  BY DEF IInv
<1>. QED BY <1>1, Inductive, PTL

(* A message that Google sends went to recipients the rules allowed when a *)
(* chunk at byte 0 of this upload was checked: by every interleaving, of   *)
(* any number of chunks, with any of them repeated, overlapping or lost.   *)
THEOREM RecipientsChecked == Spec => []SentAsChecked
<1>1. IInv => SentAsChecked
  <2>. SUFFICES ASSUME IInv, kind = "send", google.done PROVE Sent(google.bytes) \in checked
    BY DEF SentAsChecked
  <2>1. google.held = Total /\ Total > 0
    BY WholeUnits DEF IInv, TypeOK
  <2>. QED BY <2>1 DEF IInv, Holding, Sent
<1>. QED BY <1>1, Inductive, PTL
------------------------------------------------------------------------------
(* A grant is for the answer that completed the upload, or for one given   *)
(* to a data chunk sent again: with the requests about to grant, there are *)
(* no more grants than such answers.                                       *)
Granters == {c \in Callers : At(c, "grant")}
Granting ==
  /\ IsFiniteSet(Granters)
  /\ ~google.done => Granters = {} /\ granted = 0
  /\ granted + Cardinality(Granters) <= 1 + replayed

LEMMA GrantersLeave ==
  ASSUME TypeOK, Granting, UNCHANGED <<google, granted, replayed>>, Granters' \subseteq Granters
  PROVE  Granting'
<1>1. /\ IsFiniteSet(Granters') /\ Cardinality(Granters') <= Cardinality(Granters)
      /\ Cardinality(Granters') \in Nat /\ Cardinality(Granters) \in Nat
  BY FS_Subset, FS_CardinalityType DEF Granting
<1>2. granted \in Nat /\ replayed \in Nat
  BY ReplaysAreBounded DEF TypeOK
<1>3. Granters = {} => Granters' = {}
  OBVIOUS
<1>. HIDE DEF Granters
<1>. QED BY <1>1, <1>2, <1>3 DEF Granting

LEMMA GrantingKept ==
  ASSUME TypeOK, Granting, [Next]_vars
  PROVE  Granting'
<1>0. granted \in Nat /\ replayed \in Nat /\ Cardinality(Granters) \in Nat
  BY ReplaysAreBounded, FS_CardinalityType DEF TypeOK, Granting
<1>1. CASE Initiate \/ AdoptResumableSession \/ Relist \/ UNCHANGED vars
  <2>1. Granters' \subseteq Granters
    BY <1>1 DEF Initiate, AdoptResumableSession, Relist, vars, Granters, At
  <2>. QED BY <1>1, <2>1, GrantersLeave DEF Initiate, AdoptResumableSession, Relist, vars
<1>2. CASE Toggle
  <2>1. Granters' \subseteq Granters
    BY <1>2 DEF Toggle, Notice, TypeOK, Granters, At
  <2>. QED BY <1>2, <2>1, GrantersLeave DEF Toggle
<1>3. ASSUME NEW c \in Callers, Handle(c) PROVE Granting'
  <2>1. ASSUME UNCHANGED <<google, granted, replayed>>, NEW new, new.stage # "grant",
               call' = [call EXCEPT ![c] = new]
        PROVE  Granting'
    <3>1. Granters' \subseteq Granters
      BY <2>1 DEF TypeOK, Granters, At
    <3>. QED BY <2>1, <3>1, GrantersLeave
  <2>2. ASSUME UNCHANGED <<google, granted, replayed>>, Denied(c) PROVE Granting'
    BY <2>1, <2>2 DEF Denied, Idle
  <2>3. ASSUME UNCHANGED <<google, granted, replayed>>, NEW stage, stage # "grant", To(c, stage)
        PROVE  Granting'
    <3>1. Granters' \subseteq Granters
      BY <2>3 DEF To, TypeOK, Granters, At
    <3>. QED BY <2>3, <3>1, GrantersLeave
  <2>4. ASSUME UNCHANGED <<google, granted, replayed>>, Pass(c) PROVE Granting'
    <3>1. Granters' \subseteq Granters
      BY <2>4 DEF Pass, TypeOK, Granters, At
    <3>. QED BY <2>4, <3>1, GrantersLeave
  <2>5. CASE Arrive(c)
    <3>1. PICK r \in Ranges : \E content \in Carried(r) :
            call' = [call EXCEPT ![c] =
                       [stage |-> IF Needed = <<>> THEN "range" ELSE Needed[1], range |-> r, content |-> content,
                        verdict |-> session.verdict, stood |-> Standing]]
      BY <2>5 DEF Arrive
    <3>2. (IF Needed = <<>> THEN "range" ELSE Needed[1]) # "grant"
      BY NeededType DEF TypeOK
    <3>. HIDE DEF Needed, Standing
    <3>. QED BY <2>1, <2>5, <3>1, <3>2 DEF Arrive
  <2>6. CASE ReadRow(c) BY <2>2, <2>3, <2>6 DEF ReadRow
  <2>7. CASE ReadLast(c) BY <2>2, <2>3, <2>7 DEF ReadLast
  <2>8. CASE Judge(c)
    <3>1. Denied(c) \/ Pass(c) \/ To(c, "allow") \/ To(c, "deny")
      BY <2>8 DEF Judge
    <3>. QED BY <2>2, <2>3, <2>4, <2>8, <3>1 DEF Judge
  <2>9. CASE SetVerdict(c) BY <2>2, <2>4, <2>9 DEF SetVerdict
  <2>10. CASE Forward(c)
    <3>0. granted' = granted /\ c \notin Granters /\ (Denied(c) \/ To(c, "grant"))
      BY <2>10 DEF Forward, Granters, At
    <3>1. Granters' \subseteq Granters \cup {c}
      BY <3>0 DEF Denied, Idle, To, TypeOK, Granters, At
    <3>2. CASE ~google.done /\ UNCHANGED replayed
      <4>1. Granters = {} /\ granted = 0
        BY <3>2 DEF Granting
      <4>2. CASE Denied(c)
        <5>1. Granters' = {}
          BY <4>1, <4>2 DEF Denied, Idle, TypeOK, Granters, At
        <5>. QED BY <1>0, <3>0, <3>2, <4>1, <5>1, FS_EmptySet DEF Granting
      <4>3. CASE To(c, "grant") /\ google'.done
        <5>1. Granters' = {} \/ Granters' = {c}
          BY <3>1, <4>1
        <5>2. IsFiniteSet(Granters') /\ Cardinality(Granters') <= 1 /\ Cardinality(Granters') \in Nat
          <6>1. CASE Granters' = {}
            BY <6>1, FS_EmptySet
          <6>2. CASE Granters' = {c}
            <7>1. IsFiniteSet({c}) /\ Cardinality({c}) = 1
              BY FS_Singleton
            <7>. QED BY <6>2, <7>1
          <6>. QED BY <5>1, <6>1, <6>2
        <5>. HIDE DEF Granters
        <5>. QED BY <1>0, <3>0, <3>2, <4>1, <4>3, <5>2 DEF Granting
      <4>. QED BY <2>10, <3>2, <4>2, <4>3 DEF Forward, Creates
    <3>3. CASE Replay(c) /\ UNCHANGED google
      <4>1. /\ IsFiniteSet(Granters \cup {c})
            /\ Cardinality(Granters \cup {c}) = Cardinality(Granters) + 1
        BY <3>0, FS_AddElement DEF Granting
      <4>2. /\ IsFiniteSet(Granters') /\ Cardinality(Granters') <= Cardinality(Granters) + 1
            /\ Cardinality(Granters') \in Nat
        BY <3>1, <4>1, FS_Subset, FS_CardinalityType
      <4>3. google'.done /\ replayed' = replayed + 1
        BY <3>3 DEF Replay
      <4>. HIDE DEF Granters
      <4>. QED BY <1>0, <3>0, <4>2, <4>3 DEF Granting
    <3>4. CASE UNCHANGED <<google, replayed>>
      <4>1. Denied(c)
        BY <2>10, <3>4 DEF Forward, Creates
      <4>. QED BY <2>2, <3>0, <3>4, <4>1
    <3>. QED BY <2>10, <3>2, <3>3, <3>4 DEF Forward
  <2>11. CASE GrantProxyCreatedFile(c)
    <3>1. c \in Granters /\ Granters' \subseteq Granters \ {c}
      BY <2>11 DEF GrantProxyCreatedFile, Denied, Idle, TypeOK, Granters, At
    <3>2. IsFiniteSet(Granters \ {c}) /\ Cardinality(Granters \ {c}) = Cardinality(Granters) - 1
      BY <3>1, FS_RemoveElement DEF Granting
    <3>3. /\ IsFiniteSet(Granters') /\ Cardinality(Granters') <= Cardinality(Granters) - 1
          /\ Cardinality(Granters') \in Nat
      BY <3>1, <3>2, FS_Subset, FS_CardinalityType
    <3>4. granted' = granted + 1 /\ google' = google /\ replayed' = replayed /\ google.done
      BY <2>11, <3>1 DEF GrantProxyCreatedFile, Granting
    <3>. HIDE DEF Granters
    <3>. QED BY <1>0, <3>3, <3>4 DEF Granting
  <2>12. CASE Crash(c) BY <2>2, <2>12 DEF Crash
  <2>. QED BY <1>3, <2>5, <2>6, <2>7, <2>8, <2>9, <2>10, <2>11, <2>12 DEF Handle
<1>. QED BY <1>1, <1>2, <1>3 DEF Next

(* The file an upload creates is granted no more often than data chunks    *)
(* were answered with it: once for the chunk that completed the upload and *)
(* once for each sent again that Google answered so, however many status   *)
(* queries are answered with the file too.                                 *)
THEOREM FileGrantedOnce == Spec => []GrantedOnce
<1>1. Init => Granting
  <2>. SUFFICES ASSUME Init PROVE Granting
    OBVIOUS
  <2>1. Granters = {} /\ granted = 0 /\ replayed = 0
    BY DEF Init, Granters, At, Idle
  <2>. QED BY <2>1, FS_EmptySet DEF Granting
<1>2. IInv => TypeOK
  BY DEF IInv
<1>3. TypeOK /\ Granting /\ [Next]_vars => Granting'
  BY GrantingKept
<1>4. TypeOK /\ Granting => GrantedOnce
  <2>. SUFFICES ASSUME TypeOK, Granting PROVE GrantedOnce
    OBVIOUS
  <2>1. granted \in Nat /\ replayed \in Nat /\ Cardinality(Granters) \in Nat
    BY ReplaysAreBounded, FS_CardinalityType DEF TypeOK, Granting
  <2>. HIDE DEF Granters
  <2>. QED BY <2>1 DEF Granting, GrantedOnce
<1>. QED BY <1>1, <1>2, <1>3, <1>4, Inductive, PTL DEF Spec
------------------------------------------------------------------------------
(* What a request has read stood while it ran, and what it has still to    *)
(* read it will see only if it stands.                                     *)
Looked ==
  \A c \in Callers :
    /\ ~At(c, "idle") => Standing \subseteq call[c].stood
    /\ At(c, "row") => kind = "send"
    /\ At(c, "delegation") => kind = "send" /\ "row" \in call[c].stood
    /\ At(c, "writable") => kind = "update"
    /\ call[c].stage \in {"range", "allow", "deny", "forward", "grant"} => Asked \subseteq call[c].stood

LEMMA AskedIs ==
  ASSUME TypeOK
  PROVE  /\ kind = "send" => Needed = <<"row", "delegation">> /\ Asked = {"row", "delegation"}
         /\ kind = "update" => Needed = <<"writable">> /\ Asked = {"writable"}
         /\ kind = "create" => Needed = <<>> /\ Asked = {}
  BY DEF Needed, Asked

LEMMA LookedKept ==
  ASSUME TypeOK, Looked, [Next]_vars
  PROVE  Looked'
<1>. USE DEF Looked, At
<1>0. UNCHANGED kind /\ (Asked' = Asked)
  <2>1. UNCHANGED kind
    BY DEF Next, Initiate, AdoptResumableSession, Toggle, Relist, Handle, Arrive, ReadRow, ReadLast, Judge,
           SetVerdict, Forward, GrantProxyCreatedFile, Crash, vars
  <2>. QED BY <2>1 DEF Asked, Needed
<1>1. CASE Initiate \/ AdoptResumableSession \/ Relist \/ UNCHANGED vars
  BY <1>0, <1>1 DEF Initiate, AdoptResumableSession, Relist, vars, Standing
<1>2. CASE Toggle
  <2>1. \A c \in Callers : call'[c].stage = call[c].stage
    BY <1>2 DEF Toggle, Notice, TypeOK
  <2>2. \A c \in Callers : call[c].stage # "idle" => call'[c].stood = call[c].stood \cup (facts' \cap Asked)
    BY <1>2 DEF Toggle, Notice, TypeOK
  <2>. HIDE DEF Asked
  <2>. QED BY <1>0, <2>1, <2>2 DEF Standing
<1>3. ASSUME NEW c \in Callers, Handle(c) PROVE Looked'
  <2>. USE <1>0
  <2>1. UNCHANGED facts /\ Standing' = Standing
    BY <1>3 DEF Handle, Arrive, ReadRow, ReadLast, Judge, SetVerdict, Forward, GrantProxyCreatedFile, Crash, Standing
  <2>. HIDE DEF Asked, Standing
  <2>2. ASSUME Denied(c) PROVE Looked'
    BY <2>1, <2>2 DEF Denied, Idle, TypeOK
  <2>3. ASSUME NEW stage \in {"range", "allow", "deny", "forward", "grant"}, Asked \subseteq call[c].stood, call[c].stage # "idle",
               \/ To(c, stage)
               \/ Pass(c)
        PROVE  Looked'
    BY <2>1, <2>3 DEF To, Pass, TypeOK
  <2>4. CASE Arrive(c)
    <3>1. PICK r \in Ranges : \E content \in Carried(r) :
            call' = [call EXCEPT ![c] =
                       [stage |-> IF Needed = <<>> THEN "range" ELSE Needed[1], range |-> r, content |-> content,
                        verdict |-> session.verdict, stood |-> Standing]]
      BY <2>4 DEF Arrive
    <3>2. call'[c].stage = (IF Needed = <<>> THEN "range" ELSE Needed[1]) /\ call'[c].stood = Standing
      BY <3>1 DEF TypeOK
    <3>3. \A d \in Callers : d # c => call'[d] = call[d]
      BY <3>1 DEF TypeOK
    <3>4. \/ call'[c].stage = "row" /\ kind = "send"
          \/ call'[c].stage = "writable" /\ kind = "update"
          \/ call'[c].stage = "range" /\ Asked = {}
      <4>1. CASE kind = "send"
        BY <3>2, <4>1, AskedIs
      <4>2. CASE kind = "update"
        BY <3>2, <4>2, AskedIs
      <4>3. CASE kind = "create"
        BY <3>2, <4>3, AskedIs
      <4>. QED BY <4>1, <4>2, <4>3 DEF TypeOK
    <3>. QED BY <2>1, <3>2, <3>3, <3>4
  <2>5. CASE ReadRow(c)
    <3>1. CASE "row" \in facts
      <4>1. "row" \in call[c].stood
        BY <2>5, <3>1, AskedIs DEF ReadRow, Standing
      <4>. QED BY <2>1, <2>5, <3>1, <4>1 DEF ReadRow, To, TypeOK
    <3>. QED BY <2>2, <2>5, <3>1 DEF ReadRow
  <2>6. CASE ReadLast(c)
    <3>1. CASE call[c].stage \in facts
      <4>1. Asked \subseteq call[c].stood
        BY <2>6, <3>1, AskedIs DEF ReadLast, Standing
      <4>. QED BY <2>3, <2>6, <3>1, <4>1 DEF ReadLast
    <3>. QED BY <2>2, <2>6, <3>1 DEF ReadLast
  <2>7. CASE Judge(c)
    <3>1. Denied(c) \/ Pass(c) \/ To(c, "allow") \/ To(c, "deny")
      BY <2>7 DEF Judge
    <3>. QED BY <2>2, <2>3, <2>7, <3>1 DEF Judge
  <2>8. CASE SetVerdict(c) BY <2>2, <2>3, <2>8 DEF SetVerdict
  <2>9. CASE Forward(c)
    <3>1. Denied(c) \/ To(c, "grant")
      BY <2>9 DEF Forward
    <3>. QED BY <2>2, <2>3, <2>9, <3>1 DEF Forward
  <2>10. CASE GrantProxyCreatedFile(c) BY <2>2, <2>10 DEF GrantProxyCreatedFile
  <2>11. CASE Crash(c) BY <2>2, <2>11 DEF Crash
  <2>. QED BY <1>3, <2>4, <2>5, <2>6, <2>7, <2>8, <2>9, <2>10, <2>11 DEF Handle
<1>. QED BY <1>1, <1>2, <1>3 DEF Next

(* Only the request whose bytes Google takes moves with them, and all that *)
(* the initiation needed stood during that request.                        *)
THEOREM StoodWhenForwarded == Spec => ForwardedOnlyWhatStood
<1>1. Init => Looked
  BY DEF Init, Looked, At, Idle
<1>2. IInv => TypeOK
  BY DEF IInv
<1>3. TypeOK /\ Looked /\ [Next]_vars => Looked'
  BY LookedKept
<1>4. TypeOK /\ Looked /\ [Next]_vars
        => [\A c \in Callers : google' # google /\ call'[c] # call[c] => Asked \subseteq call[c].stood]_vars
  <2>. SUFFICES ASSUME TypeOK, Looked, Next, NEW c \in Callers, google' # google, call'[c] # call[c]
                PROVE  Asked \subseteq call[c].stood
    OBVIOUS
  <2>1. PICK d \in Callers : Forward(d)
    BY DEF Next, Initiate, AdoptResumableSession, Toggle, Relist, Handle, Arrive, ReadRow, ReadLast, Judge,
           SetVerdict, GrantProxyCreatedFile, Crash
  <2>2. At(d, "forward") /\ (Denied(d) \/ To(d, "grant"))
    BY <2>1 DEF Forward
  <2>3. d = c
    BY <2>2 DEF Denied, To, TypeOK
  <2>. QED BY <2>2, <2>3 DEF Looked, At
<1>. QED BY <1>1, <1>2, <1>3, <1>4, Inductive, PTL DEF Spec, ForwardedOnlyWhatStood
------------------------------------------------------------------------------
(* The folders of Drive (DriveLineage).  How far a node is inside of       *)
(* others is by number of hops, so the proofs are by induction on it.      *)

(* Of natural numbers that are not all in a set there is a least one; so   *)
(* what holds of 0, and of n + 1 if of n, holds of all.                    *)
LEMMA Induct ==
  ASSUME NEW T, 0 \in T, \A n \in Nat : n \in T => n + 1 \in T
  PROVE  \A n \in Nat : n \in T
<1> DEFINE R == OpToRel(<, Nat)
           B == Nat \ T
<1>1. IsWellFoundedOn(R, Nat)
  BY NatLessThanWellFounded
<1>2. \A x, y \in Nat : x < y => <<x, y>> \in R
  BY DEF OpToRel
<1> HIDE DEF R
<1>3. SUFFICES ASSUME B # {} PROVE FALSE
  OBVIOUS
<1>4. PICK x \in B : \A y \in B : ~ (<<y, x>> \in R)
  BY <1>1, <1>3, WFMin
<1>5. x \in Nat /\ x # 0 /\ x - 1 \in Nat /\ x - 1 < x
  BY <1>4
<1>6. x - 1 \notin B
  BY <1>2, <1>4, <1>5
<1>7. (x - 1) + 1 \in T
  BY <1>5, <1>6
<1>8. QED
  BY <1>4, <1>5, <1>7
------------------------------------------------------------------------------
(* Where nodes are, as paths: each node of a path is in the next one.      *)
IsPath(w, f, k) == f \in [0..k -> Nodes] /\ \A i \in 0..(k - 1) : w[f[i]] = f[i + 1]
Count == Cardinality(Nodes)

LEMMA CountIsNat == Count \in Nat
BY Forest, FS_CardinalityType DEF Count

LEMMA AboveIs ==
  ASSUME NEW w, NEW n \in Nodes
  PROVE  /\ Above(w, n)[0] = {n}
         /\ \A k \in 0..Count : k > 0 => Above(w, n)[k] = {w[x] : x \in Above(w, n)[k - 1]} \cap Nodes
<1> DEFINE Up(g, k) ==
             /\ g \in [0..k -> SUBSET Nodes] /\ g[0] = {n}
             /\ \A i \in 0..k : i > 0 => g[i] = {w[x] : x \in g[i - 1]} \cap Nodes
           T == {k \in Nat : \E g : Up(g, k)}
<1>1. 0 \in T
  <2>1. Up([i \in 0..0 |-> {n}], 0)
    OBVIOUS
  <2>2. QED
    BY <2>1
<1>2. ASSUME NEW k \in Nat, k \in T
      PROVE  k + 1 \in T
  <2>1. PICK g : Up(g, k)
    BY <1>2
  <2> DEFINE h == [i \in 0..(k + 1) |-> IF i <= k THEN g[i] ELSE {w[x] : x \in g[k]} \cap Nodes]
  <2>2. h \in [0..(k + 1) -> SUBSET Nodes] /\ h[0] = {n}
    BY <2>1
  <2>3. ASSUME NEW i \in 0..(k + 1), i > 0
        PROVE  h[i] = {w[x] : x \in h[i - 1]} \cap Nodes
    <3>1. i - 1 \in 0..k /\ h[i - 1] = g[i - 1]
      BY <2>3
    <3>2. CASE i <= k
      BY <2>1, <3>1, <3>2, <2>3
    <3>3. CASE i = k + 1
      <4>1. h[k + 1] = {w[x] : x \in g[k]} \cap Nodes
        OBVIOUS
      <4>2. h[k] = g[k] /\ i - 1 = k
        BY <3>1, <3>3
      <4> HIDE DEF h
      <4>3. QED
        BY <4>1, <4>2, <3>3
    <3>4. i <= k \/ i = k + 1
      OBVIOUS
    <3> HIDE DEF h
    <3>5. QED
      BY <3>2, <3>3, <3>4
  <2> HIDE DEF h
  <2>4. Up(h, k + 1)
    BY <2>2, <2>3
  <2>5. QED
    BY <2>4
<1> HIDE DEF T
<1>3. Count \in T
  BY <1>1, <1>2, Induct, CountIsNat
<1> USE DEF T
<1>4. PICK g : Up(g, Count)
  BY <1>3
<1>5. g = [k \in 0..Count |-> IF k = 0 THEN {n} ELSE {w[x] : x \in g[k - 1]} \cap Nodes]
  <2> DEFINE h == [k \in 0..Count |-> IF k = 0 THEN {n} ELSE {w[x] : x \in g[k - 1]} \cap Nodes]
  <2>1. \A k \in 0..Count : g[k] = h[k]
    BY <1>4, CountIsNat
  <2>2. g \in [0..Count -> SUBSET Nodes]
    BY <1>4
  <2>3. QED
    BY <2>1, <2>2
<1>6. Above(w, n) = [k \in 0..Count |-> IF k = 0 THEN {n} ELSE {w[x] : x \in Above(w, n)[k - 1]} \cap Nodes]
  BY <1>5 DEF Above, Count
<1> DEFINE a == Above(w, n)
<1> HIDE DEF a
<1>7. a = [k \in 0..Count |-> IF k = 0 THEN {n} ELSE {w[x] : x \in a[k - 1]} \cap Nodes]
  BY <1>6 DEF a
<1>8. a[0] = {n} /\ \A k \in 0..Count : k > 0 => a[k] = {w[x] : x \in a[k - 1]} \cap Nodes
  BY <1>7, CountIsNat
<1>9. QED
  BY <1>8 DEF a

LEMMA AboveByPath ==
  ASSUME NEW w, NEW n \in Nodes
  PROVE  \A k \in 0..Count : \A m : m \in Above(w, n)[k] <=> \E f : IsPath(w, f, k) /\ f[0] = n /\ f[k] = m
<1> DEFINE P(k) == \A m : m \in Above(w, n)[k] <=> \E f : IsPath(w, f, k) /\ f[0] = n /\ f[k] = m
           T == {k \in Nat : k <= Count => P(k)}
<1>1. 0 \in T
  <2>1. ASSUME NEW m \in Above(w, n)[0]
        PROVE  \E f : IsPath(w, f, 0) /\ f[0] = n /\ f[0] = m
    <3>1. m = n
      BY AboveIs
    <3>2. IsPath(w, [i \in 0..0 |-> n], 0)
      BY DEF IsPath
    <3>3. QED
      BY <3>1, <3>2
  <2>2. ASSUME NEW m, NEW f, IsPath(w, f, 0), f[0] = n, f[0] = m
        PROVE  m \in Above(w, n)[0]
    BY <2>2, AboveIs
  <2>3. QED
    BY <2>1, <2>2
<1>2. ASSUME NEW k \in Nat, k \in T
      PROVE  k + 1 \in T
  <2> SUFFICES ASSUME k + 1 <= Count PROVE P(k + 1)
    OBVIOUS
  <2>1. P(k) /\ k + 1 \in 0..Count /\ k + 1 > 0 /\ (k + 1) - 1 = k
    BY <1>2, CountIsNat
  <2>2. Above(w, n)[k + 1] = {w[x] : x \in Above(w, n)[k]} \cap Nodes
    BY <2>1, AboveIs
  <2>3. ASSUME NEW m \in Above(w, n)[k + 1]
        PROVE  \E f : IsPath(w, f, k + 1) /\ f[0] = n /\ f[k + 1] = m
    <3>1. PICK x \in Above(w, n)[k] : m = w[x]
      BY <2>2
    <3>2. PICK f : IsPath(w, f, k) /\ f[0] = n /\ f[k] = x
      BY <2>1
    <3> DEFINE g == [i \in 0..(k + 1) |-> IF i <= k THEN f[i] ELSE m]
    <3>3. m \in Nodes
      BY <2>2
    <3>4. g \in [0..(k + 1) -> Nodes] /\ g[0] = n /\ g[k + 1] = m
      BY <3>2, <3>3 DEF IsPath
    <3>5. ASSUME NEW i \in 0..((k + 1) - 1)
          PROVE  w[g[i]] = g[i + 1]
      <4>1. CASE i < k
        BY <4>1, <3>2 DEF IsPath
      <4>2. CASE i = k
        BY <4>2, <3>1, <3>2
      <4>3. QED
        BY <4>1, <4>2
    <3> HIDE DEF g
    <3>6. IsPath(w, g, k + 1)
      BY <3>4, <3>5 DEF IsPath
    <3>7. QED
      BY <3>4, <3>6
  <2>4. ASSUME NEW m, NEW f, IsPath(w, f, k + 1), f[0] = n, f[k + 1] = m
        PROVE  m \in Above(w, n)[k + 1]
    <3> DEFINE g == [i \in 0..k |-> f[i]]
    <3>1. IsPath(w, g, k) /\ g[0] = n /\ g[k] = f[k]
      BY <2>4 DEF IsPath
    <3> HIDE DEF g
    <3>2. f[k] \in Above(w, n)[k]
      BY <3>1, <2>1
    <3>3. w[f[k]] = m /\ m \in Nodes
      BY <2>4 DEF IsPath
    <3>4. QED
      BY <3>2, <3>3, <2>2
  <2>5. QED
    BY <2>3, <2>4
<1> HIDE DEF T
<1>3. \A k \in Nat : k \in T
  BY <1>1, <1>2, Induct
<1> USE DEF T
<1>4. QED
  BY <1>3, CountIsNat

LEMMA InsideByPath ==
  ASSUME NEW w, NEW n \in Nodes, NEW m
  PROVE  Inside(w, n, m) <=> \E k \in 0..Count : \E f : IsPath(w, f, k) /\ f[0] = n /\ f[k] = m
BY AboveByPath DEF Inside, Count

(* Nothing is inside of itself, said of sets: from each one leads out.     *)
Grounded(w) == \A S \in SUBSET Nodes : S # {} => \E x \in S : w[x] \notin S

LEMMA NoRepeat ==
  ASSUME NEW w, Grounded(w), NEW k \in Nat, NEW f, IsPath(w, f, k), NEW i \in 0..k, NEW j \in 0..k, i < j
  PROVE  f[i] # f[j]
<1> SUFFICES ASSUME f[i] = f[j] PROVE FALSE
  OBVIOUS
<1> DEFINE S == {f[h] : h \in i..j}
<1>1. S \in SUBSET Nodes /\ S # {}
  BY DEF IsPath
<1>2. PICK x \in S : w[x] \notin S
  BY <1>1 DEF Grounded
<1>3. PICK h \in i..j : x = f[h]
  BY <1>2
<1>4. CASE h < j
  <2>1. w[x] = f[h + 1] /\ h + 1 \in i..j
    BY <1>3, <1>4 DEF IsPath
  <2>2. QED
    BY <2>1, <1>2
<1>5. CASE h = j
  <2>1. w[x] = f[i + 1] /\ i + 1 \in i..j
    BY <1>3, <1>5 DEF IsPath
  <2>2. QED
    BY <2>1, <1>2
<1>6. QED
  BY <1>3, <1>4, <1>5

LEMMA LongPathsRepeat ==
  ASSUME NEW k \in Nat, k >= Count, NEW f \in [0..k -> Nodes]
  PROVE  \E i, j \in 0..k : i < j /\ f[i] = f[j]
<1>1. IsFiniteSet(0..k) /\ Cardinality(0..k) = k + 1
  BY FS_Interval
<1>2. IsFiniteSet(Nodes) /\ Cardinality(Nodes) < Cardinality(0..k)
  BY <1>1, Forest, CountIsNat DEF Count
<1>3. PICK i, j \in 0..k : i # j /\ f[i] = f[j]
  BY <1>1, <1>2, FS_PigeonHole
<1>4. CASE i < j
  BY <1>3, <1>4
<1>5. CASE j < i
  BY <1>3, <1>5
<1>6. QED
  BY <1>3, <1>4, <1>5

LEMMA PathsAreShort ==
  ASSUME NEW w, Grounded(w), NEW k \in Nat, NEW f, IsPath(w, f, k)
  PROVE  k < Count
<1> SUFFICES ASSUME k >= Count PROVE FALSE
  BY CountIsNat
<1>1. PICK i, j \in 0..k : i < j /\ f[i] = f[j]
  BY LongPathsRepeat DEF IsPath
<1>2. QED
  BY <1>1, NoRepeat

LEMMA GroundedAtFirst ==
  ASSUME NEW w \in [Nodes -> Place], \A n \in Nodes : w[n] \in Nodes => ~Inside(w, w[n], n)
  PROVE  Grounded(w)
<1> SUFFICES ASSUME NEW S \in SUBSET Nodes, NEW n \in S, \A x \in S : w[x] \in S PROVE FALSE
  BY DEF Grounded
<1> DEFINE T == {k \in Nat : \E f \in [0..k -> S] : IsPath(w, f, k)}
<1>1. 0 \in T
  <2>1. [i \in 0..0 |-> n] \in [0..0 -> S] /\ IsPath(w, [i \in 0..0 |-> n], 0)
    BY DEF IsPath
  <2>2. QED
    BY <2>1
<1>2. ASSUME NEW k \in Nat, k \in T
      PROVE  k + 1 \in T
  <2>1. PICK f \in [0..k -> S] : IsPath(w, f, k)
    BY <1>2
  <2> DEFINE g == [i \in 0..(k + 1) |-> IF i <= k THEN f[i] ELSE w[f[k]]]
  <2>2. g \in [0..(k + 1) -> S]
    OBVIOUS
  <2>3. ASSUME NEW i \in 0..((k + 1) - 1)
        PROVE  w[g[i]] = g[i + 1]
    <3>1. CASE i < k
      BY <3>1, <2>1 DEF IsPath
    <3>2. CASE i = k
      BY <3>2
    <3>3. QED
      BY <3>1, <3>2
  <2> HIDE DEF g
  <2>4. IsPath(w, g, k + 1)
    BY <2>2, <2>3 DEF IsPath
  <2>5. QED
    BY <2>2, <2>4
<1> HIDE DEF T
<1>3. Count \in T
  BY <1>1, <1>2, Induct, CountIsNat
<1> USE DEF T
<1>4. PICK f \in [0..Count -> S] : IsPath(w, f, Count)
  BY <1>3
<1>5. PICK i, j \in 0..Count : i < j /\ f[i] = f[j]
  BY <1>4, LongPathsRepeat, CountIsNat
<1> DEFINE d == (j - i) - 1
           g == [h \in 0..d |-> f[(i + 1) + h]]
<1>6. d \in 0..Count /\ d \in Nat /\ (i + 1) + d = j
  BY <1>5, CountIsNat
<1>7. ASSUME NEW h \in 0..d
      PROVE  (i + 1) + h \in 0..Count /\ g[h] = f[(i + 1) + h]
  BY <1>5, <1>6, CountIsNat
<1> HIDE DEF d
<1>8. g \in [0..d -> Nodes]
  BY <1>7
<1>9. ASSUME NEW h \in 0..(d - 1)
      PROVE  w[g[h]] = g[h + 1]
  <2>1. h \in 0..d /\ h + 1 \in 0..d /\ (i + 1) + (h + 1) = ((i + 1) + h) + 1
    BY <1>6
  <2>2. g[h] = f[(i + 1) + h] /\ g[h + 1] = f[((i + 1) + h) + 1] /\ (i + 1) + h \in 0..(Count - 1)
    BY <2>1, <1>7, CountIsNat
  <2>3. QED
    BY <2>2, <1>4 DEF IsPath
<1>10. w[f[i]] = f[i + 1] /\ f[i + 1] \in Nodes /\ f[i] \in Nodes
  BY <1>4, <1>5, CountIsNat DEF IsPath
<1>11. 0 \in 0..d /\ d \in 0..d
  BY <1>6
<1>12. g[0] = f[i + 1] /\ g[d] = f[j]
  BY <1>6, <1>7, <1>11
<1> HIDE DEF g
<1>13. IsPath(w, g, d)
  BY <1>8, <1>9 DEF IsPath
<1>14. Inside(w, w[f[i]], f[i])
  BY <1>5, <1>6, <1>10, <1>12, <1>13, InsideByPath
<1>15. QED
  BY <1>10, <1>14

LEMMA InsideOneMore ==
  ASSUME NEW w \in [Nodes -> Place], Grounded(w), NEW x \in Nodes, NEW n, w[x] \in Nodes, Inside(w, w[x], n)
  PROVE  Inside(w, x, n)
<1>0. PICK k \in 0..Count : \E f : IsPath(w, f, k) /\ f[0] = w[x] /\ f[k] = n
  BY InsideByPath
<1>1. PICK f : IsPath(w, f, k) /\ f[0] = w[x] /\ f[k] = n
  BY <1>0
<1> DEFINE g == [i \in 0..(k + 1) |-> IF i = 0 THEN x ELSE f[i - 1]]
<1>2. k \in Nat /\ k + 1 \in Nat
  BY CountIsNat
<1>3. g \in [0..(k + 1) -> Nodes] /\ g[0] = x /\ g[k + 1] = n
  BY <1>1, <1>2 DEF IsPath
<1>4. ASSUME NEW i \in 0..((k + 1) - 1)
      PROVE  w[g[i]] = g[i + 1]
  <2>1. CASE i = 0
    BY <2>1, <1>1, <1>2
  <2>2. CASE i > 0
    <3>1. i - 1 \in 0..(k - 1) /\ g[i] = f[i - 1] /\ g[i + 1] = f[(i - 1) + 1]
      BY <2>2, <1>2
    <3>2. QED
      BY <3>1, <1>1 DEF IsPath
  <2>3. QED
    BY <2>1, <2>2, <1>2
<1> HIDE DEF g
<1>5. IsPath(w, g, k + 1)
  BY <1>3, <1>4 DEF IsPath
<1>6. k + 1 \in 0..Count
  BY <1>2, <1>5, PathsAreShort, CountIsNat
<1>7. QED
  BY <1>3, <1>5, <1>6, InsideByPath

LEMMA MovesStayGrounded ==
  ASSUME NEW w \in [Nodes -> Place], Grounded(w), NEW n \in Nodes, NEW p \in Place, p \in Nodes => ~Inside(w, p, n)
  PROVE  Grounded([w EXCEPT ![n] = p])
<1> DEFINE v == [w EXCEPT ![n] = p]
<1>1. v[n] = p /\ \A x \in Nodes \ {n} : v[x] = w[x]
  OBVIOUS
<1> HIDE DEF v
<1> SUFFICES ASSUME NEW S \in SUBSET Nodes, S # {}, \A x \in S : v[x] \in S PROVE FALSE
  BY DEF Grounded, v
<1>2. PICK x \in S : w[x] \notin S
  BY DEF Grounded
<1>3. x = n /\ p \in S
  BY <1>1, <1>2
<1> DEFINE R == {y \in S : ~Inside(w, y, n)}
<1>4. p \in R /\ R \in SUBSET Nodes
  BY <1>3
<1>5. PICK y \in R : w[y] \notin R
  BY <1>4 DEF Grounded
<1>6. Inside(w, n, n)
  <2>1. IsPath(w, [i \in 0..0 |-> n], 0)
    BY DEF IsPath
  <2>2. 0 \in 0..Count
    BY CountIsNat
  <2>3. QED
    BY <2>1, <2>2, InsideByPath
<1>7. y # n /\ w[y] \in S
  BY <1>1, <1>5, <1>6
<1>8. Inside(w, w[y], n)
  BY <1>5, <1>7
<1>9. QED
  BY <1>5, <1>7, <1>8, InsideOneMore
------------------------------------------------------------------------------
(* What a request has found, and what it may take from the cache.          *)
WalkRecord ==
  [stage : {"idle", "look", "store", "done"}, user : Users, chain : Seq(Nodes), settled : BOOLEAN,
   reply : Place \cup {"none"}, held : 0..Latency, end : Ends \cup {"none"}]
LineageTyped ==
  /\ place \in [Users -> [Nodes -> Place]] /\ still \in [Users -> 0..Bound] /\ moves \in Nat
  /\ cache \in [Users -> [Nodes -> [meta : Place \cup {"none"}, age : 0..CACHE_TTL]]]
  /\ walk \in [Walkers -> WalkRecord]

Final(c) == c[Len(c)]
NodesOf(c) == {c[i] : i \in DOMAIN c}
Rises(w, c) == \A i \in 1..(Len(c) - 1) : w[c[i]] = c[i + 1]
Closed(p, hops, end) ==
  \/ end = "lineage_unavailable"
  \/ end = "file_not_found" /\ p = "gone" /\ hops = 1
  \/ end = SharedWithMe /\ (p = "shared" \/ (p = "gone" /\ hops > 1))
  \/ end = SharedDrives /\ p = "drive"
  \/ end = "own" /\ p = "mine"
  \/ end = "lineage_too_deep" /\ p \in Nodes /\ hops = MAX_LINEAGE_HOPS + 1

(* A request of a user for whom nothing has moved for long has seen true   *)
(* places only; an answer is a true one if nothing moved since it was      *)
(* given, and so is an entry, which may be older by what an answer can be  *)
(* held.                                                                   *)
ChainOK(q, w) ==
  /\ q.chain # <<>> /\ Len(q.chain) <= MAX_LINEAGE_HOPS + 1 /\ Cardinality(NodesOf(q.chain)) = Len(q.chain)
  /\ q.settled => Rises(w, q.chain)
WalkOK(q, w, calm) ==
  /\ q.stage = "idle" => q = NoWalk
  /\ q.stage # "idle" => ChainOK(q, w)
  /\ q.settled => calm = Bound
  /\ q.stage = "store" => q.reply \in Place /\ (calm > q.held => q.reply = w[Final(q.chain)])
  /\ q.stage = "done" /\ q.settled => Closed(w[Final(q.chain)], Len(q.chain), q.end)
EntryOK(e, p, calm) == e.meta # "none" /\ calm > e.age + Latency => e.meta = p

LineageInv ==
  /\ LineageTyped
  /\ \A u \in Users : Grounded(place[u])
  /\ \A u \in Users, n \in Nodes : EntryOK(cache[u][n], place[u][n], still[u])
  /\ \A w \in Walkers : WalkOK(walk[w], place[walk[w].user], still[walk[w].user])

LEMMA BoundIs == Bound \in Nat /\ Latency \in Nat /\ CACHE_TTL \in Nat /\ CACHE_TTL > 0 /\ Bound = CACHE_TTL + Latency
                 /\ MAX_LINEAGE_HOPS \in Nat
BY Times, HopsNat DEF Bound

LEMMA ChainIsPath ==
  ASSUME NEW w, NEW c \in Seq(Nodes), c # <<>>, Rises(w, c)
  PROVE  IsPath(w, [k \in 0..(Len(c) - 1) |-> c[k + 1]], Len(c) - 1)
<1> DEFINE f == [k \in 0..(Len(c) - 1) |-> c[k + 1]]
<1>1. Len(c) \in Nat /\ Len(c) >= 1 /\ \A i \in 1..Len(c) : c[i] \in Nodes
  OBVIOUS
<1>2. f \in [0..(Len(c) - 1) -> Nodes]
  BY <1>1
<1>3. ASSUME NEW i \in 0..((Len(c) - 1) - 1)
      PROVE  w[f[i]] = f[i + 1]
  <2>1. i + 1 \in 1..(Len(c) - 1) /\ f[i] = c[i + 1] /\ f[i + 1] = c[(i + 1) + 1]
    BY <1>1
  <2>2. QED
    BY <2>1 DEF Rises
<1>4. QED
  BY <1>2, <1>3 DEF IsPath

LEMMA FinalIsNode ==
  ASSUME NEW c \in Seq(Nodes), c # <<>>
  PROVE  Final(c) \in Nodes /\ Len(c) \in Nat \ {0} /\ DOMAIN c = 1..Len(c) /\ NodesOf(c) \in SUBSET Nodes
BY DEF Final, NodesOf

LEMMA OneHop ==
  ASSUME NEW c \in Seq(Nodes), NEW p \in Nodes
  PROVE  /\ Append(c, p) \in Seq(Nodes) /\ Append(c, p) # <<>> /\ Len(Append(c, p)) = Len(c) + 1
         /\ Final(Append(c, p)) = p /\ \A i \in 1..Len(c) : Append(c, p)[i] = c[i]
         /\ NodesOf(Append(c, p)) = NodesOf(c) \cup {p}
<1> DEFINE d == Append(c, p)
<1>1. /\ d \in Seq(Nodes) /\ d # <<>> /\ Len(d) = Len(c) + 1 /\ Len(c) \in Nat /\ d[Len(c) + 1] = p
      /\ \A i \in 1..Len(c) : d[i] = c[i]
  OBVIOUS
<1>2. DOMAIN d = 1..(Len(c) + 1) /\ DOMAIN c = 1..Len(c)
  BY <1>1
<1> HIDE DEF d
<1>3. NodesOf(d) = NodesOf(c) \cup {p}
  <2>1. ASSUME NEW i \in DOMAIN d PROVE d[i] \in NodesOf(c) \cup {p}
    <3>1. CASE i \in 1..Len(c)
      BY <3>1, <1>1, <1>2 DEF NodesOf
    <3>2. CASE i = Len(c) + 1
      BY <3>2, <1>1
    <3>3. QED
      BY <3>1, <3>2, <1>1, <1>2
  <2>2. ASSUME NEW i \in DOMAIN c PROVE c[i] \in NodesOf(d)
    <3>1. i \in DOMAIN d /\ d[i] = c[i]
      BY <1>1, <1>2
    <3>2. QED
      BY <3>1 DEF NodesOf
  <2>3. p \in NodesOf(d)
    <3>1. Len(c) + 1 \in DOMAIN d
      BY <1>1, <1>2
    <3>2. QED
      BY <3>1, <1>1 DEF NodesOf
  <2>4. QED
    BY <2>1, <2>2, <2>3 DEF NodesOf
<1>4. QED
  BY <1>1, <1>3 DEF d, Final

LEMMA OneHopOK ==
  ASSUME NEW w \in [Nodes -> Place], NEW c \in Seq(Nodes), c # <<>>, NEW p \in Nodes,
         Cardinality(NodesOf(c)) = Len(c)
  PROVE  /\ ~Met(c, p) => Cardinality(NodesOf(Append(c, p))) = Len(c) + 1
         /\ Rises(w, c) /\ w[Final(c)] = p => Rises(w, Append(c, p))
         /\ Rises(w, c) /\ w[Final(c)] = p /\ Grounded(w) => ~Met(c, p)
<1>1. ASSUME Rises(w, c), w[Final(c)] = p
      PROVE  Rises(w, Append(c, p))
  <2> SUFFICES ASSUME NEW i \in 1..Len(c)
               PROVE  w[Append(c, p)[i]] = Append(c, p)[i + 1]
    BY OneHop, FinalIsNode DEF Rises
  <2>1. Append(c, p)[i] = c[i] /\ Len(c) \in Nat
    BY OneHop, FinalIsNode
  <2>2. CASE i < Len(c)
    <3>1. i \in 1..(Len(c) - 1) /\ i + 1 \in 1..Len(c)
      BY <2>1, <2>2
    <3>2. QED
      BY <3>1, <2>1, <1>1, OneHop DEF Rises
  <2>3. CASE i = Len(c)
    <3>1. Append(c, p)[i + 1] = p
      BY <2>3, OneHop DEF Final
    <3>2. QED
      BY <3>1, <2>1, <2>3, <1>1 DEF Final
  <2>4. QED
    BY <2>1, <2>2, <2>3
<1>2. ASSUME ~Met(c, p)
      PROVE  Cardinality(NodesOf(Append(c, p))) = Len(c) + 1
  <2>1. p \notin NodesOf(c)
    BY <1>2 DEF Met, NodesOf
  <2>2. IsFiniteSet(NodesOf(c))
    BY FinalIsNode, Forest, FS_Subset
  <2>3. QED
    BY <2>1, <2>2, FS_AddElement, OneHop
<1>3. ASSUME Rises(w, c), w[Final(c)] = p, Grounded(w), Met(c, p)
      PROVE  FALSE
  <2> DEFINE d == Append(c, p)
             f == [k \in 0..(Len(d) - 1) |-> d[k + 1]]
  <2>1. d \in Seq(Nodes) /\ d # <<>> /\ Rises(w, d) /\ Len(d) = Len(c) + 1 /\ Len(c) \in Nat /\ DOMAIN c = 1..Len(c)
    BY <1>1, <1>3, OneHop, FinalIsNode
  <2>2. IsPath(w, f, Len(d) - 1)
    BY <2>1, ChainIsPath
  <2>3. PICK i \in 1..Len(c) : c[i] = p
    BY <1>3, <2>1 DEF Met
  <2>4. i - 1 \in 0..(Len(d) - 1) /\ Len(d) - 1 \in 0..(Len(d) - 1) /\ i - 1 < Len(d) - 1 /\ Len(d) - 1 \in Nat
    BY <2>1, <2>3
  <2>5. f[i - 1] = d[(i - 1) + 1] /\ f[Len(d) - 1] = d[(Len(d) - 1) + 1]
    BY <2>4
  <2>6. d[i] = p /\ d[Len(d)] = p
    BY <2>3, OneHop DEF Final
  <2>7. (i - 1) + 1 = i /\ (Len(d) - 1) + 1 = Len(d)
    BY <2>1, <2>3
  <2> HIDE DEF f, d
  <2>8. f[i - 1] = f[Len(d) - 1]
    BY <2>5, <2>6, <2>7
  <2>9. QED
    BY <2>2, <2>4, <2>8, <1>3, NoRepeat
<1>4. QED
  BY <1>1, <1>2, <1>3

(* A walk that goes on, or ends, at what it was told of a place.           *)
LEMMA OnwardOK ==
  ASSUME NEW q \in WalkRecord, NEW w \in [Nodes -> Place], NEW calm, Grounded(w), WalkOK(q, w, calm),
         q.stage \in {"look", "store"}, NEW meta \in Place, q.settled => meta = w[Final(q.chain)]
  PROVE  Onward(q, meta) \in WalkRecord /\ WalkOK(Onward(q, meta), w, calm) /\ Onward(q, meta).user = q.user
<1> DEFINE c == q.chain
           p == Onward(q, meta)
           ended(end) == [q EXCEPT !.stage = "done", !.end = end, !.reply = "none", !.held = 0]
<1>1. /\ c \in Seq(Nodes) /\ c # <<>> /\ Len(c) <= MAX_LINEAGE_HOPS + 1 /\ Cardinality(NodesOf(c)) = Len(c)
      /\ q.settled => Rises(w, c) /\ calm = Bound
      /\ Len(c) \in Nat \ {0} /\ Final(c) \in Nodes /\ MAX_LINEAGE_HOPS \in Nat /\ 0 \in 0..Latency
  BY FinalIsNode, BoundIs DEF WalkRecord, WalkOK, ChainOK
<1>2. ASSUME NEW end \in Ends, p = ended(end), q.settled => Closed(meta, Len(c), end)
      PROVE  p \in WalkRecord /\ WalkOK(p, w, calm) /\ p.user = q.user
  <2>1. /\ p.stage = "done" /\ p.chain = c /\ p.settled = q.settled /\ p.end = end /\ p.user = q.user
        /\ p \in WalkRecord
    BY <1>1, <1>2 DEF WalkRecord
  <2> HIDE DEF p
  <2>2. QED
    BY <1>1, <1>2, <2>1 DEF WalkOK, ChainOK
<1>3. ASSUME meta \in Nodes, Len(c) <= MAX_LINEAGE_HOPS, ~Met(c, meta)
      PROVE  p \in WalkRecord /\ WalkOK(p, w, calm) /\ p.user = q.user
  <2>1. p = [q EXCEPT !.stage = "look", !.chain = Append(c, meta), !.reply = "none", !.held = 0]
    BY <1>1, <1>3, Forest DEF Onward, Tops
  <2>2. Append(c, meta) \in Seq(Nodes)
    BY <1>1, <1>3, OneHop
  <2>3. p \in WalkRecord /\ p.stage = "look" /\ p.chain = Append(c, meta) /\ p.settled = q.settled /\ p.user = q.user
    BY <1>1, <2>1, <2>2 DEF WalkRecord
  <2> HIDE DEF p
  <2>4. ChainOK(p, w)
    BY <1>1, <1>3, <2>3, OneHop, OneHopOK DEF ChainOK
  <2>5. QED
    BY <1>1, <2>3, <2>4 DEF WalkOK
<1> SUFFICES p \in WalkRecord /\ WalkOK(p, w, calm) /\ p.user = q.user
  OBVIOUS
<1>4. meta \notin Nodes \/ meta \notin Tops
  BY Forest
<1>5. CASE meta \in Tops
  <2>1. meta \notin Nodes
    BY <1>4, <1>5
  <2>2. CASE meta = "gone" /\ Len(c) = 1
    <3>1. p = ended("file_not_found") /\ Closed(meta, Len(c), "file_not_found") /\ "file_not_found" \in Ends
      BY <2>1, <2>2 DEF Onward, Closed, Ends
    <3> HIDE DEF p, ended
    <3>2. QED
      BY <1>2, <3>1
  <2>3. CASE meta = "gone" /\ Len(c) > 1
    <3>1. p = ended(SharedWithMe) /\ Closed(meta, Len(c), SharedWithMe) /\ SharedWithMe \in Ends
      BY <1>1, <2>1, <2>3 DEF Onward, Closed, Ends
    <3> HIDE DEF p, ended
    <3>2. QED
      BY <1>2, <3>1
  <2>4. CASE meta = "drive"
    <3>1. p = ended(SharedDrives) /\ Closed(meta, Len(c), SharedDrives) /\ SharedDrives \in Ends
      BY <2>1, <2>4 DEF Onward, Closed, Ends
    <3> HIDE DEF p, ended
    <3>2. QED
      BY <1>2, <3>1
  <2>5. CASE meta = "shared"
    <3>1. p = ended(SharedWithMe) /\ Closed(meta, Len(c), SharedWithMe) /\ SharedWithMe \in Ends
      BY <2>1, <2>5 DEF Onward, Closed, Ends
    <3> HIDE DEF p, ended
    <3>2. QED
      BY <1>2, <3>1
  <2>6. CASE meta = "mine"
    <3>1. p = ended("own") /\ Closed(meta, Len(c), "own") /\ "own" \in Ends
      BY <2>1, <2>6 DEF Onward, Closed, Ends
    <3> HIDE DEF p, ended
    <3>2. QED
      BY <1>2, <3>1
  <2>7. Len(c) = 1 \/ Len(c) > 1
    <3>1. \A i \in Nat \ {0} : i = 1 \/ i > 1
      OBVIOUS
    <3>2. Len(c) \in Nat \ {0}
      BY <1>1
    <3>3. QED
      BY <3>1, <3>2, Zenon
  <2>8. QED
    BY <1>5, <2>2, <2>3, <2>4, <2>5, <2>6, <2>7 DEF Tops
<1>6. CASE meta \in Nodes
  <2>1. meta \notin Tops
    BY <1>4, <1>6
  <2>2. CASE Len(c) > MAX_LINEAGE_HOPS
    <3>1. p = ended("lineage_too_deep")
      BY <1>1, <1>6, <2>1, <2>2 DEF Onward, Tops
    <3>2. Closed(meta, Len(c), "lineage_too_deep")
      BY <1>1, <1>6, <2>2 DEF Closed
    <3>3. "lineage_too_deep" \in Ends
      BY DEF Ends
    <3> HIDE DEF p, ended
    <3>4. QED
      BY <1>2, <3>1, <3>2, <3>3
  <2>3. CASE Len(c) <= MAX_LINEAGE_HOPS /\ Met(c, meta)
    <3>1. p = ended("met")
      BY <1>1, <1>6, <2>1, <2>3 DEF Onward, Tops
    <3>2. ~q.settled
      BY <1>1, <1>6, <2>3, OneHopOK
    <3>3. "met" \in Ends
      BY DEF Ends
    <3> HIDE DEF p, ended
    <3>4. QED
      BY <1>2, <3>1, <3>2, <3>3
  <2>4. CASE Len(c) <= MAX_LINEAGE_HOPS /\ ~Met(c, meta)
    BY <1>3, <1>6, <2>4
  <2>5. QED
    BY <1>1, <2>2, <2>3, <2>4
<1>7. QED
  BY <1>5, <1>6 DEF Place
------------------------------------------------------------------------------
LEMMA EmptyWalk == NoWalk \in WalkRecord /\ NoWalk.stage = "idle" /\ NoWalk.settled = FALSE /\ NoWalk.held = 0
<1>1. (CHOOSE u \in Users : TRUE) \in Users
  BY Forest
<1>2. <<>> \in Seq(Nodes) /\ 0 \in 0..Latency
  BY BoundIs
<1>3. QED
  BY <1>1, <1>2 DEF NoWalk, WalkRecord

LEMMA LineageBegins == LineageInit => LineageInv
<1> SUFFICES ASSUME LineageInit PROVE LineageInv
  OBVIOUS
<1>1. Bound \in 0..Bound /\ 0 \in 0..CACHE_TTL
  BY BoundIs
<1>2. NoEntry \in [meta : Place \cup {"none"}, age : 0..CACHE_TTL] /\ NoEntry.meta = "none"
  BY <1>1 DEF NoEntry
<1>3. LineageTyped
  BY <1>1, <1>2, EmptyWalk, Forest DEF LineageInit, LineageTyped
<1>4. ASSUME NEW u \in Users
      PROVE  Grounded(place[u]) /\ \A n \in Nodes : EntryOK(cache[u][n], place[u][n], still[u])
  <2>1. Grounded(Seen[u])
    BY GroundedAtFirst, Forest
  <2>2. QED
    BY <2>1, <1>2 DEF LineageInit, EntryOK
<1>5. ASSUME NEW w \in Walkers
      PROVE  WalkOK(walk[w], place[walk[w].user], still[walk[w].user])
  BY EmptyWalk DEF LineageInit, WalkOK
<1>6. QED
  BY <1>3, <1>4, <1>5 DEF LineageInv

(* One request takes a step, and may leave an entry for its user.          *)
LEMMA OneWalks ==
  ASSUME LineageInv, NEW w \in Walkers, NEW q \in WalkRecord, walk' = [walk EXCEPT ![w] = q],
         UNCHANGED <<place, still, moves>>, WalkOK(q, place[q.user], still[q.user]),
         cache' \in [Users -> [Nodes -> [meta : Place \cup {"none"}, age : 0..CACHE_TTL]]],
         \A u \in Users, n \in Nodes : EntryOK(cache'[u][n], place[u][n], still[u])
  PROVE  LineageInv'
<1>1. walk' \in [Walkers -> WalkRecord] /\ walk'[w] = q /\ \A v \in Walkers \ {w} : walk'[v] = walk[v]
  BY DEF LineageInv, LineageTyped
<1>2. LineageTyped'
  BY <1>1 DEF LineageInv, LineageTyped
<1>3. ASSUME NEW v \in Walkers
      PROVE  WalkOK(walk'[v], place'[walk'[v].user], still'[walk'[v].user])
  <2>1. CASE v = w
    BY <2>1, <1>1
  <2>2. CASE v # w
    BY <2>2, <1>1 DEF LineageInv
  <2>3. QED
    BY <2>1, <2>2
<1>4. QED
  BY <1>2, <1>3 DEF LineageInv

(* What is known of a request, apart from the others.                      *)
LEMMA OneWalk ==
  ASSUME LineageInv, NEW w \in Walkers
  PROVE  /\ walk[w] \in WalkRecord /\ walk[w].user \in Users
         /\ WalkOK(walk[w], place[walk[w].user], still[walk[w].user])
         /\ place[walk[w].user] \in [Nodes -> Place] /\ Grounded(place[walk[w].user])
         /\ walk[w].stage # "idle" => Current(w) \in Nodes /\ Current(w) = Final(walk[w].chain)
<1>1. walk[w] \in WalkRecord
  BY DEF LineageInv, LineageTyped
<1>2. walk[w].user \in Users /\ walk[w].chain \in Seq(Nodes)
  BY <1>1 DEF WalkRecord
<1>3. WalkOK(walk[w], place[walk[w].user], still[walk[w].user])
  BY DEF LineageInv
<1>4. walk[w].stage # "idle" => walk[w].chain # <<>>
  BY <1>3 DEF WalkOK, ChainOK
<1>5. Current(w) = Final(walk[w].chain)
  BY DEF Current, Final
<1>6. QED
  BY <1>1, <1>2, <1>3, <1>4, <1>5, FinalIsNode DEF LineageInv, LineageTyped

LEMMA BeginOK ==
  ASSUME LineageInv, NEW w \in Walkers, NEW u \in Users, NEW f \in Files
  PROVE  /\ Begin(w, u, f) \in WalkRecord /\ WalkOK(Begin(w, u, f), place[u], still[u])
         /\ Begin(w, u, f).stage = "look" /\ Begin(w, u, f).user = u /\ Begin(w, u, f).chain = <<f>>
         /\ Begin(w, u, f).settled = (still[u] = Bound)
<1> DEFINE b == Begin(w, u, f)
<1>1. <<f>> \in Seq(Nodes) /\ <<f>> # <<>> /\ Len(<<f>>) = 1 /\ <<f>>[1] = f /\ f \in Nodes
  BY Forest
<1>2. /\ b.stage = "look" /\ b.user = u /\ b.chain = <<f>> /\ b.settled = (still[u] = Bound)
      /\ b \in WalkRecord
  BY <1>1, EmptyWalk DEF Begin, WalkRecord
<1> HIDE DEF b
<1>3. NodesOf(<<f>>) = {f}
  BY <1>1 DEF NodesOf
<1>4. Cardinality(NodesOf(b.chain)) = Len(b.chain)
  BY <1>1, <1>2, <1>3, FS_Singleton
<1>5. Rises(place[u], b.chain) /\ Len(b.chain) = 1 /\ 1 <= MAX_LINEAGE_HOPS + 1 /\ b.chain # <<>>
  BY <1>1, <1>2, BoundIs DEF Rises
<1>6. ChainOK(b, place[u])
  BY <1>4, <1>5 DEF ChainOK
<1>7. WalkOK(b, place[u], still[u])
  BY <1>2, <1>6 DEF WalkOK
<1>8. QED
  BY <1>2, <1>7 DEF b

LEMMA CheckOK == ASSUME LineageInv, NEW w \in Walkers, Check(w) PROVE LineageInv'
<1>1. PICK u \in Users, f \in Files : walk' = [walk EXCEPT ![w] = Begin(w, u, f)]
  BY DEF Check
<1>2. QED
  BY <1>1, BeginOK, OneWalks DEF Check, LineageInv, LineageTyped

LEMMA ListOK == ASSUME LineageInv, NEW w \in Walkers, List(w) PROVE LineageInv'
<1>1. PICK u \in Users, f \in Files :
        walk' = [walk EXCEPT ![w] = [Begin(w, u, f) EXCEPT !.stage = "store", !.reply = place[u][f], !.held = 0]]
  BY DEF List
<1> DEFINE b == Begin(w, u, f)
           q == [b EXCEPT !.stage = "store", !.reply = place[u][f], !.held = 0]
<1>2. b \in WalkRecord /\ WalkOK(b, place[u], still[u]) /\ b.stage = "look" /\ b.user = u /\ b.chain = <<f>>
  BY BeginOK
<1>3. place[u][f] \in Place /\ 0 \in 0..Latency /\ Final(<<f>>) = f
  BY Forest, BoundIs DEF LineageInv, LineageTyped, Final
<1> HIDE DEF b
<1>4. /\ q \in WalkRecord /\ q.stage = "store" /\ q.user = u /\ q.chain = b.chain /\ q.settled = b.settled
      /\ q.reply = place[u][f]
  BY <1>2, <1>3 DEF WalkRecord
<1>5. walk' = [walk EXCEPT ![w] = q]
  BY <1>1 DEF b
<1> HIDE DEF q
<1>6. WalkOK(q, place[u], still[u])
  BY <1>2, <1>3, <1>4 DEF WalkOK, ChainOK
<1>7. QED
  BY <1>4, <1>5, <1>6, OneWalks DEF List, LineageInv, LineageTyped

LEMMA UseHitOK == ASSUME LineageInv, NEW w \in Walkers, UseHit(w) PROVE LineageInv'
<1> DEFINE u == walk[w].user
           e == cache[u][Current(w)]
           q == Onward(walk[w], e.meta)
<1>1. /\ walk[w] \in WalkRecord /\ u \in Users /\ WalkOK(walk[w], place[u], still[u]) /\ Grounded(place[u])
      /\ place[u] \in [Nodes -> Place] /\ Current(w) \in Nodes /\ Current(w) = Final(walk[w].chain)
      /\ walk[w].stage = "look"
  BY OneWalk DEF UseHit, WalkAt
<1>2. e.meta # "none" /\ e.age < CACHE_TTL /\ walk' = [walk EXCEPT ![w] = q]
  BY DEF UseHit, Hit, Advance
<1>3. /\ e \in [meta : Place \cup {"none"}, age : 0..CACHE_TTL]
      /\ EntryOK(e, place[u][Current(w)], still[u])
  BY <1>1 DEF LineageInv, LineageTyped
<1>4. e.meta \in Place /\ e.age \in 0..CACHE_TTL
  BY <1>2, <1>3
<1>5. ASSUME walk[w].settled PROVE e.meta = place[u][Final(walk[w].chain)]
  <2>1. still[u] = Bound
    BY <1>1, <1>5 DEF WalkOK
  <2>2. still[u] > e.age + Latency
    BY <2>1, <1>2, <1>4, BoundIs
  <2>3. QED
    BY <2>2, <1>1, <1>2, <1>3 DEF EntryOK
<1> HIDE DEF e
<1>6. q \in WalkRecord /\ WalkOK(q, place[u], still[u]) /\ q.user = u
  BY <1>1, <1>4, <1>5, OnwardOK
<1> HIDE DEF q
<1>7. QED
  BY <1>2, <1>6, OneWalks DEF UseHit, LineageInv, LineageTyped

LEMMA FetchOK == ASSUME LineageInv, NEW w \in Walkers, Fetch(w) PROVE LineageInv'
<1> DEFINE u == walk[w].user
           p == place[u][Current(w)]
           q == [walk[w] EXCEPT !.stage = "store", !.reply = p, !.held = 0]
<1>1. /\ walk[w] \in WalkRecord /\ u \in Users /\ WalkOK(walk[w], place[u], still[u])
      /\ place[u] \in [Nodes -> Place] /\ Current(w) \in Nodes /\ Current(w) = Final(walk[w].chain)
      /\ walk[w].stage = "look" /\ walk' = [walk EXCEPT ![w] = q]
  BY OneWalk DEF Fetch, WalkAt
<1>2. p \in Place /\ p = place[u][Final(walk[w].chain)] /\ 0 \in 0..Latency
  BY <1>1, BoundIs
<1> HIDE DEF p
<1>3. /\ q \in WalkRecord /\ q.stage = "store" /\ q.user = u /\ q.chain = walk[w].chain
      /\ q.settled = walk[w].settled /\ q.reply = p
  BY <1>1, <1>2 DEF WalkRecord
<1> HIDE DEF q
<1>4. WalkOK(q, place[u], still[u])
  BY <1>1, <1>2, <1>3 DEF WalkOK, ChainOK
<1>5. QED
  BY <1>1, <1>3, <1>4, OneWalks DEF Fetch, LineageInv, LineageTyped

LEMMA FetchFailsOK == ASSUME LineageInv, NEW w \in Walkers, FetchFails(w) PROVE LineageInv'
<1> DEFINE u == walk[w].user
           q == [walk[w] EXCEPT !.stage = "done", !.end = "lineage_unavailable"]
<1>1. /\ walk[w] \in WalkRecord /\ u \in Users /\ WalkOK(walk[w], place[u], still[u])
      /\ walk[w].stage = "look" /\ walk' = [walk EXCEPT ![w] = q]
  BY OneWalk DEF FetchFails, WalkAt
<1>2. "lineage_unavailable" \in Ends
  BY DEF Ends
<1>3. /\ q \in WalkRecord /\ q.stage = "done" /\ q.user = u /\ q.chain = walk[w].chain
      /\ q.settled = walk[w].settled /\ q.end = "lineage_unavailable"
  BY <1>1, <1>2 DEF WalkRecord
<1> HIDE DEF q
<1>4. WalkOK(q, place[u], still[u])
  BY <1>1, <1>3 DEF WalkOK, ChainOK, Closed
<1>5. QED
  BY <1>1, <1>3, <1>4, OneWalks DEF FetchFails, LineageInv, LineageTyped

LEMMA StoreOK == ASSUME LineageInv, NEW w \in Walkers, Store(w) PROVE LineageInv'
<1> DEFINE u == walk[w].user
           r == walk[w].reply
           c == Current(w)
           q == Onward(walk[w], r)
           e == [meta |-> r, age |-> 0]
<1>1. /\ walk[w] \in WalkRecord /\ u \in Users /\ WalkOK(walk[w], place[u], still[u]) /\ Grounded(place[u])
      /\ place[u] \in [Nodes -> Place] /\ c \in Nodes /\ c = Final(walk[w].chain)
      /\ walk[w].stage = "store" /\ walk' = [walk EXCEPT ![w] = q] /\ cache' = [cache EXCEPT ![u][c] = e]
  BY OneWalk DEF Store, WalkAt, Advance
<1>2. r \in Place /\ (still[u] > walk[w].held => r = place[u][c]) /\ walk[w].held \in 0..Latency
  BY <1>1 DEF WalkOK, WalkRecord
<1>3. still[u] > Latency => r = place[u][c]
  BY <1>2, BoundIs, <1>1 DEF LineageInv, LineageTyped
<1>4. walk[w].settled => r = place[u][Final(walk[w].chain)]
  <2>1. walk[w].settled => still[u] = Bound
    BY <1>1 DEF WalkOK
  <2>2. Bound > Latency
    BY BoundIs
  <2>3. QED
    BY <2>1, <2>2, <1>1, <1>3
<1>5. e \in [meta : Place \cup {"none"}, age : 0..CACHE_TTL] /\ e.meta = r /\ e.age = 0
  BY <1>2, BoundIs
<1>6. EntryOK(e, place[u][c], still[u])
  BY <1>3, <1>5, BoundIs DEF EntryOK
<1> HIDE DEF r, c, e
<1>7. q \in WalkRecord /\ WalkOK(q, place[u], still[u]) /\ q.user = u
  BY <1>1, <1>2, <1>4, OnwardOK
<1> HIDE DEF q
<1>8. cache' \in [Users -> [Nodes -> [meta : Place \cup {"none"}, age : 0..CACHE_TTL]]]
  BY <1>1, <1>5 DEF LineageInv, LineageTyped
<1>9. ASSUME NEW v \in Users, NEW n \in Nodes
      PROVE  EntryOK(cache'[v][n], place[v][n], still[v])
  <2>1. CASE v = u /\ n = c
    BY <2>1, <1>1, <1>6 DEF LineageInv, LineageTyped
  <2>2. CASE ~(v = u /\ n = c)
    <3>1. cache'[v][n] = cache[v][n]
      BY <2>2, <1>1 DEF LineageInv, LineageTyped
    <3>2. QED
      BY <3>1 DEF LineageInv
  <2>3. QED
    BY <2>1, <2>2
<1>10. UNCHANGED <<place, still, moves>>
  BY DEF Store
<1>11. QED
  BY <1>1, <1>7, <1>8, <1>9, <1>10, OneWalks

LEMMA AnswerOK == ASSUME LineageInv, NEW w \in Walkers, Answer(w) PROVE LineageInv'
<1>1. WalkOK(NoWalk, place[NoWalk.user], still[NoWalk.user])
  BY EmptyWalk DEF WalkOK
<1>2. QED
  BY <1>1, EmptyWalk, OneWalks DEF Answer, LineageInv, LineageTyped

LEMMA EvictOK == ASSUME LineageInv, NEW u \in Users, NEW n \in Nodes, Evict(u, n) PROVE LineageInv'
<1>1. NoEntry \in [meta : Place \cup {"none"}, age : 0..CACHE_TTL] /\ NoEntry.meta = "none"
  BY BoundIs DEF NoEntry
<1>2. cache' = [cache EXCEPT ![u][n] = NoEntry] /\ UNCHANGED <<place, still, moves, walk>>
  BY DEF Evict
<1>3. LineageTyped'
  BY <1>1, <1>2 DEF LineageInv, LineageTyped
<1>4. ASSUME NEW v \in Users, NEW m \in Nodes
      PROVE  EntryOK(cache'[v][m], place[v][m], still[v])
  <2>1. CASE v = u /\ m = n
    BY <2>1, <1>1, <1>2 DEF LineageInv, LineageTyped, EntryOK
  <2>2. CASE ~(v = u /\ m = n)
    <3>1. cache'[v][m] = cache[v][m]
      BY <2>2, <1>2 DEF LineageInv, LineageTyped
    <3>2. QED
      BY <3>1 DEF LineageInv
  <2>3. QED
    BY <2>1, <2>2
<1>5. QED
  BY <1>2, <1>3, <1>4 DEF LineageInv

LEMMA MoveOK ==
  ASSUME LineageInv, NEW u \in Users, NEW n \in Nodes, NEW p \in Place, Move(u, n, p)
  PROVE  LineageInv'
<1>1. /\ place' = [place EXCEPT ![u][n] = p] /\ still' = [still EXCEPT ![u] = 0] /\ moves' = moves + 1
      /\ walk' = [w \in Walkers |-> [walk[w] EXCEPT !.settled = @ /\ walk[w].user # u]] /\ cache' = cache
      /\ (p \in Nodes => ~Inside(place[u], p, n))
  BY DEF Move
<1>2. /\ place \in [Users -> [Nodes -> Place]] /\ still \in [Users -> 0..Bound] /\ walk \in [Walkers -> WalkRecord]
      /\ moves \in Nat
  BY DEF LineageInv, LineageTyped
<1>3. /\ place' \in [Users -> [Nodes -> Place]] /\ still' \in [Users -> 0..Bound] /\ moves' \in Nat
      /\ still'[u] = 0 /\ place'[u] = [place[u] EXCEPT ![n] = p]
      /\ \A v \in Users \ {u} : place'[v] = place[v] /\ still'[v] = still[v]
  BY <1>1, <1>2, BoundIs
<1>4. ASSUME NEW w \in Walkers
      PROVE  /\ walk'[w] \in WalkRecord
             /\ WalkOK(walk'[w], place'[walk'[w].user], still'[walk'[w].user])
  <2> DEFINE q == walk[w]
             r == walk'[w]
  <2> DEFINE s == q.settled /\ q.user # u
  <2>1. r = [q EXCEPT !.settled = s] /\ q \in WalkRecord
    BY <1>1, <1>2
  <2>0. s \in BOOLEAN /\ (s => q.settled) /\ (s => q.user # u) /\ (q.settled /\ q.user # u => s)
    OBVIOUS
  <2> HIDE DEF s
  <2>2. /\ r.stage = q.stage /\ r.user = q.user /\ r.chain = q.chain /\ r.reply = q.reply /\ r.held = q.held
        /\ r.end = q.end /\ r.settled = s /\ r \in WalkRecord /\ q.user \in Users /\ q.held \in 0..Latency
    BY <2>0, <2>1 DEF WalkRecord
  <2>3. WalkOK(q, place[q.user], still[q.user])
    BY OneWalk
  <2> HIDE DEF q, r
  <2>4. q.stage = "idle" => r = NoWalk
    <3> SUFFICES ASSUME q.stage = "idle" PROVE r = NoWalk
      OBVIOUS
    <3>1. q = NoWalk
      BY <2>3 DEF WalkOK
    <3>2. s = FALSE
      BY <2>0, <3>1, EmptyWalk
    <3>3. r = [NoWalk EXCEPT !.settled = FALSE]
      BY <2>1, <3>1, <3>2 DEF r
    <3>4. QED
      BY <3>3 DEF NoWalk
  <2>5. CASE q.user = u
    <3>0. ~s /\ ~(0 > r.held)
      BY <2>0, <2>2, <2>5, BoundIs
    <3>1. still'[r.user] = 0 /\ ~r.settled /\ ~(0 > r.held)
      BY <2>2, <2>5, <1>3, <3>0
    <3>2. WalkOK(r, place'[r.user], still'[r.user])
      BY <2>2, <2>3, <2>4, <3>1 DEF WalkOK, ChainOK
    <3>3. QED
      BY <2>2, <3>2 DEF r
  <2>6. CASE q.user # u
    <3>1. place'[r.user] = place[q.user] /\ still'[r.user] = still[q.user] /\ (r.settled => q.settled)
      BY <2>0, <2>2, <2>6, <1>3
    <3>2. WalkOK(r, place'[r.user], still'[r.user])
      BY <2>2, <2>3, <2>4, <3>1 DEF WalkOK, ChainOK
    <3>3. QED
      BY <2>2, <3>2 DEF r
  <2>7. QED
    BY <2>5, <2>6
<1>5. walk' \in [Walkers -> WalkRecord]
  BY <1>1, <1>4
<1>6. LineageTyped'
  BY <1>1, <1>3, <1>5 DEF LineageInv, LineageTyped
<1>7. ASSUME NEW v \in Users
      PROVE  Grounded(place'[v]) /\ \A m \in Nodes : EntryOK(cache'[v][m], place'[v][m], still'[v])
  <2>1. CASE v = u
    <3>1. Grounded(place'[v])
      BY <2>1, <1>1, <1>2, <1>3, MovesStayGrounded DEF LineageInv
    <3>2. ASSUME NEW m \in Nodes PROVE EntryOK(cache'[v][m], place'[v][m], still'[v])
      <4>1. cache'[v][m].age \in Nat
        BY <1>6, BoundIs DEF LineageTyped
      <4>2. ~(0 > cache'[v][m].age + Latency)
        BY <4>1, BoundIs
      <4>3. QED
        BY <4>2, <2>1, <1>3 DEF EntryOK
    <3>3. QED
      BY <3>1, <3>2
  <2>2. CASE v # u
    BY <2>2, <1>1, <1>3 DEF LineageInv
  <2>3. QED
    BY <2>1, <2>2
<1>8. QED
  BY <1>4, <1>6, <1>7 DEF LineageInv

LEMMA TickOK == ASSUME LineageInv, Tick PROVE LineageInv'
<1> DEFINE Aged(e) == IF e = NoEntry THEN NoEntry ELSE [e EXCEPT !.age = Older(@, CACHE_TTL)]
           Entry == [meta : Place \cup {"none"}, age : 0..CACHE_TTL]
<1>1. /\ place' = place /\ moves' = moves /\ still' = [u \in Users |-> Older(still[u], Bound)]
      /\ cache' = [u \in Users |-> [n \in Nodes |-> Aged(cache[u][n])]]
      /\ walk' = [w \in Walkers |-> IF WalkAt(w, "store") THEN [walk[w] EXCEPT !.held = @ + 1] ELSE walk[w]]
      /\ \A w \in Walkers : walk[w].stage = "store" => walk[w].held < Latency
  BY DEF Tick, WalkAt
<1>2. /\ still \in [Users -> 0..Bound] /\ walk \in [Walkers -> WalkRecord]
      /\ cache \in [Users -> [Nodes -> Entry]] /\ place \in [Users -> [Nodes -> Place]]
  BY DEF LineageInv, LineageTyped
<1>3. ASSUME NEW u \in Users
      PROVE  /\ still[u] \in 0..Bound /\ still'[u] \in 0..Bound
             /\ (still[u] < Bound => still'[u] = still[u] + 1) /\ (still[u] = Bound => still'[u] = Bound)
  <2>1. still[u] \in 0..Bound /\ still'[u] = Older(still[u], Bound)
    BY <1>1, <1>2
  <2>2. QED
    BY <2>1, BoundIs DEF Older
<1>4. ASSUME NEW u \in Users, NEW n \in Nodes
      PROVE  cache'[u][n] \in Entry /\ EntryOK(cache'[u][n], place'[u][n], still'[u])
  <2> DEFINE e == cache[u][n]
             f == cache'[u][n]
  <2>1. f = Aged(e) /\ e \in Entry
    BY <1>1, <1>2
  <2>2. EntryOK(e, place[u][n], still[u])
    BY DEF LineageInv
  <2>3. CASE e = NoEntry
    <3>1. f = NoEntry
      BY <2>1, <2>3
    <3>2. f.meta = "none"
      BY <3>1 DEF NoEntry
    <3>3. QED
      BY <2>1, <2>3, <3>1, <3>2 DEF EntryOK
  <2>4. CASE e # NoEntry
    <3>1. f = [e EXCEPT !.age = Older(@, CACHE_TTL)]
      BY <2>1, <2>4
    <3>2. /\ f.meta = e.meta /\ e.age \in 0..CACHE_TTL /\ f \in Entry
          /\ f.age = IF e.age < CACHE_TTL THEN e.age + 1 ELSE CACHE_TTL
      BY <2>1, <3>1, BoundIs DEF Older
    <3> HIDE DEF e, f
    <3>3. still'[u] > f.age + Latency => still[u] > e.age + Latency
      BY <1>3, <3>2, BoundIs
    <3>4. QED
      BY <1>1, <2>2, <3>2, <3>3 DEF EntryOK, e, f
  <2>5. QED
    BY <2>3, <2>4
<1>5. ASSUME NEW w \in Walkers
      PROVE  walk'[w] \in WalkRecord /\ WalkOK(walk'[w], place'[walk'[w].user], still'[walk'[w].user])
  <2> DEFINE q == walk[w]
             r == walk'[w]
  <2>1. q \in WalkRecord /\ q.user \in Users /\ WalkOK(q, place[q.user], still[q.user]) /\ q.held \in 0..Latency
    BY OneWalk, <1>2 DEF WalkRecord
  <2>2. r = IF q.stage = "store" THEN [q EXCEPT !.held = @ + 1] ELSE q
    BY <1>1 DEF WalkAt
  <2>3. q.stage = "store" => q.held + 1 \in 0..Latency
    BY <1>1, <2>1, BoundIs
  <2>4. /\ r.stage = q.stage /\ r.user = q.user /\ r.chain = q.chain /\ r.reply = q.reply /\ r.settled = q.settled
        /\ r.end = q.end /\ r \in WalkRecord /\ (q.stage = "store" => r.held = q.held + 1)
        /\ (q.stage # "store" => r = q)
    BY <2>1, <2>2, <2>3 DEF WalkRecord
  <2> HIDE DEF q, r
  <2>5. (q.settled => still'[q.user] = Bound) /\ (still'[q.user] > q.held + 1 => still[q.user] > q.held)
    BY <1>3, <2>1, BoundIs DEF WalkOK
  <2>6. WalkOK(r, place[q.user], still'[q.user])
    BY <2>1, <2>4, <2>5 DEF WalkOK, ChainOK
  <2>7. QED
    BY <1>1, <2>4, <2>6 DEF r
<1>6. LineageTyped'
  <2>1. still' \in [Users -> 0..Bound] /\ walk' \in [Walkers -> WalkRecord]
    BY <1>1, <1>3, <1>5
  <2>2. cache' \in [Users -> [Nodes -> Entry]]
    <3>1. \A u \in Users, n \in Nodes : Aged(cache[u][n]) \in Entry
      BY <1>1, <1>4
    <3> HIDE DEF Aged, Entry
    <3>2. QED
      BY <1>1, <3>1
  <2>3. QED
    BY <1>1, <2>1, <2>2 DEF LineageInv, LineageTyped
<1>7. QED
  BY <1>1, <1>4, <1>5, <1>6 DEF LineageInv

LEMMA LineageKept == LineageInv /\ [LineageNext]_lineage_vars => LineageInv'
<1> SUFFICES ASSUME LineageInv, [LineageNext]_lineage_vars PROVE LineageInv'
  OBVIOUS
<1>1. ASSUME NEW w \in Walkers,
             Check(w) \/ List(w) \/ UseHit(w) \/ Fetch(w) \/ FetchFails(w) \/ Store(w) \/ Answer(w)
      PROVE  LineageInv'
  BY <1>1, CheckOK, ListOK, UseHitOK, FetchOK, FetchFailsOK, StoreOK, AnswerOK
<1>2. ASSUME NEW u \in Users, NEW n \in Nodes, Evict(u, n) \/ \E p \in Place : <<n, p>> \in Moves /\ Move(u, n, p)
      PROVE  LineageInv'
  BY <1>2, EvictOK, MoveOK
<1>3. CASE UNCHANGED lineage_vars
  BY <1>3 DEF lineage_vars, LineageInv, LineageTyped
<1>4. QED
  BY <1>1, <1>2, <1>3, TickOK DEF LineageNext

LEMMA LineageHolds == LineageSpec => []LineageInv
<1>1. LineageInit => LineageInv
  BY LineageBegins
<1>2. LineageInv /\ [LineageNext]_lineage_vars => LineageInv'
  BY LineageKept
<1>3. QED
  BY <1>1, <1>2, PTL DEF LineageSpec
------------------------------------------------------------------------------
(* Every request has a list of different nodes, no longer than the limit   *)
(* and one, and an end of the known ones (driveLineage.ts's walk).         *)
THEOREM LineageTypeCorrect == LineageSpec => []LineageTypeOK
<1>1. ASSUME LineageInv PROVE LineageTypeOK
  <2>1. ASSUME NEW w \in Walkers
        PROVE  /\ walk[w] \in WalkRecord /\ Len(walk[w].chain) <= MAX_LINEAGE_HOPS + 1
               /\ Cardinality(NodesOf(walk[w].chain)) = Len(walk[w].chain)
    <3>1. walk[w] \in WalkRecord /\ WalkOK(walk[w], place[walk[w].user], still[walk[w].user])
      BY <1>1, OneWalk
    <3>2. CASE walk[w].stage = "idle"
      <4>1. walk[w].chain = <<>>
        BY <3>1, <3>2 DEF WalkOK, NoWalk
      <4>2. NodesOf(<<>>) = {} /\ Len(<<>>) = 0 /\ 0 <= MAX_LINEAGE_HOPS + 1
        BY BoundIs DEF NodesOf
      <4>3. QED
        BY <3>1, <4>1, <4>2, FS_EmptySet
    <3>3. CASE walk[w].stage # "idle"
      BY <3>1, <3>3 DEF WalkOK, ChainOK
    <3>4. QED
      BY <3>2, <3>3
  <2>2. QED
    BY <1>1, <2>1 DEF LineageInv, LineageTyped, LineageTypeOK, WalkRecord, NodesOf
<1>2. QED
  BY <1>1, LineageHolds, PTL
------------------------------------------------------------------------------
LEMMA LeastOf ==
  ASSUME NEW J \in SUBSET Nat, J # {}
  PROVE  \E j \in J : \A i \in J : j <= i
<1> DEFINE R == OpToRel(<, Nat)
<1>1. IsWellFoundedOn(R, Nat)
  BY NatLessThanWellFounded
<1>2. \A x, y \in Nat : x < y => <<x, y>> \in R
  BY DEF OpToRel
<1> HIDE DEF R
<1>3. PICK j \in J : \A i \in J : ~ (<<i, j>> \in R)
  BY <1>1, WFMin
<1>4. ASSUME NEW i \in J PROVE j <= i
  <2>1. ~ (i < j) /\ i \in Nat /\ j \in Nat
    BY <1>2, <1>3
  <2>2. QED
    BY <2>1
<1>5. QED
  BY <1>4

(* A chain of true places that leads out holds all that its first node is  *)
(* in, in order.                                                           *)
LEMMA ChainGoesUp ==
  ASSUME NEW w, Grounded(w), NEW c \in Seq(Nodes), c # <<>>, Rises(w, c),
         NEW a \in 1..Len(c), NEW b \in 1..Len(c), a <= b
  PROVE  Inside(w, c[a], c[b])
<1> DEFINE k == b - a
           f == [i \in 0..k |-> c[a + i]]
<1>1. Len(c) \in Nat /\ k \in Nat /\ a + k = b /\ \A i \in 1..Len(c) : c[i] \in Nodes
  OBVIOUS
<1>2. \A i \in 0..k : a + i \in 1..Len(c)
  BY <1>1
<1>3. f \in [0..k -> Nodes]
  BY <1>1, <1>2
<1>4. ASSUME NEW i \in 0..(k - 1)
      PROVE  w[f[i]] = f[i + 1]
  <2>1. i \in 0..k /\ i + 1 \in 0..k /\ a + i \in 1..(Len(c) - 1) /\ a + (i + 1) = (a + i) + 1
    BY <1>1
  <2>2. f[i] = c[a + i] /\ f[i + 1] = c[(a + i) + 1]
    BY <2>1
  <2>3. QED
    BY <2>1, <2>2 DEF Rises
<1>5. 0 \in 0..k /\ k \in 0..k /\ a + 0 = a
  BY <1>1
<1>6. f[0] = c[a] /\ f[k] = c[b]
  BY <1>1, <1>5
<1> HIDE DEF f
<1>7. IsPath(w, f, k)
  BY <1>3, <1>4 DEF IsPath
<1>8. k \in 0..Count /\ c[a] \in Nodes
  BY <1>1, <1>7, PathsAreShort, CountIsNat
<1>9. QED
  BY <1>6, <1>7, <1>8, InsideByPath

LEMMA PathsFollow ==
  ASSUME NEW w, NEW c \in Seq(Nodes), c # <<>>, Rises(w, c), w[Final(c)] \notin Nodes,
         NEW a \in 1..Len(c), NEW k \in Nat, NEW g, IsPath(w, g, k), g[0] = c[a]
  PROVE  a + k \in 1..Len(c) /\ g[k] = c[a + k]
<1> DEFINE T == {i \in Nat : i <= k => a + i \in 1..Len(c) /\ g[i] = c[a + i]}
<1>0. Len(c) \in Nat
  OBVIOUS
<1>1. 0 \in T
  BY <1>0
<1>2. ASSUME NEW i \in Nat, i \in T
      PROVE  i + 1 \in T
  <2> SUFFICES ASSUME i + 1 <= k PROVE a + (i + 1) \in 1..Len(c) /\ g[i + 1] = c[a + (i + 1)]
    OBVIOUS
  <2>1. a + i \in 1..Len(c) /\ g[i] = c[a + i]
    BY <1>2
  <2>2. w[g[i]] = g[i + 1] /\ g[i + 1] \in Nodes
    BY DEF IsPath
  <2>3. a + i # Len(c)
    BY <2>1, <2>2 DEF Final
  <2>4. a + i \in 1..(Len(c) - 1) /\ a + (i + 1) = (a + i) + 1
    BY <1>0, <2>1, <2>3
  <2>5. w[c[a + i]] = c[(a + i) + 1]
    BY <2>4 DEF Rises
  <2>6. QED
    BY <1>0, <2>1, <2>2, <2>4, <2>5
<1> HIDE DEF T
<1>3. k \in T
  BY <1>1, <1>2, Induct
<1> USE DEF T
<1>4. QED
  BY <1>3

LEMMA ChainDiffers ==
  ASSUME NEW w, Grounded(w), NEW c \in Seq(Nodes), c # <<>>, Rises(w, c),
         NEW a \in 1..Len(c), NEW b \in 1..Len(c), a < b
  PROVE  c[a] # c[b]
<1> DEFINE f == [k \in 0..(Len(c) - 1) |-> c[k + 1]]
<1>1. Len(c) - 1 \in Nat /\ a - 1 \in 0..(Len(c) - 1) /\ b - 1 \in 0..(Len(c) - 1) /\ a - 1 < b - 1
      /\ (a - 1) + 1 = a /\ (b - 1) + 1 = b
  OBVIOUS
<1>2. f[a - 1] = c[a] /\ f[b - 1] = c[b]
  BY <1>1
<1>3. IsPath(w, f, Len(c) - 1)
  BY ChainIsPath
<1> HIDE DEF f
<1>4. f[a - 1] # f[b - 1]
  BY <1>1, <1>3, NoRepeat
<1>5. QED
  BY <1>2, <1>4

LEMMA ChainIsLineage ==
  ASSUME NEW w, Grounded(w), NEW c \in Seq(Nodes), c # <<>>, Rises(w, c), w[Final(c)] \notin Nodes
  PROVE  /\ {n \in Nodes : Inside(w, c[1], n)} = NodesOf(c)
         /\ \A a, b \in 1..Len(c) : Inside(w, c[a], c[b]) <=> a <= b
<1>1. Len(c) \in Nat /\ Len(c) >= 1 /\ DOMAIN c = 1..Len(c) /\ \A i \in 1..Len(c) : c[i] \in Nodes
  BY FinalIsNode
<1>2. ASSUME NEW a \in 1..Len(c), NEW n, Inside(w, c[a], n)
      PROVE  \E i \in 1..Len(c) : a <= i /\ n = c[i]
  <2> DEFINE x == c[a]
  <2>8. x \in Nodes
    BY <1>1
  <2> HIDE DEF x
  <2>9. Inside(w, x, n)
    BY <1>2 DEF x
  <2>0. PICK k \in 0..Count : \E g : IsPath(w, g, k) /\ g[0] = x /\ g[k] = n
    BY <2>8, <2>9, InsideByPath
  <2>1. PICK g : IsPath(w, g, k) /\ g[0] = c[a] /\ g[k] = n
    BY <2>0 DEF x
  <2>2. k \in Nat
    BY CountIsNat
  <2>3. a + k \in 1..Len(c) /\ n = c[a + k]
    BY <2>1, <2>2, PathsFollow
  <2>4. a <= a + k
    BY <2>2
  <2>5. QED
    BY <2>3, <2>4
<1>3. 1 \in 1..Len(c)
  BY <1>1
<1>4. ASSUME NEW n \in Nodes, Inside(w, c[1], n) PROVE n \in NodesOf(c)
  BY <1>1, <1>2, <1>3, <1>4 DEF NodesOf
<1>5. ASSUME NEW n \in NodesOf(c) PROVE n \in Nodes /\ Inside(w, c[1], n)
  <2>1. PICK i \in 1..Len(c) : n = c[i]
    BY <1>1 DEF NodesOf
  <2>2. 1 <= i
    BY <1>1
  <2>3. QED
    BY <1>1, <1>3, <2>1, <2>2, ChainGoesUp
<1>6. ASSUME NEW a \in 1..Len(c), NEW b \in 1..Len(c)
      PROVE  Inside(w, c[a], c[b]) <=> a <= b
  <2>1. ASSUME Inside(w, c[a], c[b]) PROVE a <= b
    <3>1. PICK i \in 1..Len(c) : a <= i /\ c[b] = c[i]
      BY <1>2, <2>1
    <3>2. ~(b < i)
      BY <3>1, ChainDiffers
    <3>3. QED
      BY <1>1, <3>1, <3>2
  <2>2. QED
    BY <2>1, ChainGoesUp
<1>7. QED
  BY <1>4, <1>5, <1>6

(* The first with a setting in a chain is the one that the others with a   *)
(* setting contain.                                                        *)
Set(on, S) == {n \in S : on[n] # "none"}
SetAt(on, L) == {i \in DOMAIN L : on[L[i]] # "none"}
Ordered(w, c, on, L, N) ==
  /\ c \in Seq(Nodes) /\ N \in Nat /\ Len(c) <= N /\ DOMAIN L = 1..N /\ N <= Len(c) + 1
  /\ \A i \in 1..Len(c) : L[i] = c[i]
  /\ \A a, b \in 1..Len(c) : Inside(w, c[a], c[b]) <=> a <= b
  /\ Set(on, NodesOf(c)) # {}
Agrees(w, c, on, L) ==
  /\ SetAt(on, L) # {}
  /\ L[CHOOSE i \in SetAt(on, L) : \A j \in SetAt(on, L) : i <= j]
       = CHOOSE n \in Set(on, NodesOf(c)) : \A m \in Set(on, NodesOf(c)) : Inside(w, n, m)
LEMMA NearestIsFirst ==
  ASSUME NEW w, NEW c, NEW on, NEW L, NEW N, Ordered(w, c, on, L, N)
  PROVE  Agrees(w, c, on, L)
<1> DEFINE set == Set(on, NodesOf(c))
           first == SetAt(on, L)
<1>0. /\ c \in Seq(Nodes) /\ N \in Nat /\ Len(c) <= N /\ DOMAIN L = 1..N /\ N <= Len(c) + 1
      /\ (\A i \in 1..Len(c) : L[i] = c[i])
      /\ (\A a, b \in 1..Len(c) : Inside(w, c[a], c[b]) <=> a <= b)
      /\ set = {n \in NodesOf(c) : on[n] # "none"} /\ first = {i \in DOMAIN L : on[L[i]] # "none"} /\ set # {}
  BY DEF Ordered, Set, SetAt
<1> HIDE DEF set, first
<1>1. Len(c) \in Nat /\ DOMAIN c = 1..Len(c)
  BY <1>0
<1>2. PICK a \in 1..Len(c) : on[c[a]] # "none"
  BY <1>0, <1>1 DEF NodesOf
<1>3. a \in first /\ first \in SUBSET Nat
  BY <1>0, <1>1, <1>2
<1>4. PICK j \in first : \A i \in first : j <= i
  BY <1>3, LeastOf
<1>5. \A i \in first : (\A k \in first : i <= k) => i = j
  BY <1>3, <1>4
<1>6. (CHOOSE i \in first : \A k \in first : i <= k) = j
  BY <1>4, <1>5
<1>7. j \in 1..Len(c) /\ L[j] = c[j] /\ on[c[j]] # "none"
  <2>1. j <= a /\ j \in 1..N
    BY <1>0, <1>3, <1>4
  <2>2. j \in 1..Len(c)
    BY <1>1, <2>1
  <2>3. QED
    BY <1>0, <1>4, <2>2
<1>8. c[j] \in set /\ \A m \in set : Inside(w, c[j], m)
  <2>1. c[j] \in set
    BY <1>0, <1>1, <1>7 DEF NodesOf
  <2>2. ASSUME NEW m \in set PROVE Inside(w, c[j], m)
    <3>1. PICK i \in 1..Len(c) : m = c[i] /\ on[c[i]] # "none"
      BY <1>0, <1>1, <2>2 DEF NodesOf
    <3>2. i \in first
      BY <1>0, <1>1, <3>1
    <3>3. QED
      BY <1>0, <1>4, <1>7, <3>1, <3>2
  <2>3. QED
    BY <2>1, <2>2
<1>9. ASSUME NEW n \in set, \A m \in set : Inside(w, n, m)
      PROVE  n = c[j]
  <2>1. PICK i \in 1..Len(c) : n = c[i] /\ on[c[i]] # "none"
    BY <1>0, <1>1, <1>9 DEF NodesOf
  <2>2. i \in first
    BY <1>0, <1>1, <2>1
  <2>3. Inside(w, c[i], c[j])
    BY <1>8, <1>9, <2>1
  <2>4. i <= j /\ j <= i
    BY <1>0, <1>4, <1>7, <2>1, <2>2, <2>3
  <2>5. i = j
    BY <1>7, <2>4
  <2>6. QED
    BY <2>1, <2>5
<1>10. (CHOOSE n \in set : \A m \in set : Inside(w, n, m)) = c[j]
  BY <1>8, <1>9
<1>11. QED
  BY <1>3, <1>6, <1>7, <1>10 DEF Agrees, set, first
------------------------------------------------------------------------------
(* What a request that is done decides, against what the places say.       *)
SettledWalk(q, w) ==
  /\ q \in WalkRecord /\ w \in [Nodes -> Place] /\ Grounded(w)
  /\ q.chain # <<>> /\ Len(q.chain) <= MAX_LINEAGE_HOPS + 1 /\ Cardinality(NodesOf(q.chain)) = Len(q.chain)
  /\ Rises(w, q.chain) /\ Closed(w[Final(q.chain)], Len(q.chain), q.end) /\ q.end # "lineage_unavailable"

LEMMA LastOrBefore == \A m \in Nat : \A j \in 1..m : j \in 1..(m - 1) \/ j = m
<1> SUFFICES ASSUME NEW m \in Nat, NEW j \in 1..m, j # m PROVE j \in 1..(m - 1)
  OBVIOUS
<1>1. j \in Nat /\ 1 <= j /\ j <= m - 1
  OBVIOUS
<1>2. QED
  BY <1>1

LEMMA SettledChain ==
  ASSUME NEW q, NEW w, SettledWalk(q, w)
  PROVE  /\ q.chain \in Seq(Nodes) /\ q.chain # <<>> /\ Len(q.chain) \in Nat /\ Len(q.chain) >= 1
         /\ DOMAIN q.chain = 1..Len(q.chain) /\ \A i \in 1..Len(q.chain) : q.chain[i] \in Nodes
         /\ Rises(w, q.chain) /\ Grounded(w) /\ w \in [Nodes -> Place]
         /\ Len(q.chain) = 1 => w[q.chain[1]] = w[Final(q.chain)]
         /\ Len(q.chain) > 1 => w[q.chain[1]] \in Nodes
         /\ MAX_LINEAGE_HOPS \in Nat /\ IsFiniteSet(Nodes)
<1> DEFINE c == q.chain
<1>1. /\ c \in Seq(Nodes) /\ c # <<>> /\ Rises(w, c) /\ Grounded(w) /\ w \in [Nodes -> Place]
      /\ MAX_LINEAGE_HOPS \in Nat /\ IsFiniteSet(Nodes)
  BY Forest, BoundIs DEF SettledWalk, WalkRecord
<1> HIDE DEF c
<1>2. Len(c) \in Nat /\ Len(c) >= 1 /\ DOMAIN c = 1..Len(c) /\ \A i \in 1..Len(c) : c[i] \in Nodes
  BY <1>1
<1>3. Len(c) = 1 => w[c[1]] = w[Final(c)]
  BY DEF Final
<1>4. ASSUME Len(c) > 1 PROVE w[c[1]] \in Nodes
  <2>1. 1 \in 1..(Len(c) - 1) /\ 1 + 1 \in 1..Len(c)
    BY <1>2, <1>4
  <2>2. w[c[1]] = c[1 + 1]
    BY <1>1, <2>1 DEF Rises
  <2>3. QED
    BY <1>2, <2>1, <2>2
<1>5. QED
  BY <1>1, <1>2, <1>3, <1>4 DEF c

(* It has one node too many.                                               *)
LEMMA TooDeepIsSeen ==
  ASSUME NEW q, NEW w, SettledWalk(q, w), q.end = "lineage_too_deep"
  PROVE  w[q.chain[1]] # "gone" /\ Cardinality({n \in Nodes : Inside(w, q.chain[1], n)}) > MAX_LINEAGE_HOPS + 1
<1> DEFINE c == q.chain
           p == w[Final(c)]
           d == Append(c, p)
           in == {n \in Nodes : Inside(w, c[1], n)}
<1>1. /\ c \in Seq(Nodes) /\ c # <<>> /\ Len(c) \in Nat /\ Len(c) >= 1 /\ Rises(w, c) /\ Grounded(w)
      /\ w \in [Nodes -> Place] /\ MAX_LINEAGE_HOPS \in Nat /\ IsFiniteSet(Nodes)
      /\ (Len(c) = 1 => w[c[1]] = p) /\ (Len(c) > 1 => w[c[1]] \in Nodes)
      /\ Cardinality(NodesOf(c)) = Len(c)
  BY SettledChain DEF SettledWalk
<1>2. p \in Nodes /\ Len(c) = MAX_LINEAGE_HOPS + 1
  BY DEF SettledWalk, Closed, SharedWithMe, SharedDrives
<1> HIDE DEF c, p
<1>3. p = w[Final(c)]
  BY DEF p
<1>4. Cardinality(NodesOf(d)) = Len(c) + 1 /\ Rises(w, d)
  BY <1>1, <1>2, <1>3, OneHopOK
<1>5. d \in Seq(Nodes) /\ d # <<>> /\ Len(d) = Len(c) + 1 /\ d[1] = c[1]
  <2>1. 1 \in 1..Len(c)
    BY <1>1
  <2>2. QED
    BY <1>1, <1>2, <2>1, OneHop
<1> HIDE DEF d
<1>6. NodesOf(d) \subseteq in
  <2> SUFFICES ASSUME NEW i \in DOMAIN d PROVE d[i] \in in
    BY DEF NodesOf
  <2>1. i \in 1..Len(d) /\ 1 \in 1..Len(d) /\ 1 <= i /\ d[i] \in Nodes
    BY <1>1, <1>5
  <2>2. Inside(w, d[1], d[i])
    BY <1>1, <1>4, <1>5, <2>1, ChainGoesUp
  <2>3. QED
    BY <1>5, <2>1, <2>2
<1>7. IsFiniteSet(in)
  BY <1>1, FS_Subset
<1> HIDE DEF in
<1>8. Cardinality(NodesOf(d)) <= Cardinality(in) /\ Cardinality(in) \in Nat
  BY <1>6, <1>7, FS_Subset, FS_CardinalityType
<1>9. Cardinality(in) > MAX_LINEAGE_HOPS + 1
  BY <1>1, <1>2, <1>4, <1>8
<1>10. w[c[1]] \in Nodes
  <2>1. Len(c) = 1 \/ Len(c) > 1
    BY <1>1
  <2>2. QED
    BY <1>1, <1>2, <2>1
<1>11. w[c[1]] # "gone"
  BY <1>10, Forest DEF Tops
<1>12. QED
  BY <1>9, <1>11 DEF in, c

(* Its chain leads out: it is the whole lineage.                           *)
LEMMA OutIsSeen ==
  ASSUME NEW q, NEW w, SettledWalk(q, w), q.end # "lineage_too_deep", q.end # "file_not_found"
  PROVE  /\ w[q.chain[1]] # "gone" /\ w[Final(q.chain)] \in Tops /\ w[Final(q.chain)] \notin Nodes
         /\ {n \in Nodes : Inside(w, q.chain[1], n)} = NodesOf(q.chain)
         /\ ~(Cardinality(NodesOf(q.chain)) > MAX_LINEAGE_HOPS + 1)
         /\ (CHOOSE n \in NodesOf(q.chain) : w[n] \in Tops) = Final(q.chain)
         /\ \A a, b \in 1..Len(q.chain) : Inside(w, q.chain[a], q.chain[b]) <=> a <= b
<1> DEFINE c == q.chain
           p == w[Final(c)]
<1>1. /\ c \in Seq(Nodes) /\ c # <<>> /\ Len(c) \in Nat /\ Len(c) >= 1 /\ Rises(w, c) /\ Grounded(w)
      /\ w \in [Nodes -> Place] /\ MAX_LINEAGE_HOPS \in Nat /\ DOMAIN c = 1..Len(c)
      /\ (Len(c) = 1 => w[c[1]] = p) /\ (Len(c) > 1 => w[c[1]] \in Nodes)
      /\ (\A i \in 1..Len(c) : c[i] \in Nodes)
      /\ Cardinality(NodesOf(c)) = Len(c) /\ Len(c) <= MAX_LINEAGE_HOPS + 1
  BY SettledChain DEF SettledWalk
<1>2. p \in Tops /\ (p = "gone" => Len(c) > 1)
  BY DEF SettledWalk, Closed, Tops
<1>3. p \notin Nodes /\ \A n \in Nodes : n # "gone" /\ n \notin Tops
  BY <1>2, Forest DEF Tops
<1> HIDE DEF c, p
<1>4. w[c[1]] # "gone"
  <2>1. Len(c) = 1 \/ Len(c) > 1
    BY <1>1
  <2>2. QED
    BY <1>1, <1>2, <1>3, <2>1
<1>5. /\ {n \in Nodes : Inside(w, c[1], n)} = NodesOf(c)
      /\ \A a, b \in 1..Len(c) : Inside(w, c[a], c[b]) <=> a <= b
  <2>1. w[Final(c)] \notin Nodes
    BY <1>3 DEF p
  <2>2. QED
    BY <1>1, <2>1, ChainIsLineage
<1>6. Final(c) \in NodesOf(c)
  BY <1>1 DEF Final, NodesOf
<1>7. ASSUME NEW n \in NodesOf(c), w[n] \in Tops
      PROVE  n = Final(c)
  <2>1. PICK i \in 1..Len(c) : n = c[i]
    BY <1>1 DEF NodesOf
  <2>2. ~(i \in 1..(Len(c) - 1))
    <3> SUFFICES ASSUME i \in 1..(Len(c) - 1) PROVE FALSE
      OBVIOUS
    <3>1. w[n] = c[i + 1] /\ i + 1 \in 1..Len(c)
      BY <1>1, <2>1 DEF Rises
    <3>2. QED
      BY <1>1, <1>3, <1>7, <3>1
  <2>3. i = Len(c)
    <3>1. Len(c) \in Nat
      BY <1>1
    <3>2. QED
      BY <2>2, <3>1, LastOrBefore, Zenon
  <2>4. QED
    BY <2>1, <2>3 DEF Final
<1>8. (CHOOSE n \in NodesOf(c) : w[n] \in Tops) = Final(c)
  BY <1>2, <1>6, <1>7 DEF p
<1>9. QED
  BY <1>1, <1>2, <1>3, <1>4, <1>5, <1>8 DEF c, p

LEMMA DecidesByPlaces ==
  ASSUME NEW q, NEW u \in Users, SettledWalk(q, place[u]), NEW s
  PROVE  Decision(q, s) = TrueDecision(u, q.chain[1], s)
<1> DEFINE w == place[u]
           c == q.chain
           f == c[1]
           in == {n \in Nodes : Inside(w, f, n)}
           top == CHOOSE n \in in : w[n] \in Tops
           beyond == IF w[top] = "drive" THEN SharedDrives
                     ELSE IF w[top] \in {"shared", "gone"} THEN SharedWithMe ELSE "nothing"
           set == {n \in in : s.on[n] # "none"}
           nearest == CHOOSE n \in set : \A m \in set : Inside(w, n, m)
           decided == IF set # {} THEN s.on[nearest]
                      ELSE IF beyond # "nothing" /\ s.on[beyond] # "none" THEN s.on[beyond] ELSE s.default
<1>1. TrueDecision(u, f, s) = CASE w[f] = "gone" -> "file_not_found"
                                [] w[f] # "gone" /\ Cardinality(in) > MAX_LINEAGE_HOPS + 1 -> "lineage_too_deep"
                                [] OTHER -> decided
  BY DEF TrueDecision
<1> HIDE DEF decided
<1>2. CASE q.end = "file_not_found"
  <2>1. w[Final(c)] = "gone" /\ Len(c) = 1
    BY <1>2 DEF SettledWalk, Closed, SharedWithMe, SharedDrives
  <2>2. w[f] = "gone"
    BY <2>1, SettledChain
  <2>3. Decision(q, s) = "file_not_found"
    BY <1>2 DEF Decision
  <2> HIDE DEF w, f, in
  <2>4. TrueDecision(u, f, s) = "file_not_found"
    BY <1>1, <2>2
  <2>5. QED
    BY <2>3, <2>4 DEF f
<1>3. CASE q.end = "lineage_too_deep"
  <2>1. w[f] # "gone" /\ Cardinality(in) > MAX_LINEAGE_HOPS + 1
    BY <1>3, TooDeepIsSeen
  <2>2. Decision(q, s) = "lineage_too_deep"
    BY <1>3 DEF Decision
  <2> HIDE DEF w, f, in
  <2>3. TrueDecision(u, f, s) = "lineage_too_deep"
    BY <1>1, <2>1
  <2>4. QED
    BY <2>2, <2>3 DEF f
<1>4. CASE q.end # "file_not_found" /\ q.end # "lineage_too_deep"
  <2> DEFINE L == Lineage(q)
             first == {i \in DOMAIN L : s.on[L[i]] # "none"}
             N == Len(L)
  <2>1. /\ c \in Seq(Nodes) /\ c # <<>> /\ Len(c) \in Nat /\ Len(c) >= 1 /\ DOMAIN c = 1..Len(c)
    BY SettledChain
  <2>2. /\ w[f] # "gone" /\ in = NodesOf(c) /\ ~(Cardinality(NodesOf(c)) > MAX_LINEAGE_HOPS + 1)
        /\ (CHOOSE n \in NodesOf(c) : w[n] \in Tops) = Final(c)
        /\ \A a, b \in 1..Len(c) : Inside(w, c[a], c[b]) <=> a <= b
    BY <1>4, OutIsSeen
  <2>3. TrueDecision(u, f, s) = decided
    <3> HIDE DEF w, f, in
    <3>1. QED
      BY <1>1, <2>2
  <2>4. Decision(q, s) = IF first = {} THEN s.default ELSE s.on[L[CHOOSE i \in first : \A j \in first : i <= j]]
    BY <1>4 DEF Decision, Effective, SettledWalk
  <2>5. top = Final(c)
    BY <2>2
  <2>6. /\ q.end \in {SharedWithMe, SharedDrives} => beyond = q.end
        /\ q.end \notin {SharedWithMe, SharedDrives} => beyond = "nothing"
    <3>1. Closed(w[Final(c)], Len(c), q.end) /\ q.end # "lineage_unavailable"
      BY DEF SettledWalk
    <3>2. beyond = IF w[Final(c)] = "drive" THEN SharedDrives
                   ELSE IF w[Final(c)] \in {"shared", "gone"} THEN SharedWithMe ELSE "nothing"
      BY <2>5
    <3> HIDE DEF beyond, w, c
    <3>3. QED
      BY <1>4, <3>1, <3>2 DEF Closed, SharedWithMe, SharedDrives
  <2>7. set = {n \in NodesOf(c) : s.on[n] # "none"}
    BY <2>2
  <2>8. /\ N \in Nat /\ Len(c) <= N /\ DOMAIN L = 1..N /\ (\A i \in 1..Len(c) : L[i] = c[i]) /\ N <= Len(c) + 1
        /\ q.end \in {SharedWithMe, SharedDrives} => N = Len(c) + 1 /\ L[N] = q.end
        /\ q.end \notin {SharedWithMe, SharedDrives} => N = Len(c)
    <3>1. CASE q.end \in {SharedWithMe, SharedDrives}
      <4>1. L = Append(c, q.end)
        BY <3>1 DEF Lineage
      <4>2. c \in Seq(Nodes \cup {q.end}) /\ q.end \in Nodes \cup {q.end}
        BY <2>1
      <4> HIDE DEF L, c
      <4>3. /\ Len(L) = Len(c) + 1 /\ L[Len(c) + 1] = q.end /\ L \in Seq(Nodes \cup {q.end})
            /\ \A i \in 1..Len(c) : L[i] = c[i]
        BY <2>1, <4>1, <4>2
      <4>4. DOMAIN L = 1..Len(L)
        BY <4>3
      <4>5. N = Len(c) + 1
        BY <4>3
      <4> HIDE DEF N
      <4>6. N \in Nat /\ Len(c) <= N /\ N <= Len(c) + 1
        BY <2>1, <4>5
      <4>7. DOMAIN L = 1..N
        BY <4>4 DEF N
      <4>8. QED
        BY <3>1, <4>3, <4>5, <4>6, <4>7
    <3>2. CASE q.end \notin {SharedWithMe, SharedDrives}
      BY <2>1, <3>2 DEF Lineage
    <3>3. QED
      BY <3>1, <3>2
  <2> HIDE DEF L, N, beyond, c, w, top, set
  <2>9. CASE set # {}
    <3>1. first = SetAt(s.on, L) /\ set = Set(s.on, NodesOf(c))
      BY <2>7 DEF SetAt, Set
    <3>2. Ordered(w, c, s.on, L, N)
      BY <2>1, <2>2, <2>8, <2>9, <3>1 DEF Ordered
    <3>3. Agrees(w, c, s.on, L)
      BY <3>2, NearestIsFirst
    <3> HIDE DEF first
    <3>4. first # {} /\ L[CHOOSE i \in first : \A j \in first : i <= j] = nearest
      BY <3>1, <3>3 DEF Agrees
    <3>5. decided = s.on[nearest]
      BY <2>9 DEF decided
    <3> HIDE DEF nearest
    <3>6. QED
      BY <2>3, <2>4, <3>4, <3>5 DEF f, c
  <2>10. CASE set = {}
    <3>1. \A i \in 1..Len(c) : ~(s.on[L[i]] # "none")
      <4> SUFFICES ASSUME NEW i \in 1..Len(c), s.on[L[i]] # "none" PROVE FALSE
        OBVIOUS
      <4>1. L[i] = c[i] /\ c[i] \in NodesOf(c)
        BY <2>1, <2>8 DEF NodesOf
      <4>2. QED
        BY <2>7, <2>10, <4>1
    <3>2. CASE q.end \in {SharedWithMe, SharedDrives}
      <4>1. beyond = q.end /\ beyond # "nothing" /\ N = Len(c) + 1 /\ L[N] = beyond
        BY <2>6, <2>8, <3>2 DEF SharedWithMe, SharedDrives
      <4>0. \A m \in Nat, k \in Nat : m = k + 1 => m \in 1..m /\ \A i \in 1..m : i = m \/ i \in 1..k
        OBVIOUS
      <4>7. N \in Nat /\ Len(c) \in Nat /\ DOMAIN L = 1..N
        BY <2>1, <2>8
      <4>2. \A i \in DOMAIN L : i = N \/ i \in 1..Len(c)
        BY <4>0, <4>1, <4>7, Zenon
      <4>3. N \in DOMAIN L
        BY <4>0, <4>1, <4>7, Zenon
      <4>4. CASE s.on[beyond] # "none"
        <5>1. first = {N}
          BY <3>1, <4>1, <4>2, <4>3, <4>4
        <5>2. (CHOOSE i \in first : \A j \in first : i <= j) = N
          BY <5>1, <2>8
        <5>3. decided = s.on[beyond]
          BY <2>10, <4>1, <4>4 DEF decided
        <5> HIDE DEF first
        <5>4. QED
          BY <2>3, <2>4, <4>1, <5>1, <5>2, <5>3 DEF f, c
      <4>5. CASE ~(s.on[beyond] # "none")
        <5>1. first = {}
          BY <3>1, <4>1, <4>2, <4>5
        <5>2. decided = s.default
          BY <2>10, <4>5 DEF decided
        <5> HIDE DEF first
        <5>3. QED
          BY <2>3, <2>4, <5>1, <5>2 DEF f, c
      <4>6. QED
        BY <4>4, <4>5
    <3>3. CASE q.end \notin {SharedWithMe, SharedDrives}
      <4>1. beyond = "nothing" /\ DOMAIN L = 1..Len(c)
        BY <2>6, <2>8, <3>3
      <4>2. first = {}
        BY <3>1, <4>1
      <4>3. decided = s.default
        BY <2>10, <4>1 DEF decided
      <4> HIDE DEF first
      <4>4. QED
        BY <2>3, <2>4, <4>2, <4>3 DEF f, c
    <3>4. QED
      BY <3>2, <3>3
  <2>11. QED
    BY <2>9, <2>10
<1>5. QED
  BY <1>2, <1>3, <1>4

(* Once nothing has moved in a user's sight for as long as an entry of the *)
(* cache is used and a request may last, every decision of a request of    *)
(* this user is that of the settings on what the file is in, whatever the  *)
(* cache holds, however the requests interleave and wherever the moves     *)
(* before it led (resolveDriveLineage and effectiveDriveAccess): "a moved  *)
(* file is seen within that bound" (driveLineage.ts:16).                   *)
THEOREM SettledDecidesByPlaces == LineageSpec => []SettledIsSeen
<1>1. ASSUME LineageInv PROVE SettledIsSeen
  <2> SUFFICES ASSUME NEW w \in Walkers, walk[w].stage = "done", walk[w].end # "lineage_unavailable",
                      walk[w].settled, NEW s \in Settings
               PROVE  Decision(walk[w], s) = TrueDecision(walk[w].user, walk[w].chain[1], s)
    BY DEF SettledIsSeen, WalkAt
  <2>1. walk[w].user \in Users /\ SettledWalk(walk[w], place[walk[w].user])
    BY <1>1, OneWalk DEF WalkOK, ChainOK, SettledWalk
  <2>2. QED
    BY <2>1, DecidesByPlaces
<1>2. QED
  BY <1>1, LineageHolds, PTL
==============================================================================
