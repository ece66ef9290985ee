------------------------- MODULE JsonSerializerProofs -------------------------
(***************************************************************************)
(* Theorems about the files of a JsonSerializer, for any jobs, any number  *)
(* of starts and of failures, and every fault at every step.               *)
(***************************************************************************)
EXTENDS JsonSerializer, TLAPS, FiniteSetTheorems, SequenceTheorems, WellFoundedInduction

-----------------------------------------------------------------------------
(* Contents and logs                                                       *)

LEMMA ContentMeaning ==
  ASSUME NEW f
  PROVE  f \in Content <=> DOMAIN f \subseteq Ids /\ f \in [DOMAIN f -> Version]
<1>1. ASSUME f \in Content PROVE DOMAIN f \subseteq Ids /\ f \in [DOMAIN f -> Version]
  <2>1. PICK S \in SUBSET Ids : f \in [S -> Version]
    BY <1>1 DEF Content
  <2> QED  BY <2>1
<1>2. ASSUME DOMAIN f \subseteq Ids, f \in [DOMAIN f -> Version] PROVE f \in Content
  BY <1>2 DEF Content
<1> QED  BY <1>1, <1>2

LEMMA PutContent ==
  ASSUME NEW f \in Content, NEW id \in Ids, NEW v \in Version
  PROVE  Put(f, id, v) \in Content
<1>1. DOMAIN f \subseteq Ids /\ f \in [DOMAIN f -> Version]
  BY ContentMeaning
<1>2. DOMAIN Put(f, id, v) = DOMAIN f \cup {id}
  BY DEF Put
<1>3. Put(f, id, v) \in [DOMAIN f \cup {id} -> Version]
  BY <1>1 DEF Put
<1> QED  BY <1>1, <1>2, <1>3, ContentMeaning

LEMMA OverlayContent ==
  ASSUME NEW f \in Content, NEW g \in Content
  PROVE  Overlay(f, g) \in Content
<1>1. /\ DOMAIN f \subseteq Ids /\ f \in [DOMAIN f -> Version]
      /\ DOMAIN g \subseteq Ids /\ g \in [DOMAIN g -> Version]
  BY ContentMeaning
<1>2. DOMAIN Overlay(f, g) = DOMAIN f \cup DOMAIN g
  BY DEF Overlay
<1>3. Overlay(f, g) \in [DOMAIN f \cup DOMAIN g -> Version]
  BY <1>1 DEF Overlay
<1> QED  BY <1>1, <1>2, <1>3, ContentMeaning

LEMMA NoJobsContent == NoJobs \in Content /\ DOMAIN NoJobs = {}
<1>1. DOMAIN NoJobs = {} /\ NoJobs \in [{} -> Version]
  BY DEF NoJobs
<1> QED  BY <1>1, ContentMeaning

(* An empty file is a file.                                                *)
LEMMA EmptyIsThere == <<>> # NoFile
BY EmptySeq, StoreAssumption

LEMMA OverlayNothing ==
  ASSUME NEW f, DOMAIN f = {}, NEW g \in Content
  PROVE  Overlay(f, g) = g
<1>1. g = [x \in DOMAIN g |-> g[x]]
  BY ContentMeaning
<1>2. Overlay(f, g) = [x \in DOMAIN g |-> g[x]]
  BY DEF Overlay
<1> QED  BY <1>1, <1>2

(* An intact line is a record.                                             *)
LEMMA IntactLines ==
  ASSUME NEW log \in Seq(Line)
  PROVE  /\ Intact(log) \subseteq 1 .. Len(log) /\ Len(log) \in Nat
         /\ \A i \in Intact(log) : log[i] \in Record /\ log[i].id \in Ids /\ log[i].v \in Version
<1>1. Intact(log) \subseteq 1 .. Len(log) /\ Len(log) \in Nat
  BY LenProperties DEF Intact
<1>2. ASSUME NEW i \in Intact(log) PROVE log[i] \in Record
  <2>1. log[i] \in Line
    BY <1>1, <1>2, ElementOfSeq
  <2> QED  BY <1>2, <2>1 DEF Intact, Line
<1>3. \A r \in Record : r.id \in Ids /\ r.v \in Version
  BY DEF Record
<1> QED  BY <1>1, <1>2, <1>3

LEMMA LastRecordMeaning ==
  ASSUME NEW log \in Seq(Line), NEW id \in Recorded(log)
  PROVE  /\ LastRecord(log, id) \in Records(log, id)
         /\ \A j \in Records(log, id) : j <= LastRecord(log, id)
<1> DEFINE T == {Len(log) - i : i \in Records(log, id)}
<1>1. Records(log, id) \subseteq 1 .. Len(log) /\ Len(log) \in Nat
  BY IntactLines DEF Records
<1>2. Records(log, id) # {}
  BY DEF Recorded, Records
<1>3. T \in SUBSET Nat /\ T # {}
  BY <1>1, <1>2
<1>4. PICK n \in T : \A m \in T : n <= m
  <2> DEFINE R == OpToRel(<, Nat)
  <2>1. IsWellFoundedOn(R, Nat)
    BY NatLessThanWellFounded
  <2>2. \A m, n \in Nat : m < n => <<m, n>> \in R
    BY DEF OpToRel
  <2> HIDE DEF R, T
  <2>3. PICK n \in T : \A m \in T : <<m, n>> \notin R
    BY <1>3, <2>1, WFMin
  <2>4. \A m \in T : n \in Nat /\ m \in Nat /\ ~(m < n)
    BY <1>3, <2>2, <2>3
  <2> QED  BY <2>3, <2>4
<1>5. PICK i \in Records(log, id) : n = Len(log) - i
  BY <1>4
<1>6. \A j \in Records(log, id) : j <= i
  <2> TAKE j \in Records(log, id)
  <2>1. Len(log) - j \in T
    OBVIOUS
  <2>2. Len(log) - i <= Len(log) - j
    BY <1>4, <1>5, <2>1
  <2> QED  BY <1>1, <2>2
<1> QED  BY <1>5, <1>6 DEF LastRecord

LEMMA SaidType ==
  ASSUME NEW log \in Seq(Line)
  PROVE  Said(log) \in Content /\ DOMAIN Said(log) = Recorded(log)
<1>1. DOMAIN Said(log) = Recorded(log)
  BY DEF Said
<1>2. Recorded(log) \subseteq Ids
  BY IntactLines DEF Recorded
<1>3. \A id \in Recorded(log) : log[LastRecord(log, id)].v \in Version
  BY LastRecordMeaning, IntactLines DEF Records
<1>4. Said(log) \in [Recorded(log) -> Version]
  BY <1>3 DEF Said
<1> QED  BY <1>1, <1>2, <1>4, ContentMeaning

LEMMA SaidNothing == Recorded(<<>>) = {} /\ DOMAIN Said(<<>>) = {}
BY DEF Recorded, Intact, Said

(* Playing a record that follows a log.                                    *)
LEMMA SaidRecord ==
  ASSUME NEW log \in Seq(Line), NEW r \in Record
  PROVE  Said(Append(log, r)) = Put(Said(log), r.id, r.v)
<1> DEFINE new == Append(log, r)
           n == Len(log) + 1
<1>1. /\ new \in Seq(Line) /\ Len(new) = n /\ new[n] = r /\ Len(log) \in Nat
      /\ \A i \in 1 .. Len(log) : new[i] = log[i]
  BY AppendProperties, LenProperties DEF Line
<1>2. DOMAIN new = 1 .. n /\ DOMAIN log = 1 .. Len(log)
  BY <1>1, LenProperties
<1>3. r # Torn
  BY StoreAssumption
<1> HIDE DEF new
<1>4. Intact(new) = Intact(log) \cup {n}
  BY <1>1, <1>2, <1>3 DEF Intact
<1>5. \A i \in Intact(log) : i \in 1 .. Len(log) /\ new[i] = log[i]
  BY <1>1, IntactLines
<1>6. Recorded(new) = Recorded(log) \cup {r.id}
  BY <1>1, <1>4, <1>5 DEF Recorded
<1>7. Records(new, r.id) = Records(log, r.id) \cup {n}
  BY <1>1, <1>4, <1>5 DEF Records
<1>8. \A id : id # r.id => Records(new, id) = Records(log, id)
  BY <1>1, <1>4, <1>5 DEF Records
<1>9. LastRecord(new, r.id) = n
  <2>1. n \in Records(new, r.id) /\ LastRecord(new, r.id) \in Records(new, r.id)
        /\ n <= LastRecord(new, r.id)
    BY <1>1, <1>6, <1>7, LastRecordMeaning
  <2>2. Records(new, r.id) \subseteq 1 .. n
    BY <1>1, IntactLines DEF Records
  <2> QED  BY <1>1, <2>1, <2>2
<1>10. ASSUME NEW id \in Recorded(log), id # r.id
       PROVE  new[LastRecord(new, id)] = log[LastRecord(log, id)]
  <2>1. LastRecord(new, id) = LastRecord(log, id)
    BY <1>8, <1>10 DEF LastRecord
  <2>2. LastRecord(log, id) \in Intact(log)
    BY LastRecordMeaning DEF Records
  <2> QED  BY <1>5, <2>1, <2>2
<1>11. DOMAIN Said(log) = Recorded(log) /\ \A id \in Recorded(log) : Said(log)[id] = log[LastRecord(log, id)].v
  BY DEF Said
<1>12. ASSUME NEW id \in Recorded(new)
       PROVE  new[LastRecord(new, id)].v = IF id = r.id THEN r.v ELSE Said(log)[id]
  BY <1>1, <1>6, <1>9, <1>10, <1>11, <1>12
<1>13. Said(new) = [id \in Recorded(log) \cup {r.id} |-> IF id = r.id THEN r.v ELSE Said(log)[id]]
  BY <1>6, <1>12 DEF Said
<1> QED  BY <1>11, <1>13 DEF Put, new

(* A torn line after it says nothing.                                      *)
LEMMA SaidTorn ==
  ASSUME NEW log \in Seq(Line)
  PROVE  Said(Append(log, Torn)) = Said(log)
<1> DEFINE new == Append(log, Torn)
<1>1. /\ new \in Seq(Line) /\ Len(new) = Len(log) + 1 /\ new[Len(log) + 1] = Torn /\ Len(log) \in Nat
      /\ \A i \in 1 .. Len(log) : new[i] = log[i]
  BY AppendProperties, LenProperties DEF Line
<1>2. DOMAIN new = 1 .. Len(log) + 1 /\ DOMAIN log = 1 .. Len(log)
  BY <1>1, LenProperties
<1> HIDE DEF new
<1>3. Intact(new) = Intact(log)
  BY <1>1, <1>2 DEF Intact
<1>4. \A i \in Intact(log) : new[i] = log[i]
  BY <1>1, IntactLines
<1>5. Recorded(new) = Recorded(log)
  BY <1>3, <1>4 DEF Recorded
<1>6. \A id : Records(new, id) = Records(log, id)
  BY <1>3, <1>4 DEF Records
<1>7. \A id \in Recorded(log) : new[LastRecord(new, id)] = log[LastRecord(log, id)]
  <2> TAKE id \in Recorded(log)
  <2>1. LastRecord(new, id) = LastRecord(log, id)
    BY <1>6 DEF LastRecord
  <2>2. LastRecord(log, id) \in Intact(log)
    BY LastRecordMeaning DEF Records
  <2> QED  BY <1>4, <2>1, <2>2
<1>8. Said(new) = [id \in Recorded(log) |-> log[LastRecord(log, id)].v]
  BY <1>5, <1>7 DEF Said
<1> QED  BY <1>8 DEF Said, new

-----------------------------------------------------------------------------
(* The goroutines and their types                                          *)

(* What each goroutine may be doing at the same time as the others.        *)
Modes ==
  /\ phase \in {"down", "load"} => /\ mu = "free" /\ loop = "off" /\ closer = "no"
                                    /\ ~appendFile
  /\ (phase = "materialize") <=> (mu = "open")
  /\ mu = "open" => loop = "off" /\ closer = "no"
  /\ at # "off" => ~appendFile
  /\ (client = "off") <=> (phase # "up")
  /\ reader # "off" => phase = "load" \/ client = "reload"
  /\ (client = "checkpoint") <=> (mu = "sync")
  /\ (closer = "sync") <=> (mu = "close")

(* The completion in the client's hands.                                   *)
InHand ==
  /\ client \in {"update", "kick", "checkpoint", "reload"} => k = 0
  /\ client = "kick" => Len(batch) = 1
  /\ mu = "update" => /\ appendFile /\ active # <<>>
                      /\ active[Len(active)] = batch[k + 1]

(* There is one segment at most, and none when a new one is begun.         *)
OneLog ==
  /\ \A m, n \in DOMAIN sealed : m = n
  /\ active # NoFile => DOMAIN sealed = {}
  /\ at = "reopen" => active = NoFile /\ DOMAIN sealed = {}

(* The append file is closed while nobody holds its mutex only after a     *)
(* checkpoint has failed, or Close has been through.                       *)
Failed ==
  /\ failures \in Nat
  /\ refused => failures > 0
  /\ phase = "up" /\ mu \in {"free", "update"} /\ ~appendFile =>
       failures > 0 \/ closer = "closed"

Control == TypeOK /\ Modes /\ InHand /\ OneLog /\ Failed

LEMMA ControlInit == Init => Control
<1> SUFFICES ASSUME Init PROVE Control
  OBVIOUS
<1>1. NoJobs \in Content /\ json \in Content \cup {NoFile, Torn}
  BY NoJobsContent, StoreAssumption DEF Init
<1>2. <<>> \in Seq(Record) /\ <<>> \in Seq(Nat)
  BY EmptySeq
<1> QED  BY <1>1, <1>2 DEF Init, Control, TypeOK, Modes, InHand, OneLog, Failed

(* The process ends, in whatever way.                                      *)
LEMMA EndsControl ==
  ASSUME Control, ProcessEnds, UNCHANGED <<json, sealed, acked, k>>,
         tmp' \in Content \cup {NoFile, Torn},
         active' = active \/ (active # NoFile /\ active' \in Seq(Line)),
         failures' \in Nat, refused' \in BOOLEAN, refused' => failures' > 0
  PROVE  Control'
<1>1. NoJobs \in Content /\ <<>> \in Seq(Nat)
  BY NoJobsContent, EmptySeq
<1>2. TypeOK'
  BY <1>1 DEF Control, TypeOK, ProcessEnds
<1>3. Modes' /\ InHand'
  BY DEF ProcessEnds, Modes, InHand
<1>4. OneLog' /\ Failed'
  BY DEF Control, OneLog, Failed, ProcessEnds
<1> QED  BY <1>2, <1>3, <1>4 DEF Control

(* What is in the client's hands is a record.                              *)
LEMMA BatchRecord ==
  ASSUME Control, client \in {"kick", "persist", "sync"}
  PROVE  /\ k + 1 \in 1 .. Len(batch) /\ Len(batch) \in Nat /\ k \in Nat
         /\ batch[k + 1] \in Record
         /\ batch[k + 1].id \in Ids /\ batch[k + 1].v \in Version
<1>1. k + 1 \in 1 .. Len(batch) /\ Len(batch) \in Nat /\ k \in Nat
  BY LenProperties DEF Control, TypeOK
<1>2. batch[k + 1] \in Record
  BY <1>1, ElementOfSeq DEF Control, TypeOK
<1> QED  BY <1>1, <1>2 DEF Record

(* The line that is being written.                                         *)
LEMMA SyncedType ==
  ASSUME Control
  PROVE  /\ Lines(active) \in Seq(Line) /\ Synced \in Seq(Line)
         /\ mu = "update" => active = Append(Synced, batch[k + 1]) /\ active # NoFile
         /\ mu # "update" => Synced = Lines(active)
<1>1. Lines(active) \in Seq(Line)
  BY EmptySeq DEF Lines, Control, TypeOK
<1>2. CASE mu = "update"
  <2>1. active # NoFile /\ active \in Seq(Line) /\ active # <<>> /\ active[Len(active)] = batch[k + 1]
    BY <1>2 DEF Control, TypeOK, InHand
  <2>2. Len(active) \in Nat \ {0}
    BY <2>1, LenProperties, EmptySeq
  <2>3. Synced = SubSeq(active, 1, Len(active) - 1)
    BY <1>2 DEF Synced
  <2>4. Synced \in Seq(Line) /\ active = Append(Synced, active[Len(active)])
    BY <2>1, <2>2, <2>3, SubSeqProperties, AppendProperties, SeqEqual
  <2> QED  BY <1>1, <1>2, <2>1, <2>4
<1>3. CASE mu # "update"
  BY <1>1, <1>3 DEF Synced
<1> QED  BY <1>2, <1>3

(* The segments that are listed are those there are.                       *)
LEMMA ListedSegments ==
  ASSUME Control
  PROVE  /\ Numbered(DOMAIN sealed) \in Seq(Nat)
         /\ DOMAIN sealed = {} => Numbered(DOMAIN sealed) = <<>>
         /\ \A n \in DOMAIN sealed : Numbered(DOMAIN sealed) = <<n>>
<1>1. CASE DOMAIN sealed = {}
  <2>1. Cardinality({}) = 0 /\ 1 .. 0 = {}
    BY FS_EmptySet
  <2>2. <<>> \in [1 .. Cardinality({}) -> {}]
    BY <2>1
  <2>3. Numbered({}) \in [1 .. Cardinality({}) -> {}]
    BY <2>1, <2>2 DEF Numbered
  <2>4. Numbered({}) = <<>>
    BY <2>1, <2>3
  <2> QED  BY <1>1, <2>4, EmptySeq
<1>2. CASE DOMAIN sealed # {}
  <2>0. PICK n \in DOMAIN sealed : TRUE
    BY <1>2
  <2>1. DOMAIN sealed = {n} /\ n \in Nat
    BY <2>0 DEF Control, OneLog, TypeOK
  <2>2. Cardinality({n}) = 1
    BY FS_Singleton
  <2>3. <<n>> \in [1 .. 1 -> {n}] /\ \A i, j \in 1 .. 1 : ~(i < j)
    OBVIOUS
  <2>4. Numbered({n}) \in [1 .. 1 -> {n}]
    BY <2>2, <2>3 DEF Numbered
  <2>5. Numbered({n}) = <<n>>
    BY <2>4
  <2>6. <<n>> \in Seq(Nat)
    BY <2>1
  <2> QED  BY <2>1, <2>5, <2>6
<1> QED  BY <1>1, <1>2

LEMMA CrashControl ==
  ASSUME Control, Crash \/ PowerLoss \/ Exit \/ JobUpdateRefused \/ JobUpdateFails
  PROVE  Control'
<1> USE DEF files, history
<1>1. CASE Crash \/ Exit
  BY <1>1, EndsControl DEF Crash, Exit, Control, TypeOK, Failed
<1>2. CASE PowerLoss
  <2>1. Append(Synced, Torn) \in Seq(Line) /\ Synced \in Seq(Line) /\ active # NoFile
    BY <1>2, SyncedType, AppendProperties DEF Line, PowerLoss
  <2> QED  BY <1>2, <2>1, EndsControl DEF PowerLoss, Control, TypeOK, Failed
<1>3. CASE JobUpdateFails
  <2>1. client \in {"kick", "persist", "sync"} /\ active # NoFile /\ active \in Seq(Line)
    BY <1>3 DEF JobUpdateFails, Persists, Control, TypeOK
  <2>2. Append(active, Torn) \in Seq(Line) /\ Append(active, batch[k + 1]) \in Seq(Line)
    BY <2>1, BatchRecord, AppendProperties DEF Line
  <2> QED  BY <1>3, <2>1, <2>2, EndsControl DEF JobUpdateFails, Control, TypeOK, Failed
<1>4. CASE JobUpdateRefused
  <2>1. phase = "up" /\ mu = "free" /\ ~appendFile
    BY <1>4 DEF JobUpdateRefused, RefusesUpdate, Persists, Control, Modes
  <2>2. refused' => failures > 0
    BY <1>4, <2>1 DEF JobUpdateRefused, Control, Failed
  <2> QED  BY <1>4, <2>2, EndsControl DEF JobUpdateRefused, Control, TypeOK, Failed
<1> QED  BY <1>1, <1>2, <1>3, <1>4

LEMMA LoadControl ==
  ASSUME Control, Start \/ Load
  PROVE  Control'
<1> USE DEF files, store, checkpoint, looping, clientVars, loading, history, StaysInPhase
<1>1. CASE Start
  <2>1. TypeOK'
    BY <1>1 DEF Start, Control, TypeOK, Modes
  <2> QED  BY <1>1, <2>1 DEF Start, Control, Modes, InHand, OneLog, Failed
<1>2. CASE ReadCheckpoint
  <2>1. found' \in Content
    BY <1>2, NoJobsContent DEF ReadCheckpoint, Control, TypeOK
  <2>2. TypeOK'
    BY <1>2, <2>1 DEF ReadCheckpoint, Reads, Control, TypeOK
  <2> QED  BY <1>2, <2>2 DEF ReadCheckpoint, Reads, Control, Modes, InHand, OneLog, Failed
<1>3. CASE ListSealedSegments
  <2>1. list' \in Seq(Nat)
    BY <1>3, ListedSegments DEF ListSealedSegments
  <2>2. TypeOK'
    BY <1>3, <2>1 DEF ListSealedSegments, Reads, Control, TypeOK
  <2> QED  BY <1>3, <2>2 DEF ListSealedSegments, Reads, Control, Modes, InHand, OneLog, Failed
<1>4. CASE ReplaySealed
  <2>1. sealed[Head(list)] \in Seq(Line) /\ list' \in Seq(Nat)
    BY <1>4, HeadTailProperties DEF ReplaySealed, Control, TypeOK
  <2>2. found' \in Content
    BY <1>4, <2>1, SaidType, OverlayContent DEF ReplaySealed, Replay, Control, TypeOK
  <2>3. TypeOK'
    BY <1>4, <2>1, <2>2 DEF ReplaySealed, Reads, Control, TypeOK
  <2> QED  BY <1>4, <2>3 DEF ReplaySealed, Reads, Control, Modes, InHand, OneLog, Failed
<1>5. CASE ReplayActive
  <2>1. run' \in Content /\ found' \in Content
    BY <1>5, SyncedType, SaidType, OverlayContent, NoJobsContent
    DEF ReplayActive, ReplayedActive, Replay, Control, TypeOK
  <2>2. TypeOK'
    BY <1>5, <2>1 DEF ReplayActive, Reads, Control, TypeOK, Modes
  <2> QED  BY <1>5, <2>2 DEF ReplayActive, Reads, Control, Modes, InHand, OneLog, Failed
<1>6. CASE ReadFails
  <2>1. CASE phase = "load"
    BY <1>6, <2>1, EndsControl DEF ReadFails, Control, TypeOK, Failed
  <2>2. CASE phase # "load"
    <3>1. phase = "up" /\ reader # "off" /\ client = "reload"
      BY <1>6, <2>2 DEF ReadFails, Unreadable, Control, Modes
    <3>2. TypeOK'
      BY <1>6, <3>1, NoJobsContent, EmptySeq DEF ReadFails, Control, TypeOK
    <3> QED  BY <1>6, <3>1, <3>2 DEF ReadFails, Control, Modes, InHand, OneLog, Failed
  <2> QED  BY <2>1, <2>2
<1> QED  BY <1>1, <1>2, <1>3, <1>4, <1>5, <1>6 DEF Load

LEMMA CheckpointControl ==
  ASSUME Control, Checkpoint \/ CheckpointFails
  PROVE  Control'
<1> USE DEF files, store, checkpoint, looping, clientVars, loading, history, Goes
<1>1. CASE RotateLog
  <2>1. active # NoFile => DOMAIN sealed' = {sealSeq + 1} /\ sealed'[sealSeq + 1] = active
    BY <1>1 DEF RotateLog, Put, Control, OneLog
  <2>2. TypeOK'
    BY <1>1, <2>1 DEF RotateLog, Control, TypeOK, Modes
  <2>3. OneLog'
    BY <1>1, <2>1 DEF RotateLog, Control, OneLog
  <2> QED  BY <1>1, <2>2, <2>3 DEF RotateLog, Control, TypeOK, Modes, InHand, Failed
<1>2. CASE SnapshotRun \/ CreateTmp \/ WriteTmp \/ Publish
  BY <1>2 DEF SnapshotRun, CreateTmp, WriteTmp, Publish, Control, TypeOK, Modes, InHand, OneLog, Failed
<1>3. CASE RemoveSegment
  <2>1. ~appendFile /\ mu # "update"
    BY <1>3 DEF RemoveSegment, Control, TypeOK, Modes
  <2>2. DOMAIN sealed' \subseteq DOMAIN sealed /\ \A n \in DOMAIN sealed' : sealed'[n] = sealed[n]
    BY <1>3 DEF RemoveSegment
  <2>3. active' = NoFile \/ active' = active
    BY <1>3 DEF RemoveSegment
  <2>4. TypeOK'
    BY <1>3, <2>1, <2>2, <2>3 DEF RemoveSegment, Control, TypeOK
  <2> QED  BY <1>3, <2>1, <2>2, <2>3, <2>4 DEF RemoveSegment, Control, Modes, InHand, OneLog, Failed
<1>4. CASE RemoveEnds
  BY <1>4 DEF RemoveEnds, NoSegments, Control, TypeOK, Modes, InHand, OneLog, Failed
<1>5. CASE Reopen
  <2>1. mu \notin {"free", "update"} /\ <<>> \in Seq(Line) /\ NoJobs \in Content /\ <<>> \in Seq(Record)
    BY <1>5, NoJobsContent, EmptySeq DEF Reopen, Control, TypeOK
  <2>3. TypeOK'
    BY <1>5, <2>1, EmptyIsThere DEF Reopen, Unlock, Control, TypeOK, Modes
  <2> QED  BY <1>5, <2>1, <2>3 DEF Reopen, Unlock, Control, TypeOK, Modes, InHand, OneLog, Failed
<1>6. CASE CheckpointFails
  <2>1. /\ tmp' \in Content \cup {NoFile, Torn} /\ failures' \in Nat /\ failures' > 0
        /\ mu \notin {"free", "update"}
    BY <1>6 DEF CheckpointFails, Control, TypeOK, Failed
  <2>2. CASE mu = "open"
    BY <1>6, <2>1, <2>2, EndsControl DEF CheckpointFails, Control, TypeOK, Failed
  <2>3. CASE mu # "open"
    <3>1. TypeOK'
      BY <1>6, <2>1, <2>3, NoJobsContent DEF CheckpointFails, Unlock, Control, TypeOK, Modes
    <3> QED
      BY <1>6, <2>1, <2>3, <3>1 DEF CheckpointFails, Unlock, Control, Modes, InHand, OneLog, Failed
  <2> QED  BY <2>2, <2>3
<1> QED  BY <1>1, <1>2, <1>3, <1>4, <1>5, <1>6 DEF Checkpoint

LEMMA LoopControl ==
  ASSUME Control, CheckpointLoop \/ BackoffElapses \/ Close \/ Closer
  PROVE  Control'
<1> USE DEF files, store, checkpoint, looping, clientVars, loading, history, LoopOnly
<1>1. CASE LoopWakes \/ LoopEnds \/ LoopStops \/ BackoffElapses
  <2>1. LoopOnly /\ backoff' \in BOOLEAN /\ pending' \in BOOLEAN /\ kick' \in BOOLEAN
    BY <1>1 DEF LoopWakes, LoopEnds, LoopStops, BackoffElapses, Control, TypeOK
  <2>2. /\ loop' \in {"off", "select", "begin", "ok", "err", "done", "checkpoint"}
        /\ (loop' = "checkpoint") <=> (loop = "checkpoint")
        /\ (loop = "off") <=> (loop' = "off")
    BY <1>1 DEF LoopWakes, LoopEnds, CheckpointReturned, LoopStops, BackoffElapses, Control, TypeOK
  <2>3. TypeOK'
    BY <2>1, <2>2 DEF Control, TypeOK
  <2> QED
    BY <2>1, <2>2, <2>3 DEF Control, Modes, InHand, OneLog, Failed
<1>2. CASE LoopRotates \/ CloseRotates
  BY <1>2 DEF LoopRotates, CloseRotates, LockAndClose, CloseHandle,
              Control, TypeOK, Modes, InHand, OneLog, Failed
<1>3. CASE Close \/ CloseAppendFile
  BY <1>3 DEF Close, CloseAppendFile, Closes, Control, TypeOK, Modes, InHand, OneLog, Failed
<1> QED  BY <1>1, <1>2, <1>3 DEF CheckpointLoop, Closer

(* A job that is new gets version 1, another one its next version.         *)
LEMMA NextVersionType ==
  ASSUME Control, NEW id \in Ids, NextVersion(id) <= MaxVersion
  PROVE  /\ NextVersion(id) \in Version
         /\ [id |-> id, v |-> NextVersion(id)] \in Record
         /\ Put(run, id, NextVersion(id)) \in Content
<1>1. run \in Content /\ run \in [DOMAIN run -> Version]
  BY ContentMeaning DEF Control, TypeOK
<1>2. NextVersion(id) \in Version
  BY <1>1, StoreAssumption DEF NextVersion, Version
<1> QED  BY <1>1, <1>2, PutContent DEF Record

LEMMA ClientControl ==
  ASSUME Control, Client
  PROVE  Control'
<1> USE DEF files, store, checkpoint, looping, clientVars, loading, history
<1>1. ASSUME NEW id \in Ids, AddJob(id) PROVE Control'
  <2>1. 1 \in Version
    BY StoreAssumption DEF Version
  <2>2. run' \in Content
    BY <1>1, <2>1, PutContent DEF AddJob, Control, TypeOK
  <2> QED
    BY <1>1, <2>2 DEF AddJob, RunOnly, Control, TypeOK, Modes, InHand, OneLog, Failed
<1>2. ASSUME NEW id \in Ids, CompleteJob(id) PROVE Control'
  <2> DEFINE r == [id |-> id, v |-> NextVersion(id)]
  <2>1. /\ r \in Record /\ run' \in Content /\ client = "update" /\ client' = "kick"
        /\ batch' = Append(<<>>, r) /\ RunOnly
    BY <1>2, NextVersionType DEF CompleteJob, UpdateJob, Idle
  <2> HIDE DEF r
  <2>2. batch' \in Seq(Record) /\ Len(batch') = 1
    BY <2>1, EmptySeq, AppendProperties
  <2>3. k = 0 /\ mu # "update" /\ mu # "sync"
    BY <2>1 DEF Control, TypeOK, InHand, Modes
  <2>4. TypeOK'
    BY <2>1, <2>2, <2>3 DEF RunOnly, Control, TypeOK
  <2> QED
    BY <2>1, <2>2, <2>3, <2>4 DEF RunOnly, Control, Modes, InHand, OneLog, Failed
<1>3. ASSUME NEW id \in Ids, KickJob(id) PROVE Control'
  <2> DEFINE r == [id |-> id, v |-> NextVersion(id)]
  <2>1. /\ r \in Record /\ run' \in Content /\ client = "kick" /\ client' = "persist"
        /\ batch' = Append(batch, r) /\ RunOnly
    BY <1>3, NextVersionType DEF KickJob, UpdateJob
  <2> HIDE DEF r
  <2>2. batch' \in Seq(Record) /\ Len(batch') = Len(batch) + 1 /\ Len(batch) = 1
    BY <2>1, AppendProperties DEF Control, TypeOK, InHand
  <2>3. k = 0 /\ mu # "update" /\ mu # "sync"
    BY <2>1 DEF Control, TypeOK, InHand, Modes
  <2>4. TypeOK'
    BY <2>1, <2>2, <2>3 DEF RunOnly, Control, TypeOK
  <2> QED
    BY <2>1, <2>2, <2>3, <2>4 DEF RunOnly, Control, Modes, InHand, OneLog, Failed
<1>4. CASE JobUpdateWrites
  <2>1. /\ client \in {"kick", "persist"} /\ mu = "free" /\ appendFile /\ mu' = "update"
        /\ client' = "sync" /\ active' = Append(active, batch[k + 1]) /\ at = "off"
        /\ active # NoFile /\ active \in Seq(Line) /\ DOMAIN sealed = {} /\ phase = "up"
    BY <1>4 DEF JobUpdateWrites, Persists, Control, TypeOK, OneLog, Modes
  <2>2. batch[k + 1] \in Line /\ k + 1 \in 1 .. Len(batch)
    BY <2>1, BatchRecord DEF Line
  <2>3. /\ active' \in Seq(Line) /\ Len(active') = Len(active) + 1 /\ Len(active) \in Nat
        /\ active'[Len(active')] = batch[k + 1]
    BY <2>1, <2>2, AppendProperties, LenProperties
  <2>4. active' # <<>> /\ active' # NoFile
    BY <2>3, LenProperties, EmptySeq, StoreAssumption
  <2>5. TypeOK'
    BY <1>4, <2>1, <2>2, <2>3, <2>4, LenProperties DEF JobUpdateWrites, Control, TypeOK
  <2> QED
    BY <1>4, <2>1, <2>3, <2>4, <2>5 DEF JobUpdateWrites, Control, Modes, InHand, OneLog, Failed
<1>5. CASE JobUpdateReturns
  <2>1. /\ client = "sync" /\ mu' = "free" /\ mu = "update" /\ at = "off" /\ appendFile
        /\ (client' = "update" /\ k' = 0) \/ (client' = "persist" /\ k' = k + 1 /\ k + 1 # Len(batch))
    BY <1>5 DEF JobUpdateReturns, Control, TypeOK, InHand
  <2>2. k + 1 \in 1 .. Len(batch) /\ Len(batch) \in Nat /\ acked' \in Content /\ k \in Nat
    BY <1>5, <2>1, BatchRecord, PutContent DEF JobUpdateReturns, Control, TypeOK
  <2>3. TypeOK'
    BY <1>5, <2>1, <2>2 DEF JobUpdateReturns, Control, TypeOK
  <2> QED
    BY <1>5, <2>1, <2>2, <2>3 DEF JobUpdateReturns, Control, Modes, InHand, OneLog, Failed
<1>6. CASE JobUpdateRefused \/ JobUpdateFails
  BY <1>6, CrashControl
<1>7. CASE CheckpointSync
  BY <1>7 DEF CheckpointSync, LockAndClose, CloseHandle, Idle,
              Control, TypeOK, Modes, InHand, OneLog, Failed
<1>8. CASE Deserialize
  BY <1>8 DEF Deserialize, Idle, Control, TypeOK, Modes, InHand, OneLog, Failed
<1> QED  BY <1>1, <1>2, <1>3, <1>4, <1>5, <1>6, <1>7, <1>8 DEF Client

LEMMA ControlStep == Control /\ [Next]_vars => Control'
<1> SUFFICES ASSUME Control, [Next]_vars PROVE Control'
  OBVIOUS
<1>1. CASE UNCHANGED vars
  BY <1>1 DEF vars, files, store, checkpoint, looping, clientVars, loading, history,
              Control, TypeOK, Modes, InHand, OneLog, Failed
<1>2. CASE Next
  BY <1>2, LoadControl, CheckpointControl, LoopControl, ClientControl, CrashControl DEF Next
<1> QED  BY <1>1, <1>2

LEMMA ControlInvariant == Spec => []Control
BY ControlInit, ControlStep, PTL DEF Spec

(* Every variable keeps its type, and no two goroutines are ever where only *)
(* the holder of appendMu may be, whatever fails and whenever the process   *)
(* dies.                                                                    *)
THEOREM StoreTypesCorrect == Spec => []TypeOK
<1>1. Control => TypeOK
  BY DEF Control
<1> QED  BY <1>1, ControlInvariant, PTL

(* A rotation finds no sealed segment, for any number of checkpoints,       *)
(* failures and starts: it never renames over one.                          *)
THEOREM OneSegmentOnly == Spec => []OneSegment
<1>1. Control => OneSegment
  <2> SUFFICES ASSUME Control PROVE Cardinality(DOMAIN sealed) <= 1
    BY DEF OneSegment, Control, OneLog
  <2>1. CASE DOMAIN sealed = {}
    BY <2>1, FS_EmptySet
  <2>2. CASE DOMAIN sealed # {}
    <3>1. PICK n \in DOMAIN sealed : TRUE
      BY <2>2
    <3>2. DOMAIN sealed = {n}
      BY <3>1 DEF Control, OneLog
    <3> QED  BY <3>2, FS_Singleton
  <2> QED  BY <2>1, <2>2
<1> QED  BY <1>1, ControlInvariant, PTL

(* A JobUpdate is refused before any Close only in a process in which a     *)
(* checkpoint has failed: the gap between closing and reopening the append  *)
(* file is never seen.                                                      *)
THEOREM RefusalMeansFailure == Spec => []RefusedOnlyAfterFailure
<1>1. Control => RefusedOnlyAfterFailure
  BY DEF Control, Failed, RefusedOnlyAfterFailure
<1> QED  BY <1>1, ControlInvariant, PTL

-----------------------------------------------------------------------------
(* Which steps change what                                                 *)

LEMMA LogsChange ==
  ASSUME [Next]_vars
  PROVE  \/ RotateLog \/ RemoveSegment \/ Reopen \/ PowerLoss \/ JobUpdateWrites \/ JobUpdateFails
         \/ UNCHANGED <<active, sealed>> /\ (phase' = "up" => phase = "up")
<1> USE DEF files, store, checkpoint, looping, clientVars, loading, history
<1>1. ASSUME Start \/ Load PROVE UNCHANGED <<active, sealed>> /\ (phase' = "up" => phase = "up")
  BY <1>1 DEF Start, Load, ReadCheckpoint, ListSealedSegments, ReplaySealed, ReplayActive,
              ReadFails, Reads, StaysInPhase, ProcessEnds
<1>2. ASSUME SnapshotRun \/ CreateTmp \/ WriteTmp \/ Publish \/ RemoveEnds \/ CheckpointFails
      PROVE  UNCHANGED <<active, sealed>> /\ (phase' = "up" => phase = "up")
  BY <1>2 DEF SnapshotRun, CreateTmp, WriteTmp, Publish, RemoveEnds, CheckpointFails, Goes,
              ProcessEnds
<1>3. ASSUME CheckpointLoop \/ BackoffElapses \/ Close \/ Closer
      PROVE  UNCHANGED <<active, sealed>> /\ (phase' = "up" => phase = "up")
  BY <1>3 DEF CheckpointLoop, LoopWakes, LoopRotates, LoopEnds, LoopStops, BackoffElapses, Close,
              Closer, CloseRotates, CloseAppendFile, Closes, LockAndClose, LoopOnly
<1>4. ASSUME Crash \/ Exit \/ JobUpdateRefused
      PROVE  UNCHANGED <<active, sealed>> /\ (phase' = "up" => phase = "up")
  BY <1>4 DEF Crash, Exit, JobUpdateRefused, ProcessEnds
<1>5. ASSUME NEW id \in Ids, AddJob(id) \/ CompleteJob(id) \/ KickJob(id)
      PROVE  UNCHANGED <<active, sealed>> /\ (phase' = "up" => phase = "up")
  BY <1>5 DEF AddJob, CompleteJob, KickJob, UpdateJob, RunOnly
<1>6. ASSUME JobUpdateReturns \/ CheckpointSync \/ Deserialize
      PROVE  UNCHANGED <<active, sealed>> /\ (phase' = "up" => phase = "up")
  BY <1>6 DEF JobUpdateReturns, CheckpointSync, Deserialize, LockAndClose
<1>7. ASSUME UNCHANGED vars
      PROVE  UNCHANGED <<active, sealed>> /\ (phase' = "up" => phase = "up")
  BY <1>7 DEF vars
<1> QED  BY <1>1, <1>2, <1>3, <1>4, <1>5, <1>6, <1>7 DEF Next, Checkpoint, Client

-----------------------------------------------------------------------------
(* OnlyTheTailIsTorn: while the process is up no line of the log is torn,   *)
(* and a process that finds a torn one does not come up.                    *)
AlmostIntact(log) == \A i \in 1 .. Len(log) - 1 : log[i] # Torn

TornTail ==
  /\ phase = "up" => Readable(Lines(active))
  /\ AlmostIntact(Lines(active))
  /\ \A n \in DOMAIN sealed : AlmostIntact(sealed[n])

LEMMA ReadableAlmost ==
  ASSUME NEW log \in Seq(Line), Readable(log)
  PROVE  AlmostIntact(log)
BY LenProperties DEF Readable, AlmostIntact

LEMMA AppendedTail ==
  ASSUME NEW log \in Seq(Line), Readable(log), NEW x \in Line
  PROVE  AlmostIntact(Append(log, x)) /\ (x # Torn => Readable(Append(log, x)))
<1>1. /\ Append(log, x) \in Seq(Line) /\ Len(Append(log, x)) = Len(log) + 1 /\ Len(log) \in Nat
      /\ \A i \in 1 .. Len(log) : Append(log, x)[i] = log[i] /\ log[i] # Torn
      /\ Append(log, x)[Len(log) + 1] = x
  BY AppendProperties, LenProperties DEF Readable
<1>2. DOMAIN Append(log, x) = 1 .. Len(log) + 1
  BY <1>1, LenProperties
<1> QED  BY <1>1, <1>2 DEF AlmostIntact, Readable

LEMMA TornTailInit == Init => TornTail
BY EmptySeq DEF Init, TornTail, Lines, AlmostIntact

LEMMA TornTailStep == Control /\ TornTail /\ [Next]_vars => TornTail'
<1> SUFFICES ASSUME Control, TornTail, [Next]_vars PROVE TornTail'
  OBVIOUS
<1> USE DEF files, store, checkpoint, looping, clientVars, loading, history
<1>1. ASSUME UNCHANGED <<active, sealed>>, phase' = "up" => phase = "up" PROVE TornTail'
  BY <1>1 DEF TornTail, Lines
<1>2. CASE RotateLog
  <2>1. CASE active = NoFile
    BY <1>1, <1>2, <2>1 DEF RotateLog, Goes
  <2>2. CASE active # NoFile
    <3>1. DOMAIN sealed' = {sealSeq + 1} /\ sealed'[sealSeq + 1] = active
      BY <1>2, <2>2 DEF RotateLog, Put, Control, OneLog
    <3>2. active' = NoFile /\ AlmostIntact(active)
      BY <1>2, <2>2 DEF RotateLog, TornTail, Lines
    <3>3. Lines(active') = <<>>
      BY <3>2 DEF Lines
    <3>4. Readable(<<>>) /\ AlmostIntact(<<>>)
      BY EmptySeq DEF Readable, AlmostIntact
    <3> QED  BY <3>1, <3>2, <3>3, <3>4 DEF TornTail
  <2> QED  BY <2>1, <2>2
<1>3. CASE RemoveSegment
  <2>1. /\ DOMAIN sealed' \subseteq DOMAIN sealed /\ \A n \in DOMAIN sealed' : sealed'[n] = sealed[n]
        /\ active' = NoFile \/ active' = active
        /\ phase' = phase
    BY <1>3 DEF RemoveSegment, Goes
  <2>2. Readable(<<>>) /\ AlmostIntact(<<>>)
    BY EmptySeq DEF Readable, AlmostIntact
  <2> QED  BY <2>1, <2>2 DEF TornTail, Lines
<1>4. CASE Reopen
  <2>1. active' = <<>> /\ sealed' = sealed
    BY <1>4 DEF Reopen
  <2>2. Readable(<<>>) /\ AlmostIntact(<<>>) /\ Lines(<<>>) = <<>>
    BY EmptySeq, EmptyIsThere DEF Readable, AlmostIntact, Lines
  <2> QED  BY <2>1, <2>2 DEF TornTail
<1>5. CASE PowerLoss \/ JobUpdateWrites \/ JobUpdateFails
  <2>1. /\ client \in {"kick", "persist", "sync"} /\ phase = "up" /\ sealed' = sealed
        /\ JobUpdateFails \/ JobUpdateWrites => mu = "free"
        /\ PowerLoss => mu = "update"
    BY <1>5 DEF PowerLoss, JobUpdateWrites, JobUpdateFails, Persists, Control, TypeOK, Modes
  <2>2. active \in Seq(Line) /\ active # NoFile
    BY <1>5, <2>1, SyncedType DEF Control, TypeOK, JobUpdateWrites, JobUpdateFails, PowerLoss
  <2>3. Readable(active) /\ batch[k + 1] \in Record /\ batch[k + 1] # Torn
    BY <2>1, <2>2, BatchRecord, StoreAssumption DEF TornTail, Lines
  <2>4. Synced \in Seq(Line) /\ Readable(Synced)
    <3>1. CASE mu = "update"
      <4>1. Synced \in Seq(Line) /\ active = Append(Synced, batch[k + 1])
        BY <3>1, SyncedType
      <4>2. /\ DOMAIN Synced = 1 .. Len(Synced) /\ DOMAIN active = 1 .. Len(Synced) + 1
            /\ Len(Synced) \in Nat /\ \A i \in 1 .. Len(Synced) : active[i] = Synced[i]
        BY <2>3, <4>1, AppendProperties, LenProperties DEF Line
      <4> QED  BY <2>3, <4>1, <4>2 DEF Readable
    <3>2. CASE mu # "update"
      BY <2>2, <2>3, <3>2, SyncedType DEF Lines
    <3> QED  BY <3>1, <3>2
  <2>5. /\ active' \in {active, Synced, Append(active, batch[k + 1]), Append(active, Torn),
                         Append(Synced, Torn)}
        /\ phase' = "up" => active' = Append(active, batch[k + 1])
    BY <1>5 DEF PowerLoss, JobUpdateWrites, JobUpdateFails, ProcessEnds
  <2>6. /\ AlmostIntact(active) /\ AlmostIntact(Synced)
        /\ AlmostIntact(Append(active, batch[k + 1])) /\ Readable(Append(active, batch[k + 1]))
        /\ AlmostIntact(Append(active, Torn)) /\ AlmostIntact(Append(Synced, Torn))
    BY <2>2, <2>3, <2>4, ReadableAlmost, AppendedTail DEF Line
  <2>7. active' \in Seq(Line)
    <3>1. /\ Append(active, batch[k + 1]) \in Seq(Line)
          /\ Append(active, Torn) \in Seq(Line) /\ Append(Synced, Torn) \in Seq(Line)
      BY <2>2, <2>3, <2>4, AppendProperties DEF Line
    <3> QED  BY <2>2, <2>4, <2>5, <3>1
  <2>8. Lines(active') = active'
    BY <2>7, StoreAssumption DEF Lines
  <2> QED  BY <2>1, <2>5, <2>6, <2>8 DEF TornTail
<1> QED  BY <1>1, <1>2, <1>3, <1>4, <1>5, LogsChange

(* A checkpoint that is renamed into place is the copy that was made of the *)
(* Run, and one that is missing or torn has been relied on by nobody.      *)
Published ==
  /\ at = "publish" => tmp = snap
  /\ at \in {"remove", "reopen"} => json = snap
  /\ json = NoFile => acked = NoJobs /\ phase # "up"
  /\ json = Torn => /\ acked = NoJobs
                    /\ phase = "down" \/ (phase = "load" /\ reader = "json")

LEMMA FileKinds ==
  /\ NoFile # Torn
  /\ \A f \in Content : f # NoFile /\ f # Torn
BY StoreAssumption

LEMMA PublishedInit == Init => Published
BY FileKinds, StoreAssumption DEF Init, Published

LEMMA PublishedStep == Control /\ Published /\ [Next]_vars => Published'
<1> SUFFICES ASSUME Control, Published, [Next]_vars PROVE Published'
  OBVIOUS
<1> USE DEF files, store, checkpoint, looping, clientVars, loading, history
<1>0. ASSUME ProcessEnds, UNCHANGED <<json, acked>> PROVE Published'
  BY <1>0 DEF ProcessEnds, Published
<1>1. CASE Start
  BY <1>1, FileKinds DEF Start, Published, Control, TypeOK, Modes
<1>2. CASE Load
  <2>1. CASE ReadFails
    <3>1. CASE phase = "load"
      BY <1>0, <2>1, <3>1 DEF ReadFails
    <3>2. CASE phase # "load"
      BY <2>1, <3>2 DEF ReadFails, Published
    <3> QED  BY <3>1, <3>2
  <2>2. CASE ReadCheckpoint \/ ListSealedSegments \/ ReplaySealed
    BY <2>2 DEF ReadCheckpoint, ListSealedSegments, ReplaySealed, Reads, StaysInPhase, Published
  <2>3. CASE ReplayActive
    BY <2>3 DEF ReplayActive, Reads, Published, Control, TypeOK, Modes
  <2> QED  BY <1>2, <2>1, <2>2, <2>3 DEF Load
<1>3. CASE Checkpoint
  <2>1. at # "off" => mu \notin {"free", "update"}
    BY DEF Control, TypeOK
  <2>2. CASE RotateLog \/ SnapshotRun \/ CreateTmp \/ WriteTmp
    BY <2>2 DEF RotateLog, SnapshotRun, CreateTmp, WriteTmp, Goes, Published
  <2>3. CASE Publish
    <3>1. json' = snap /\ snap \in Content
      BY <2>3 DEF Publish, Goes, Published, Control, TypeOK
    <3> QED  BY <2>3, <3>1, FileKinds DEF Publish, Goes, Published
  <2>4. CASE RemoveSegment \/ RemoveEnds
    BY <2>4 DEF RemoveSegment, RemoveEnds, Goes, Published
  <2>5. CASE Reopen
    <3>1. json = snap /\ snap \in Content /\ json' = json /\ at' = "off"
      BY <2>5 DEF Reopen, Unlock, Published, Control, TypeOK
    <3> QED  BY <3>1, FileKinds DEF Published
  <2> QED  BY <1>3, <2>2, <2>3, <2>4, <2>5 DEF Checkpoint
<1>4. CASE CheckpointFails
  <2>1. CASE mu = "open"
    BY <1>0, <1>4, <2>1 DEF CheckpointFails
  <2>2. CASE mu # "open"
    <3>1. at' = "off" /\ UNCHANGED <<json, acked, phase, reader>>
      BY <1>4, <2>2 DEF CheckpointFails, Unlock
    <3> QED  BY <3>1 DEF Published
  <2> QED  BY <2>1, <2>2
<1>5. CASE CheckpointLoop \/ BackoffElapses \/ Close \/ Closer
  <2>1. /\ UNCHANGED <<json, tmp, snap, acked, phase, reader>>
        /\ at' = at \/ at' = "rotate"
    BY <1>5 DEF CheckpointLoop, LoopWakes, LoopRotates, LoopEnds, LoopStops, BackoffElapses, Close,
                Closer, CloseRotates, CloseAppendFile, Closes, LockAndClose, LoopOnly
  <2> QED  BY <2>1 DEF Published
<1>6. CASE Client
  <2>1. ASSUME NEW id \in Ids, AddJob(id) \/ CompleteJob(id) \/ KickJob(id) PROVE Published'
    BY <2>1 DEF AddJob, CompleteJob, KickJob, UpdateJob, RunOnly, Published
  <2>2. CASE JobUpdateWrites
    BY <2>2 DEF JobUpdateWrites, Published
  <2>3. CASE JobUpdateReturns
    <3>1. phase = "up" /\ json # NoFile /\ json # Torn
      BY <2>3 DEF JobUpdateReturns, Control, TypeOK, Modes, Published
    <3> QED  BY <2>3, <3>1 DEF JobUpdateReturns, Published
  <2>4. CASE JobUpdateRefused \/ JobUpdateFails
    BY <1>0, <2>4 DEF JobUpdateRefused, JobUpdateFails
  <2>5. CASE CheckpointSync
    BY <2>5 DEF CheckpointSync, LockAndClose, Published
  <2>6. CASE Deserialize
    BY <2>6 DEF Deserialize, Idle, Published, Control, Modes
  <2> QED  BY <1>6, <2>1, <2>2, <2>3, <2>4, <2>5, <2>6 DEF Client
<1>7. CASE Crash \/ PowerLoss \/ Exit
  BY <1>0, <1>7 DEF Crash, PowerLoss, Exit
<1>8. CASE UNCHANGED vars
  BY <1>8 DEF vars, Published
<1> QED  BY <1>1, <1>2, <1>3, <1>4, <1>5, <1>6, <1>7, <1>8 DEF Next

LEMMA FilesInvariant == Spec => [](Control /\ TornTail /\ Published)
BY ControlInit, ControlStep, TornTailInit, TornTailStep, PublishedInit, PublishedStep, PTL DEF Spec

LEMMA AllButTheLast ==
  ASSUME NEW log \in Seq(Line), AlmostIntact(log)
  PROVE  Readable(SubSeq(log, 1, Len(log) - 1))
<1>1. Len(log) \in Nat
  BY LenProperties
<1>2. CASE Len(log) = 0
  <2>1. SubSeq(log, 1, Len(log) - 1) = <<>>
    BY <1>1, <1>2, SubSeqProperties
  <2> QED  BY <2>1, EmptySeq DEF Readable
<1>3. CASE Len(log) # 0
  <2>1. /\ DOMAIN SubSeq(log, 1, Len(log) - 1) = 1 .. Len(log) - 1
        /\ \A i \in 1 .. Len(log) - 1 : SubSeq(log, 1, Len(log) - 1)[i] = log[i]
    BY <1>1, <1>3, SubSeqProperties, LenProperties
  <2> QED  BY <2>1 DEF Readable, AlmostIntact
<1> QED  BY <1>2, <1>3

(* Whatever is torn is the end of the last segment, or a first checkpoint   *)
(* that nothing has been acknowledged against, however often the process    *)
(* dies, a power loss included, and however many checkpoints fail.          *)
THEOREM OnlyTailsAreTorn == Spec => []OnlyTheTailIsTorn
<1>1. Control /\ TornTail /\ Published => OnlyTheTailIsTorn
  <2> SUFFICES ASSUME Control, TornTail, Published PROVE OnlyTheTailIsTorn
    OBVIOUS
  <2>1. Readable(SubSeq(Lines(active), 1, Len(Lines(active)) - 1))
    BY SyncedType, AllButTheLast DEF TornTail
  <2>2. ASSUME NEW n \in DOMAIN sealed PROVE Readable(SubSeq(sealed[n], 1, Len(sealed[n]) - 1))
    BY AllButTheLast DEF TornTail, Control, TypeOK
  <2> QED  BY <2>1, <2>2 DEF OnlyTheTailIsTorn, Published
<1> QED  BY <1>1, FilesInvariant, PTL

-----------------------------------------------------------------------------
(* CloseMerges, of a program that calls Close after Exec: the client stays *)
(* between two completions, the loop has ended, and so the last checkpoint *)
(* copies the Run as it remains.                                           *)
Copied == at \in {"create", "write", "publish", "remove", "reopen"}

Closing ==
  /\ closer # "no" => client = "update"
  /\ mu = "close" => loop = "done" /\ (Copied => snap = run)
  /\ closer \in {"final", "closed"} =>
       /\ loop = "done" /\ mu = "free"
       /\ json = run /\ DOMAIN sealed = {} /\ active = <<>>

LEMMA ClosingInit == Init => Closing
BY DEF Init, Closing

LEMMA ClosingStep ==
  ASSUME "handler" \notin Uses, Control, Published, Closing, [Next]_vars
  PROVE  Closing'
<1> USE DEF files, store, checkpoint, looping, clientVars, loading, history
<1>0. ASSUME ProcessEnds PROVE Closing'
  BY <1>0 DEF ProcessEnds, Closing
<1>1. CASE Start
  BY <1>1 DEF Start, Closing, Copied, Control, Modes
<1>2. CASE Load
  <2>1. closer = "no" /\ mu # "close"
    BY <1>2 DEF Load, ReadCheckpoint, ListSealedSegments, ReplaySealed, ReplayActive, ReadFails,
                Reads, Unreadable, Closing, Control, Modes, TypeOK
  <2>2. closer' = "no" /\ mu' # "close"
    BY <1>2, <2>1 DEF Load, ReadCheckpoint, ListSealedSegments, ReplaySealed, ReplayActive, ReadFails,
                      Reads, StaysInPhase, ProcessEnds, Control, TypeOK
  <2> QED  BY <2>2 DEF Closing
<1>3. CASE Checkpoint
  <2>1. at # "off" /\ mu \notin {"free", "update"} /\ closer \notin {"final", "closed"}
    BY <1>3 DEF Checkpoint, RotateLog, SnapshotRun, CreateTmp, WriteTmp, Publish, RemoveSegment,
                RemoveEnds, Reopen, Goes, Closing, Control, TypeOK
  <2>2. CASE RotateLog \/ SnapshotRun \/ CreateTmp \/ WriteTmp \/ Publish \/ RemoveSegment \/ RemoveEnds
    <3>1. /\ UNCHANGED <<run, mu, loop, closer, client>>
          /\ (snap' = snap /\ (Copied' => Copied)) \/ snap' = run
      BY <2>2 DEF RotateLog, SnapshotRun, CreateTmp, WriteTmp, Publish, RemoveSegment, RemoveEnds,
                  Goes, Copied
    <3> QED  BY <2>1, <3>1 DEF Closing
  <2>3. CASE Reopen
    <3>1. /\ mu' = "free" /\ run' = run /\ json' = snap /\ sealed' = sealed /\ active' = <<>>
          /\ DOMAIN sealed = {} /\ Copied
          /\ closer' = IF mu = "close" THEN "final" ELSE closer
          /\ loop' = IF mu = "loop" THEN "ok" ELSE IF mu = "open" THEN "select" ELSE loop
          /\ client' = IF mu \in {"sync", "open"} THEN "update" ELSE client
      BY <2>3 DEF Reopen, Unlock, Published, Copied, Control, OneLog
    <3> QED  BY <2>1, <3>1 DEF Closing, Control, Modes
  <2> QED  BY <1>3, <2>2, <2>3 DEF Checkpoint
<1>4. CASE CheckpointFails
  <2>1. CASE mu = "open"
    BY <1>0, <1>4, <2>1 DEF CheckpointFails
  <2>2. CASE mu # "open"
    <3>1. /\ mu' = "free" /\ mu \notin {"free", "update"}
          /\ closer' = IF mu = "close" THEN "error" ELSE closer
          /\ client' = IF mu = "sync" THEN "update" ELSE client
      BY <1>4, <2>2 DEF CheckpointFails, Unlock, Control, TypeOK
    <3> QED  BY <3>1 DEF Closing, Control, Modes
  <2> QED  BY <2>1, <2>2
<1>5. CASE CheckpointLoop \/ BackoffElapses
  <2>1. CASE LoopRotates
    BY <2>1 DEF LoopRotates, LockAndClose, Closing
  <2>2. CASE ~LoopRotates
    <3>1. LoopOnly /\ (loop = "done" => loop' = "done")
      BY <1>5, <2>2 DEF CheckpointLoop, LoopWakes, LoopEnds, CheckpointReturned, LoopStops, BackoffElapses
    <3> QED  BY <3>1 DEF LoopOnly, Closing, Copied
  <2> QED  BY <2>1, <2>2
<1>6. CASE Close \/ CloseAppendFile
  <2>1. closer' \notin {"no", "final"} /\ client = "update" /\ (closer' = "closed" => closer = "final")
    BY <1>6 DEF Close, CloseAppendFile, Closes, Closing
  <2> QED  BY <1>6, <2>1 DEF Close, CloseAppendFile, Closes, Closing, Copied
<1>7. CASE CloseRotates
  BY <1>7 DEF CloseRotates, LockAndClose, Closing, Copied
<1>8. CASE Client
  <2>1. CASE JobUpdateRefused \/ JobUpdateFails
    BY <1>0, <2>1 DEF JobUpdateRefused, JobUpdateFails
  <2>2. CASE ~(JobUpdateRefused \/ JobUpdateFails)
    <3>1. closer = "no" /\ mu # "close"
      BY <1>8, <2>2 DEF Client, AddJob, CompleteJob, KickJob, JobUpdateWrites, JobUpdateReturns,
                        Persists, CheckpointSync, Deserialize, Idle, Closing, Control, Modes, TypeOK
    <3>2. closer' = "no" /\ mu' # "close"
      BY <1>8, <2>2, <3>1 DEF Client, AddJob, CompleteJob, KickJob, UpdateJob, RunOnly, JobUpdateWrites,
                        JobUpdateReturns, CheckpointSync, Deserialize, LockAndClose
    <3> QED  BY <3>2 DEF Closing
  <2> QED  BY <2>1, <2>2
<1>9. CASE Crash \/ PowerLoss \/ Exit
  BY <1>0, <1>9 DEF Crash, PowerLoss, Exit
<1>10. CASE UNCHANGED vars
  BY <1>10 DEF vars, Closing, Copied
<1> QED  BY <1>1, <1>2, <1>3, <1>4, <1>5, <1>6, <1>7, <1>8, <1>9, <1>10 DEF Next, Closer

(* A program that calls Close only after Exec leaves one checkpoint that is *)
(* the Run, and no segment to replay.                                       *)
THEOREM CloseLeavesOneCheckpoint ==
  ASSUME "handler" \notin Uses
  PROVE  Spec => []CloseMerges
<1>1. Control /\ Published /\ Closing /\ [Next]_vars => Closing'
  BY ClosingStep
<1>2. Closing => CloseMerges
  BY DEF Closing, CloseMerges
<1> QED  BY ClosingInit, <1>1, <1>2, FilesInvariant, PTL DEF Spec

-----------------------------------------------------------------------------
(* What the files say, step by step                                        *)

(* The one segment there is, without the line that is being appended.      *)
OnlySegment == sealed[CHOOSE n \in DOMAIN sealed : TRUE]
Written == IF DOMAIN sealed = {} THEN Synced ELSE OnlySegment

Logged == Said(Written)

(* What a crash or a power loss would leave to the next start, at worst.   *)
Disk == Overlay(Logged, Base)

Busy == client \in {"kick", "persist", "sync"}

LEMMA OnlyOne ==
  ASSUME Control, NEW n \in DOMAIN sealed
  PROVE  DOMAIN sealed = {n} /\ OnlySegment = sealed[n] /\ active = NoFile /\ sealed[n] \in Seq(Line)
BY DEF Control, OneLog, OnlySegment, TypeOK

LEMMA WrittenType ==
  ASSUME Control
  PROVE  Written \in Seq(Line) /\ Logged \in Content
<1>1. Written \in Seq(Line)
  <2>1. CASE DOMAIN sealed = {}
    BY <2>1, SyncedType DEF Written
  <2>2. CASE DOMAIN sealed # {}
    BY <2>2, OnlyOne DEF Written
  <2> QED  BY <2>1, <2>2
<1> QED  BY <1>1, SaidType DEF Logged

LEMMA BaseType ==
  ASSUME Control
  PROVE  Base \in Content
BY NoJobsContent DEF Base, Control, TypeOK

LEMMA DiskType ==
  ASSUME Control
  PROVE  Disk \in Content
BY WrittenType, BaseType, OverlayContent DEF Disk

(* The segments in the order of their numbers say what the only one says.  *)
LEMMA AppendedMeaning ==
  ASSUME Control, NEW log \in Seq(Line), DOMAIN sealed # {} => log = <<>>
  PROVE  Appended(log) = Said(IF DOMAIN sealed = {} THEN log ELSE OnlySegment)
<1>1. Said(log) \in Content /\ DOMAIN Said(<<>>) = {}
  BY SaidType, SaidNothing
<1>2. CASE DOMAIN sealed = {}
  <2>1. UNION {Recorded(sealed[n]) : n \in DOMAIN sealed} = {}
    BY <1>2
  <2>2. DOMAIN InSegments = {}
    BY <2>1 DEF InSegments
  <2>3. Said(log) = [x \in DOMAIN Said(log) |-> Said(log)[x]]
    BY <1>1, ContentMeaning
  <2>4. Overlay(Said(log), InSegments) = [x \in DOMAIN Said(log) |-> Said(log)[x]]
    BY <2>2 DEF Overlay
  <2> QED  BY <1>2, <2>3, <2>4 DEF Appended, Replay
<1>3. CASE DOMAIN sealed # {}
  <2>0. PICK n \in DOMAIN sealed : TRUE
    BY <1>3
  <2>1. DOMAIN sealed = {n} /\ OnlySegment = sealed[n] /\ sealed[n] \in Seq(Line) /\ log = <<>>
    BY <1>3, <2>0, OnlyOne
  <2>2. UNION {Recorded(sealed[m]) : m \in DOMAIN sealed} = Recorded(sealed[n])
    BY <2>1
  <2>3. \A id \in Recorded(sealed[n]) : LastSegment(id) = n
    <3> TAKE id \in Recorded(sealed[n])
    <3>1. Segments(id) = {n}
      BY <2>1 DEF Segments
    <3>2. n <= n
      BY <2>1 DEF Control, TypeOK
    <3> QED  BY <3>1, <3>2 DEF LastSegment
  <2>4. Said(sealed[n]) \in Content /\ DOMAIN Said(sealed[n]) = Recorded(sealed[n])
    BY <2>1, SaidType
  <2>5. Said(sealed[n]) = [id \in Recorded(sealed[n]) |-> Said(sealed[n])[id]]
    BY <2>4, ContentMeaning
  <2>6. InSegments = Said(sealed[n])
    BY <2>2, <2>3, <2>5 DEF InSegments
  <2>7. Overlay(Said(log), InSegments) = Said(sealed[n])
    BY <1>1, <2>1, <2>4, <2>6, OverlayNothing
  <2> QED  BY <1>3, <2>1, <2>7 DEF Appended, Replay
<1> QED  BY <1>2, <1>3

(* A step that moves no line, and does not finish one.                     *)
LEMMA LoggedStays ==
  ASSUME UNCHANGED <<active, sealed>>, (mu = "update") <=> (mu' = "update")
  PROVE  Logged' = Logged
BY DEF Logged, Written, Synced, OnlySegment, Lines

(* The line that is being written becomes part of the log.                 *)
LEMMA LoggedGrows ==
  ASSUME Control, mu = "update", mu' # "update", UNCHANGED <<active, sealed>>
  PROVE  Logged' = Put(Logged, batch[k + 1].id, batch[k + 1].v)
<1>1. client = "sync" /\ active # NoFile /\ DOMAIN sealed = {}
  BY SyncedType DEF Control, TypeOK, OneLog
<1>2. batch[k + 1] \in Record /\ Synced \in Seq(Line) /\ active = Append(Synced, batch[k + 1])
  BY <1>1, BatchRecord, SyncedType
<1>3. Said(active) = Put(Said(Synced), batch[k + 1].id, batch[k + 1].v)
  BY <1>2, SaidRecord
<1>4. Written = Synced /\ Written' = active
  BY <1>1 DEF Written, Synced, Lines
<1> QED  BY <1>3, <1>4 DEF Logged

LEMMA BaseStays ==
  ASSUME json' = json, tmp' = tmp \/ json # NoFile
  PROVE  Base' = Base
BY DEF Base

(* The steps that change what the files say: the record in the client's    *)
(* hands is added, a checkpoint is renamed into place, a segment that it   *)
(* holds is removed.  Before the first checkpoint a .tmp may say anything.  *)
RecordAdded ==
  /\ Busy
  /\ Base' = Base /\ Logged' = Put(Logged, batch[k + 1].id, batch[k + 1].v)
  /\ JobUpdateReturns \/ (ProcessEnds /\ acked' = acked)

DiskStep ==
  \/ UNCHANGED <<Logged, Base, acked>>
  \/ /\ UNCHANGED <<Logged, acked>> /\ json = NoFile
     /\ phase = "up" \/ phase' = "down" \/ (at # "off" /\ Base' = NoJobs) \/ (Copied /\ Base' = snap)
  \/ Publish /\ UNCHANGED <<Logged, acked>> /\ Base' = snap
  \/ RemoveSegment /\ acked' = acked /\ DOMAIN Logged' = {} /\ Base' = snap /\ Base = snap
  \/ RecordAdded

LEMMA EndsDisk ==
  ASSUME Control, ProcessEnds, UNCHANGED <<json, tmp, acked, active, sealed>>
  PROVE  DiskStep
<1>1. Base' = Base /\ mu' # "update"
  BY BaseStays DEF ProcessEnds
<1>2. CASE mu # "update"
  BY <1>1, <1>2, LoggedStays DEF DiskStep
<1>3. CASE mu = "update"
  BY <1>1, <1>3, LoggedGrows DEF DiskStep, RecordAdded, Busy, Control, TypeOK
<1> QED  BY <1>2, <1>3

LEMMA DiskStart ==
  ASSUME Control, Start \/ Load
  PROVE  DiskStep
<1> USE DEF files, store, checkpoint, looping, clientVars, loading, history
<1>1. CASE Start
  <2>1. UNCHANGED <<active, sealed, mu, acked>>
    BY <1>1 DEF Start
  <2>2. Base' = Base
    BY <1>1 DEF Start, Base
  <2> QED  BY <2>1, <2>2, LoggedStays DEF DiskStep
<1>2. CASE ReadFails /\ phase = "load"
  BY <1>2, EndsDisk DEF ReadFails
<1>3. CASE Load /\ ~(ReadFails /\ phase = "load")
  <2>1. UNCHANGED <<json, tmp, active, sealed, acked>> /\ mu # "update" /\ mu' # "update"
    BY <1>3 DEF Load, ReadCheckpoint, ListSealedSegments, ReplaySealed, ReplayActive, ReadFails,
                Reads, StaysInPhase, Unreadable, Control, TypeOK, Modes
  <2> QED  BY <2>1, BaseStays, LoggedStays DEF DiskStep
<1> QED  BY <1>1, <1>2, <1>3

LEMMA DiskCheckpoint ==
  ASSUME Control, Published, Checkpoint \/ CheckpointFails
  PROVE  DiskStep
<1> USE DEF files, store, checkpoint, looping, clientVars, loading, history
<1>0. at # "off" /\ mu \notin {"free", "update"} /\ Synced = Lines(active)
  BY DEF Checkpoint, RotateLog, SnapshotRun, CreateTmp, WriteTmp, Publish, RemoveSegment,
         RemoveEnds, Reopen, CheckpointFails, Goes, Control, TypeOK, Synced
<1>1. CASE RotateLog
  <2>1. Base' = Base /\ mu' = mu /\ acked' = acked
    BY <1>1, BaseStays DEF RotateLog, Goes
  <2>2. CASE active = NoFile
    BY <1>1, <2>1, <2>2, LoggedStays DEF RotateLog, DiskStep
  <2>3. CASE active # NoFile
    <3>1. DOMAIN sealed = {} /\ DOMAIN sealed' = {sealSeq + 1} /\ sealed'[sealSeq + 1] = active
      BY <1>1, <2>3 DEF RotateLog, Put, Control, OneLog
    <3>2. Written' = active /\ Written = active
      BY <1>0, <2>3, <3>1 DEF Written, OnlySegment, Lines
    <3> QED  BY <2>1, <3>2 DEF DiskStep, Logged
  <2> QED  BY <2>2, <2>3
<1>2. CASE SnapshotRun \/ RemoveEnds
  BY <1>2, BaseStays, LoggedStays DEF SnapshotRun, RemoveEnds, Goes, DiskStep
<1>3. CASE CreateTmp \/ WriteTmp
  <2>1. UNCHANGED <<json, active, sealed, mu, acked>>
    BY <1>3 DEF CreateTmp, WriteTmp, Goes
  <2>2. CASE json # NoFile
    BY <2>1, <2>2, BaseStays, LoggedStays DEF DiskStep
  <2>3. CASE json = NoFile
    <3>1. Base' = NoJobs \/ (Copied /\ Base' = snap)
      BY <1>3, <2>1, <2>3, FileKinds DEF CreateTmp, WriteTmp, Goes, Base, Copied, Control, TypeOK
    <3> QED  BY <1>0, <2>1, <2>3, <3>1, LoggedStays DEF DiskStep
  <2> QED  BY <2>2, <2>3
<1>4. CASE Publish
  <2>1. UNCHANGED <<active, sealed, mu, acked>> /\ json' = snap /\ snap \in Content
    BY <1>4 DEF Publish, Goes, Published, Control, TypeOK
  <2>2. Base' = snap
    BY <2>1, FileKinds DEF Base
  <2> QED  BY <1>4, <2>1, <2>2, LoggedStays DEF DiskStep
<1>5. CASE RemoveSegment
  <2>1. json = snap /\ snap \in Content /\ UNCHANGED <<json, tmp, mu, acked>>
    BY <1>5 DEF RemoveSegment, Goes, Published, Control, TypeOK
  <2>2. Base = snap /\ Base' = snap
    BY <2>1, FileKinds DEF Base
  <2>3. DOMAIN sealed' = {} /\ active' = NoFile
    BY <1>5 DEF RemoveSegment, Control, OneLog
  <2>4. Written' = <<>>
    BY <1>0, <2>1, <2>3 DEF Written, Synced, Lines
  <2> QED  BY <1>5, <2>1, <2>2, <2>4, SaidNothing DEF DiskStep, Logged
<1>6. CASE Reopen
  <2>1. /\ active = NoFile /\ DOMAIN sealed = {} /\ sealed' = sealed /\ active' = <<>>
        /\ mu' = "free" /\ UNCHANGED <<json, tmp, acked>>
    BY <1>6 DEF Reopen, Unlock, Control, OneLog
  <2>2. Written' = <<>> /\ Written = <<>>
    BY <1>0, <2>1, EmptyIsThere DEF Written, Synced, Lines
  <2> QED  BY <2>1, <2>2, BaseStays DEF DiskStep, Logged
<1>7. CASE CheckpointFails
  <2>1. UNCHANGED <<json, active, sealed, acked>> /\ mu' = "free"
    BY <1>7 DEF CheckpointFails, ProcessEnds, Unlock
  <2>2. Logged' = Logged
    BY <1>0, <2>1, LoggedStays
  <2>3. phase = "up" \/ phase' = "down"
    BY <1>0, <1>7 DEF CheckpointFails, ProcessEnds, Control, TypeOK, Modes
  <2> QED  BY <2>1, <2>2, <2>3, BaseStays DEF DiskStep
<1> QED  BY <1>1, <1>2, <1>3, <1>4, <1>5, <1>6, <1>7 DEF Checkpoint

LEMMA DiskClient ==
  ASSUME Control, Client \/ PowerLoss
  PROVE  DiskStep
<1> USE DEF files, store, checkpoint, looping, clientVars, loading, history
<1>1. ASSUME NEW id \in Ids, AddJob(id) \/ CompleteJob(id) \/ KickJob(id) PROVE DiskStep
  BY <1>1, BaseStays, LoggedStays DEF AddJob, CompleteJob, KickJob, UpdateJob, RunOnly, DiskStep
<1>2. CASE CheckpointSync \/ Deserialize
  <2>1. UNCHANGED <<json, tmp, active, sealed, acked>> /\ mu # "update" /\ mu' # "update"
    BY <1>2 DEF CheckpointSync, Deserialize, LockAndClose, Idle, Control, TypeOK
  <2> QED  BY <2>1, BaseStays, LoggedStays DEF DiskStep
<1>3. CASE JobUpdateWrites
  <2>1. /\ client \in {"kick", "persist"} /\ mu = "free" /\ mu' = "update"
        /\ active # NoFile /\ active \in Seq(Line) /\ DOMAIN sealed = {}
        /\ active' = Append(active, batch[k + 1]) /\ UNCHANGED <<json, tmp, sealed, acked>>
    BY <1>3 DEF JobUpdateWrites, Persists, Control, TypeOK, OneLog
  <2>2. batch[k + 1] \in Line
    BY <2>1, BatchRecord DEF Line
  <2>3. SubSeq(active', 1, Len(active') - 1) = active
    BY <2>1, <2>2, AppendProperties, SubSeqProperties, SeqEqual, LenProperties
  <2>4. Written' = active /\ Written = active
    BY <2>1, <2>3 DEF Written, Synced, Lines
  <2> QED  BY <2>1, <2>4, BaseStays DEF DiskStep, Logged
<1>4. CASE JobUpdateReturns
  <2>1. mu = "update" /\ mu' = "free" /\ client = "sync" /\ UNCHANGED <<json, tmp, active, sealed>>
    BY <1>4 DEF JobUpdateReturns, Control, TypeOK
  <2> QED  BY <1>4, <2>1, BaseStays, LoggedGrows DEF DiskStep, RecordAdded, Busy
<1>5. CASE JobUpdateRefused
  BY <1>5, EndsDisk DEF JobUpdateRefused
<1>6. CASE JobUpdateFails
  <2>1. /\ client \in {"kick", "persist"} /\ mu = "free" /\ mu' = "free" /\ ProcessEnds
        /\ active # NoFile /\ active \in Seq(Line) /\ DOMAIN sealed = {}
        /\ UNCHANGED <<json, tmp, sealed, acked>>
    BY <1>6 DEF JobUpdateFails, Persists, ProcessEnds, Control, TypeOK, OneLog
  <2>2. batch[k + 1] \in Record /\ batch[k + 1] \in Line /\ Torn \in Line
    BY <2>1, BatchRecord DEF Line
  <2>3. Append(active, batch[k + 1]) # NoFile /\ Append(active, Torn) # NoFile
    <3>1. Append(active, batch[k + 1]) \in Seq(Line) /\ Append(active, Torn) \in Seq(Line)
      BY <2>1, <2>2, AppendProperties
    <3> QED  BY <3>1, StoreAssumption
  <2>4. active' # NoFile
    BY <1>6, <2>1, <2>3 DEF JobUpdateFails
  <2>5. Written = active /\ Written' = active'
    BY <2>1, <2>4 DEF Written, Synced, Lines
  <2>6. /\ Said(Append(active, Torn)) = Said(active)
        /\ Said(Append(active, batch[k + 1])) = Put(Said(active), batch[k + 1].id, batch[k + 1].v)
    BY <2>1, <2>2, SaidTorn, SaidRecord
  <2>7. Logged' = Logged \/ Logged' = Put(Logged, batch[k + 1].id, batch[k + 1].v)
    BY <1>6, <2>5, <2>6 DEF Logged, JobUpdateFails
  <2> QED  BY <2>1, <2>7, BaseStays DEF DiskStep, RecordAdded, Busy
<1>7. CASE PowerLoss
  <2>1. /\ client = "sync" /\ mu = "update" /\ mu' = "free" /\ ProcessEnds
        /\ (active' = Synced \/ active' = Append(Synced, Torn)) /\ DOMAIN sealed = {}
        /\ UNCHANGED <<json, tmp, sealed, acked>>
    BY <1>7, SyncedType DEF PowerLoss, ProcessEnds, Control, TypeOK, OneLog
  <2>2. Synced \in Seq(Line) /\ Append(Synced, Torn) \in Seq(Line)
    BY SyncedType, AppendProperties DEF Line
  <2>3. active' # NoFile
    BY <2>1, <2>2, StoreAssumption
  <2>4. Written = Synced /\ Written' = active'
    BY <2>1, <2>3 DEF Written, Synced, Lines
  <2>5. Logged' = Logged
    BY <2>1, <2>2, <2>4, SaidTorn DEF Logged
  <2> QED  BY <2>1, <2>5, BaseStays DEF DiskStep
<1> QED  BY <1>1, <1>2, <1>3, <1>4, <1>5, <1>6, <1>7 DEF Client

LEMMA DiskChanges ==
  ASSUME Control, Published, [Next]_vars
  PROVE  DiskStep
<1> USE DEF files, store, checkpoint, looping, clientVars, loading, history
<1>1. CASE CheckpointLoop \/ BackoffElapses \/ Close \/ Closer
  <2>1. UNCHANGED <<json, tmp, active, sealed, acked>> /\ ((mu = "update") <=> (mu' = "update"))
    BY <1>1 DEF CheckpointLoop, LoopWakes, LoopRotates, LoopEnds, LoopStops, BackoffElapses, Close,
                Closer, CloseRotates, CloseAppendFile, Closes, LockAndClose, LoopOnly
  <2> QED  BY <2>1, BaseStays, LoggedStays DEF DiskStep
<1>2. CASE Crash \/ Exit
  BY <1>2, EndsDisk DEF Crash, Exit
<1>3. CASE UNCHANGED vars
  BY <1>3, BaseStays, LoggedStays DEF vars, DiskStep
<1> QED  BY <1>1, <1>2, <1>3, DiskStart, DiskCheckpoint, DiskClient DEF Next

-----------------------------------------------------------------------------
(* The client and the loader                                               *)

(* What is still to be appended is what the Run holds.                     *)
Pending ==
  Busy => \A i \in k + 1 .. Len(batch) :
            batch[i].id \in DOMAIN run /\ run[batch[i].id] = batch[i].v

(* Before a process has completed a job its segments are empty.            *)
NothingYet ==
  phase = "up" /\ batch = <<>> =>
    /\ active = NoFile \/ active = <<>>
    /\ \A n \in DOMAIN sealed : sealed[n] = <<>>

(* What is read at a start: nothing moves under the reader.                *)
Loading ==
  phase = "load" =>
    /\ tmp = NoFile
    /\ reader = "list" => found = Base
    /\ reader = "sealed" =>
         /\ list = <<>> => Replay(found, Lines(active)) = Disk
         /\ list # <<>> => Tail(list) = <<>> /\ DOMAIN sealed = {Head(list)} /\ found = Base

InMemory == Pending /\ NothingYet /\ Loading

LEMMA InMemoryInit == Init => InMemory
BY DEF Init, InMemory, Pending, NothingYet, Loading, Busy

LEMMA PendingStep ==
  ASSUME Control, Pending, [Next]_vars
  PROVE  Pending'
<1> USE DEF files, store, checkpoint, looping, clientVars, loading, history
<1>0. ASSUME ProcessEnds PROVE Pending'
  BY <1>0 DEF ProcessEnds, Pending, Busy
<1>1. ASSUME UNCHANGED <<run, batch, k>>, Busy' => Busy PROVE Pending'
  BY <1>1 DEF Pending
<1>2. CASE Start
  BY <1>1, <1>2 DEF Start, Busy
<1>3. CASE Load
  <2>1. CASE ReplayActive
    <3>1. client' \notin {"kick", "persist", "sync"}
      BY <2>1 DEF ReplayActive, Reads, Control, TypeOK, Modes
    <3> QED  BY <3>1 DEF Pending, Busy
  <2>2. CASE ReadFails
    <3>1. CASE phase = "load"
      BY <1>0, <2>2, <3>1 DEF ReadFails
    <3>2. CASE phase # "load"
      BY <2>2, <3>2 DEF ReadFails, Pending, Busy
    <3> QED  BY <3>1, <3>2
  <2>3. CASE ReadCheckpoint \/ ListSealedSegments \/ ReplaySealed
    BY <1>1, <2>3 DEF ReadCheckpoint, ListSealedSegments, ReplaySealed, Reads, StaysInPhase, Busy
  <2> QED  BY <1>3, <2>1, <2>2, <2>3 DEF Load
<1>4. CASE Checkpoint \/ CheckpointFails
  <2>1. CASE RotateLog \/ SnapshotRun \/ CreateTmp \/ WriteTmp \/ Publish \/ RemoveSegment \/ RemoveEnds
    BY <1>1, <2>1 DEF RotateLog, SnapshotRun, CreateTmp, WriteTmp, Publish, RemoveSegment, RemoveEnds,
                      Goes, Busy
  <2>2. CASE Reopen
    <3>1. CASE mu = "open"
      BY <2>2, <3>1 DEF Reopen, Unlock, Pending, Busy
    <3>2. CASE mu # "open"
      <4>1. UNCHANGED <<run, batch, k>> /\ (Busy' => Busy)
        BY <2>2, <3>2 DEF Reopen, Unlock, Busy
      <4> QED  BY <1>1, <4>1
    <3> QED  BY <3>1, <3>2
  <2>3. CASE CheckpointFails
    <3>1. CASE mu = "open"
      BY <1>0, <2>3, <3>1 DEF CheckpointFails
    <3>2. CASE mu # "open"
      <4>1. UNCHANGED <<run, batch, k>> /\ (Busy' => Busy)
        BY <2>3, <3>2 DEF CheckpointFails, Unlock, Busy
      <4> QED  BY <1>1, <4>1
    <3> QED  BY <3>1, <3>2
  <2> QED  BY <1>4, <2>1, <2>2, <2>3 DEF Checkpoint
<1>5. CASE CheckpointLoop \/ BackoffElapses \/ Close \/ Closer
  BY <1>1, <1>5 DEF CheckpointLoop, LoopWakes, LoopRotates, LoopEnds, LoopStops, BackoffElapses,
                    Close, Closer, CloseRotates, CloseAppendFile, Closes, LockAndClose, LoopOnly, Busy
<1>6. CASE Crash \/ PowerLoss \/ Exit \/ JobUpdateRefused \/ JobUpdateFails
  BY <1>0, <1>6 DEF Crash, PowerLoss, Exit, JobUpdateRefused, JobUpdateFails
<1>7. ASSUME NEW id \in Ids, AddJob(id) PROVE Pending'
  BY <1>7 DEF AddJob, Idle, Pending, Busy
<1>8. ASSUME NEW id \in Ids, CompleteJob(id) PROVE Pending'
  <2> DEFINE r == [id |-> id, v |-> NextVersion(id)]
  <2>1. /\ r \in Record /\ run' = Put(run, id, NextVersion(id)) /\ client = "update"
        /\ batch' = Append(<<>>, r) /\ k' = k
    BY <1>8, NextVersionType DEF CompleteJob, UpdateJob, Idle, RunOnly
  <2>2. r.id = id /\ r.v = NextVersion(id)
    OBVIOUS
  <2> HIDE DEF r
  <2>3. Len(batch') = 1 /\ batch'[1] = r /\ k' = 0
    BY <2>1, EmptySeq, AppendProperties DEF Control, InHand
  <2>4. id \in DOMAIN run' /\ run'[id] = NextVersion(id)
    BY <2>1 DEF Put
  <2> QED  BY <2>2, <2>3, <2>4 DEF Pending
<1>9. ASSUME NEW id \in Ids, KickJob(id) PROVE Pending'
  <2> DEFINE r == [id |-> id, v |-> NextVersion(id)]
  <2>1. /\ r \in Record /\ run' = Put(run, id, NextVersion(id)) /\ client = "kick"
        /\ batch' = Append(batch, r) /\ k' = k /\ id # batch[1].id
    BY <1>9, NextVersionType DEF KickJob, UpdateJob, RunOnly
  <2>2. r.id = id /\ r.v = NextVersion(id)
    OBVIOUS
  <2> HIDE DEF r
  <2>3. /\ batch \in Seq(Record) /\ Len(batch) = 1 /\ k = 0
    BY <2>1 DEF Control, InHand, TypeOK
  <2>4. Len(batch') = 2 /\ batch'[1] = batch[1] /\ batch'[2] = r
    <3>1. /\ Len(Append(batch, r)) = Len(batch) + 1 /\ Append(batch, r)[Len(batch) + 1] = r
          /\ \A i \in 1 .. Len(batch) : Append(batch, r)[i] = batch[i]
      <4>1. r \in Record /\ batch \in Seq(Record)
        BY <2>1, <2>3
      <4> QED  BY <4>1, AppendProperties
    <3>2. 1 \in 1 .. Len(batch) /\ Len(batch) + 1 = 2
      BY <2>3
    <3> QED  BY <2>1, <3>1, <3>2
  <2>5. batch[1].id \in DOMAIN run /\ run[batch[1].id] = batch[1].v
    BY <2>1, <2>3 DEF Pending, Busy
  <2>6. id \in DOMAIN run' /\ run'[id] = NextVersion(id)
    BY <2>1 DEF Put
  <2>7. batch[1].id \in DOMAIN run' /\ run'[batch[1].id] = batch[1].v
    BY <2>1, <2>5 DEF Put
  <2>8. \A i \in k' + 1 .. Len(batch') : i = 1 \/ i = 2
    BY <2>1, <2>3, <2>4
  <2> QED  BY <2>2, <2>4, <2>6, <2>7, <2>8 DEF Pending
<1>10. CASE JobUpdateWrites
  BY <1>1, <1>10 DEF JobUpdateWrites, Persists, Busy
<1>11. CASE JobUpdateReturns
  <2>1. client = "sync" /\ run' = run /\ batch' = batch /\ k \in Nat /\ Len(batch) \in Nat
    BY <1>11, LenProperties DEF JobUpdateReturns, Control, TypeOK
  <2>2. client' = "update" \/ k' = k + 1
    BY <1>11 DEF JobUpdateReturns
  <2> QED  BY <2>1, <2>2 DEF Pending, Busy
<1>12. CASE CheckpointSync \/ Deserialize
  BY <1>1, <1>12 DEF CheckpointSync, Deserialize, LockAndClose, Busy
<1>13. CASE UNCHANGED vars
  BY <1>1, <1>13 DEF vars, Busy
<1> QED
  BY <1>2, <1>3, <1>4, <1>5, <1>6, <1>7, <1>8, <1>9, <1>10, <1>11, <1>12, <1>13 DEF Next, Client

(* batch is empty until the process completes a job; it is emptied when one *)
(* comes up.                                                               *)
LEMMA BatchFills ==
  ASSUME Control, NEW id \in Ids, CompleteJob(id) \/ KickJob(id)
  PROVE  batch' # <<>>
<1> DEFINE r == [id |-> id, v |-> NextVersion(id)]
<1>1. r \in Record
  BY NextVersionType DEF CompleteJob, KickJob, UpdateJob
<1>2. \E records \in Seq(Record) : batch' = Append(records, r)
  BY EmptySeq DEF CompleteJob, KickJob, UpdateJob, Control, TypeOK
<1> HIDE DEF r
<1> QED  BY <1>1, <1>2, AppendProperties

LEMMA BatchEmpty ==
  ASSUME Control, [Next]_vars, phase' = "up", batch' = <<>>
  PROVE  (Reopen /\ mu = "open") \/ (phase = "up" /\ batch = <<>>)
<1> USE DEF files, store, checkpoint, looping, clientVars, loading, history
<1>1. CASE \E id \in Ids : CompleteJob(id) \/ KickJob(id)
  BY <1>1, BatchFills
<1>2. CASE Reopen
  BY <1>2 DEF Reopen, Control, Modes, TypeOK
<1>3. CASE ~Reopen /\ ~(\E id \in Ids : CompleteJob(id) \/ KickJob(id))
  <2>1. batch' = batch
    <3>1. ASSUME Start \/ Load \/ (Checkpoint /\ ~Reopen) PROVE batch' = batch
      BY <3>1 DEF Start, Load, ReadCheckpoint, ListSealedSegments, ReplaySealed, ReplayActive,
         ReadFails, Reads, ProcessEnds, Checkpoint, RotateLog, SnapshotRun, CreateTmp, WriteTmp,
         Publish, RemoveSegment, RemoveEnds, Goes
    <3>2. ASSUME CheckpointFails \/ CheckpointLoop \/ BackoffElapses \/ Close \/ Closer
          PROVE  batch' = batch
      BY <3>2 DEF CheckpointFails, ProcessEnds, CheckpointLoop, LoopWakes, LoopRotates,
         LoopEnds, LoopStops, BackoffElapses, Close, Closer, CloseRotates, CloseAppendFile,
         Closes, LockAndClose, LoopOnly
    <3>3. ASSUME NEW id \in Ids, AddJob(id) PROVE batch' = batch
      BY <3>3 DEF AddJob
    <3>4. ASSUME \/ JobUpdateWrites \/ JobUpdateReturns \/ JobUpdateRefused \/ JobUpdateFails
                 \/ CheckpointSync \/ Deserialize \/ Exit \/ Crash \/ PowerLoss \/ UNCHANGED vars
          PROVE  batch' = batch
      BY <3>4 DEF JobUpdateWrites, JobUpdateReturns, JobUpdateRefused, JobUpdateFails, ProcessEnds,
         CheckpointSync, Deserialize, LockAndClose, Exit, Crash, PowerLoss, vars
    <3> QED  BY <1>3, <3>1, <3>2, <3>3, <3>4 DEF Next, Client
  <2>2. phase = "up"
    BY <1>3, LogsChange DEF RotateLog, RemoveSegment, Goes, PowerLoss, JobUpdateWrites,
       JobUpdateFails, ProcessEnds, Persists, Control, Modes
  <2> QED  BY <2>1, <2>2
<1> QED  BY <1>1, <1>2, <1>3

LEMMA NothingYetStep ==
  ASSUME Control, NothingYet, [Next]_vars
  PROVE  NothingYet'
<1> USE DEF files, store, checkpoint, looping, clientVars, loading, history
<1>1. ASSUME ~(phase' = "up" /\ batch' = <<>>) PROVE NothingYet'
  BY <1>1 DEF NothingYet
<1>2. CASE UNCHANGED <<active, sealed>> /\ (phase' = "up" => phase = "up")
  <2>1. CASE Reopen
    BY <1>2, <2>1 DEF Reopen, NothingYet, Control, OneLog
  <2>2. CASE ~Reopen
    <3>1. phase' = "up" /\ batch' = <<>> => phase = "up" /\ batch = <<>>
      BY <2>2, BatchEmpty
    <3> QED  BY <1>2, <3>1 DEF NothingYet
  <2> QED  BY <2>1, <2>2
<1>3. CASE RotateLog
  <2>1. CASE active = NoFile
    BY <1>3, <2>1 DEF RotateLog, Goes, NothingYet
  <2>2. CASE active # NoFile
    <3>1. DOMAIN sealed' = {sealSeq + 1} /\ sealed'[sealSeq + 1] = active /\ active' = NoFile
      BY <1>3, <2>2 DEF RotateLog, Put, Control, OneLog
    <3>2. UNCHANGED <<phase, batch>>
      BY <1>3 DEF RotateLog, Goes
    <3> QED  BY <2>2, <3>1, <3>2 DEF NothingYet
  <2> QED  BY <2>1, <2>2
<1>4. CASE RemoveSegment
  <2>1. /\ DOMAIN sealed' \subseteq DOMAIN sealed /\ \A n \in DOMAIN sealed' : sealed'[n] = sealed[n]
        /\ active' = NoFile \/ active' = active
        /\ UNCHANGED <<phase, batch>>
    BY <1>4 DEF RemoveSegment, Goes
  <2> QED  BY <2>1 DEF NothingYet
<1>5. CASE Reopen
  <2>1. active' = <<>> /\ DOMAIN sealed' = {}
    BY <1>5 DEF Reopen, Control, OneLog
  <2> QED  BY <2>1 DEF NothingYet
<1>6. CASE PowerLoss \/ JobUpdateFails
  BY <1>1, <1>6 DEF PowerLoss, JobUpdateFails, ProcessEnds
<1>7. CASE JobUpdateWrites
  <2>1. k + 1 \in 1 .. Len(batch) /\ Len(batch) \in Nat /\ k \in Nat /\ batch' = batch
    BY <1>7, BatchRecord DEF JobUpdateWrites, Persists
  <2>2. batch # <<>>
    BY <2>1, EmptySeq
  <2> QED  BY <1>1, <2>1, <2>2
<1> QED  BY <1>2, <1>3, <1>4, <1>5, <1>6, <1>7, LogsChange

(* While a start reads the files the other goroutines are not there.       *)
LEMMA LoadAlone ==
  ASSUME Control, [Next]_vars, phase' = "load"
  PROVE  \/ Start
         \/ phase = "load" /\ (ReadCheckpoint \/ ListSealedSegments \/ ReplaySealed)
         \/ phase = "load" /\ UNCHANGED <<files, mu, loading>>
<1> USE DEF files, store, checkpoint, looping, clientVars, loading, history
<1>1. ASSUME ProcessEnds PROVE FALSE
  BY <1>1 DEF ProcessEnds
<1>2. CASE Load
  <2>1. ASSUME ReadFails PROVE FALSE
    <3>1. phase = "up"
      BY <1>1, <2>1 DEF ReadFails
    <3> QED  BY <2>1, <3>1 DEF ReadFails
  <2>2. ASSUME ReplayActive PROVE FALSE
    BY <2>2 DEF ReplayActive
  <2>3. ReadCheckpoint \/ ListSealedSegments \/ ReplaySealed
    BY <1>2, <2>1, <2>2 DEF Load
  <2>4. phase = "load"
    BY <2>3 DEF ReadCheckpoint, ListSealedSegments, ReplaySealed, StaysInPhase
  <2> QED  BY <2>3, <2>4
<1>3. CASE ~Start /\ ~Load /\ phase # "load"
  <2>1. ASSUME Checkpoint \/ CheckpointFails PROVE FALSE
    BY <1>1, <1>3, <2>1 DEF Checkpoint, RotateLog, SnapshotRun, CreateTmp, WriteTmp, Publish,
       RemoveSegment, RemoveEnds, Reopen, Goes, CheckpointFails
  <2>2. ASSUME CheckpointLoop \/ BackoffElapses \/ Close \/ Closer PROVE FALSE
    BY <1>3, <2>2 DEF CheckpointLoop, LoopWakes, LoopRotates, LoopEnds, LoopStops, BackoffElapses,
       Close, Closer, CloseRotates, CloseAppendFile, Closes, LockAndClose, LoopOnly
  <2>3. ASSUME NEW id \in Ids, AddJob(id) \/ CompleteJob(id) \/ KickJob(id) PROVE FALSE
    BY <1>3, <2>3 DEF AddJob, CompleteJob, KickJob, UpdateJob, RunOnly
  <2>4. ASSUME \/ JobUpdateWrites \/ JobUpdateReturns \/ JobUpdateRefused \/ JobUpdateFails
               \/ CheckpointSync \/ Deserialize \/ Exit \/ Crash \/ PowerLoss
        PROVE  FALSE
    BY <1>1, <1>3, <2>4 DEF JobUpdateWrites, JobUpdateReturns, JobUpdateRefused, JobUpdateFails,
       CheckpointSync, Deserialize, LockAndClose, Exit, Crash, PowerLoss
  <2>5. ASSUME UNCHANGED vars PROVE FALSE
    BY <1>3, <2>5 DEF vars
  <2> QED  BY <1>3, <2>1, <2>2, <2>3, <2>4, <2>5 DEF Next, Client
<1>4. CASE ~Start /\ ~Load /\ phase = "load"
  <2>1. mu = "free" /\ at = "off" /\ loop = "off" /\ closer = "no" /\ client = "off"
    BY <1>4 DEF Control, Modes, TypeOK
  <2>2. ~Checkpoint /\ ~CheckpointFails
    BY <2>1 DEF Checkpoint, RotateLog, SnapshotRun, CreateTmp, WriteTmp, Publish,
       RemoveSegment, RemoveEnds, Reopen, Goes, CheckpointFails
  <2>3. ~CheckpointLoop /\ ~Close /\ ~Closer
    BY <1>4, <2>1 DEF CheckpointLoop, LoopWakes, LoopRotates, LoopEnds, CheckpointReturned, LoopStops,
       Close, Closer, CloseRotates, CloseAppendFile, Closes
  <2>4. ~Client
    BY <2>1 DEF Client, AddJob, CompleteJob, KickJob, Idle, JobUpdateWrites, JobUpdateReturns,
       JobUpdateRefused, RefusesUpdate, JobUpdateFails, Persists, CheckpointSync, Deserialize
  <2>5. ~Exit /\ ~Crash /\ ~PowerLoss
    BY <1>1 DEF Exit, Crash, PowerLoss
  <2>6. BackoffElapses \/ UNCHANGED vars
    BY <1>4, <2>2, <2>3, <2>4, <2>5 DEF Next
  <2> QED  BY <1>4, <2>6 DEF BackoffElapses, LoopOnly, vars
<1> QED  BY <1>2, <1>3, <1>4

LEMMA LoadingStep ==
  ASSUME Control, Loading, [Next]_vars
  PROVE  Loading'
<1> USE DEF files, loading
<1> SUFFICES ASSUME phase' = "load" PROVE Loading'
  BY DEF Loading
<1>1. CASE Start
  BY <1>1 DEF Start, Loading
<1>2. CASE phase = "load" /\ (ReadCheckpoint \/ ListSealedSegments \/ ReplaySealed)
  <2>1. /\ UNCHANGED <<json, tmp, active, sealed>> /\ mu = "free" /\ mu' = "free" /\ tmp = NoFile
        /\ Synced = Lines(active)
    BY <1>2 DEF ReadCheckpoint, ListSealedSegments, ReplaySealed, Reads, StaysInPhase, Control, Modes,
                Loading, Synced
  <2>2. Base' = Base /\ Logged' = Logged
    BY <2>1, BaseStays, LoggedStays
  <2>3. Disk' = Disk /\ Lines(active') = Lines(active)
    BY <2>1, <2>2 DEF Disk
  <2>4. CASE ReadCheckpoint
    <3>1. Base = IF json = NoFile THEN NoJobs ELSE json
      BY <2>1, <2>4, FileKinds DEF Base, ReadCheckpoint, Control, TypeOK
    <3> QED  BY <2>1, <2>2, <2>4, <3>1 DEF ReadCheckpoint, Reads, Loading
  <2>5. CASE ListSealedSegments
    <3>1. found' = Base /\ reader' = "sealed" /\ list' = Numbered(DOMAIN sealed)
      BY <1>2, <2>5 DEF ListSealedSegments, Reads, Loading
    <3>2. CASE DOMAIN sealed = {}
      <4>1. list' = <<>> /\ Logged = Said(Lines(active))
        BY <2>1, <3>1, <3>2, ListedSegments DEF Logged, Written
      <4>2. Replay(found', Lines(active')) = Disk'
        BY <2>3, <3>1, <4>1 DEF Replay, Disk
      <4> QED  BY <2>1, <3>1, <4>1, <4>2 DEF Loading
    <3>3. CASE DOMAIN sealed # {}
      <4>0. PICK n \in DOMAIN sealed : TRUE
        BY <3>3
      <4>1. DOMAIN sealed = {n} /\ list' = <<n>>
        BY <3>1, <4>0, OnlyOne, ListedSegments
      <4>2. list' # <<>> /\ Tail(list') = <<>> /\ Head(list') = n
        BY <4>1
      <4> QED  BY <2>1, <2>2, <3>1, <4>1, <4>2 DEF Loading
    <3> QED  BY <3>2, <3>3
  <2>6. CASE ReplaySealed
    <3>1. list # <<>> /\ Tail(list) = <<>> /\ DOMAIN sealed = {Head(list)} /\ found = Base
      BY <1>2, <2>6 DEF ReplaySealed, Reads, Loading
    <3>2. OnlySegment = sealed[Head(list)] /\ active = NoFile
      BY <3>1, OnlyOne
    <3>3. list' = <<>> /\ found' = Overlay(Said(OnlySegment), Base)
      BY <2>6, <3>1, <3>2 DEF ReplaySealed, Replay
    <3>4. found' = Disk /\ found' \in Content
      BY <3>1, <3>3, DiskType DEF Disk, Logged, Written
    <3>5. Replay(found', Lines(active')) = Disk'
      BY <2>1, <2>3, <3>2, <3>4, SaidNothing, OverlayNothing DEF Replay, Lines
    <3> QED  BY <2>1, <3>3, <3>5, <2>6 DEF ReplaySealed, Reads, Loading
  <2> QED  BY <1>2, <2>4, <2>5, <2>6
<1>3. CASE phase = "load" /\ UNCHANGED <<files, mu, loading>>
  <2>1. Base' = Base /\ Logged' = Logged
    BY <1>3, BaseStays, LoggedStays
  <2> QED  BY <1>3, <2>1 DEF Loading, Disk, Lines
<1> QED  BY <1>1, <1>2, <1>3, LoadAlone

LEMMA InMemoryStep ==
  ASSUME Control, InMemory, [Next]_vars
  PROVE  InMemory'
BY PendingStep, NothingYetStep, LoadingStep DEF InMemory

(* Which steps change the Run of a process, and what has been acknowledged. *)
RunGrows(id) == AddJob(id) \/ CompleteJob(id) \/ KickJob(id)

LEMMA RunChanges ==
  ASSUME Control, [Next]_vars, phase' \in {"materialize", "up"}
  PROVE  \/ ReplayActive
         \/ \E id \in Ids : RunGrows(id)
         \/ JobUpdateReturns
         \/ phase \in {"materialize", "up"} /\ UNCHANGED <<run, acked>>
<1> USE DEF files, store, checkpoint, looping, clientVars, loading, history
<1>1. ASSUME ProcessEnds PROVE FALSE
  BY <1>1 DEF ProcessEnds
<1>2. CASE Start
  BY <1>2 DEF Start
<1>3. CASE Load
  <2>1. CASE ReadFails
    BY <1>1, <2>1 DEF ReadFails
  <2> QED
    BY <1>3, <2>1 DEF Load, ReadCheckpoint, ListSealedSegments, ReplaySealed, Reads, StaysInPhase
<1>4. CASE Checkpoint \/ CheckpointFails
  <2>1. at # "off" /\ UNCHANGED <<run, acked>>
    BY <1>1, <1>4 DEF Checkpoint, RotateLog, SnapshotRun, CreateTmp, WriteTmp, Publish,
       RemoveSegment, RemoveEnds, Reopen, Goes, CheckpointFails
  <2> QED  BY <2>1 DEF Control, TypeOK, Modes
<1>5. CASE CheckpointLoop \/ BackoffElapses \/ Close \/ Closer
  BY <1>5 DEF CheckpointLoop, LoopWakes, LoopRotates, LoopEnds, LoopStops, BackoffElapses, Close,
              Closer, CloseRotates, CloseAppendFile, Closes, LockAndClose, LoopOnly
<1>6. CASE JobUpdateWrites \/ CheckpointSync \/ Deserialize
  BY <1>6 DEF JobUpdateWrites, CheckpointSync, Deserialize, LockAndClose
<1>7. CASE JobUpdateRefused \/ JobUpdateFails \/ Exit \/ Crash \/ PowerLoss
  BY <1>1, <1>7 DEF JobUpdateRefused, JobUpdateFails, Exit, Crash, PowerLoss
<1>8. CASE UNCHANGED vars
  BY <1>8 DEF vars
<1> QED  BY <1>2, <1>3, <1>4, <1>5, <1>6, <1>7, <1>8 DEF Next, Client, RunGrows

(* ... the copy that a checkpoint has made,                                *)
LEMMA CopyChanges ==
  ASSUME Control, [Next]_vars, Copied'
  PROVE  /\ SnapshotRun \/ (Copied /\ UNCHANGED <<snap, mu>>)
         /\ acked' = acked
<1> USE DEF files, store, checkpoint, looping, clientVars, loading, history
<1>1. ASSUME ProcessEnds PROVE FALSE
  BY <1>1 DEF ProcessEnds, Copied
<1>2. ASSUME UNCHANGED <<at, snap, mu, acked>> PROVE Copied /\ UNCHANGED <<snap, mu, acked>>
  BY <1>2 DEF Copied
<1>3. CASE Start \/ Load
  <2>1. CASE ReplayActive
    BY <1>2, <2>1 DEF ReplayActive, Reads, Copied
  <2>2. CASE ReadFails
    BY <1>1, <1>2, <2>2 DEF ReadFails
  <2> QED
    BY <1>2, <1>3, <2>1, <2>2 DEF Start, Load, ReadCheckpoint, ListSealedSegments, ReplaySealed,
       Reads, StaysInPhase
<1>4. CASE Checkpoint \/ CheckpointFails
  BY <1>1, <1>4 DEF Checkpoint, RotateLog, SnapshotRun, CreateTmp, WriteTmp, Publish,
     RemoveSegment, RemoveEnds, Reopen, Goes, CheckpointFails, Unlock, Copied
<1>5. CASE CheckpointLoop \/ BackoffElapses \/ Close \/ Closer
  BY <1>2, <1>5 DEF CheckpointLoop, LoopWakes, LoopRotates, LoopEnds, LoopStops, BackoffElapses,
     Close, Closer, CloseRotates, CloseAppendFile, Closes, LockAndClose, LoopOnly, Copied
<1>6. ASSUME NEW id \in Ids, AddJob(id) \/ CompleteJob(id) \/ KickJob(id)
      PROVE  UNCHANGED <<at, snap, mu, acked>>
  BY <1>6 DEF AddJob, CompleteJob, KickJob, UpdateJob, RunOnly
<1>7. CASE JobUpdateWrites \/ JobUpdateReturns
  <2>1. mu \in {"free", "update"} /\ at' = at
    BY <1>7 DEF JobUpdateWrites, JobUpdateReturns, Persists
  <2> QED  BY <2>1 DEF Control, TypeOK, Copied
<1>8. CASE CheckpointSync \/ Deserialize
  BY <1>2, <1>8 DEF CheckpointSync, Deserialize, LockAndClose, Copied
<1>9. CASE JobUpdateRefused \/ JobUpdateFails \/ Exit \/ Crash \/ PowerLoss
  BY <1>1, <1>9 DEF JobUpdateRefused, JobUpdateFails, Exit, Crash, PowerLoss
<1>10. CASE UNCHANGED vars
  BY <1>2, <1>10 DEF vars
<1> QED  BY <1>2, <1>3, <1>4, <1>5, <1>6, <1>7, <1>8, <1>9, <1>10 DEF Next, Client

(* ... and what a Deserialize of a running program reads.                  *)
LEMMA ReloadChanges ==
  ASSUME Control, [Next]_vars, client' = "reload"
  PROVE  /\ acked' = acked
         /\ \/ Deserialize
            \/ client = "reload" /\ UNCHANGED <<run, batch>> /\ phase = "up" /\
                 (ReadCheckpoint \/ ListSealedSegments \/ ReplaySealed \/ UNCHANGED <<reader, found>>)
<1> USE DEF files, store, checkpoint, looping, clientVars, loading, history
<1>0. phase' = "up" => (client = "reload" => phase = "up")
  BY DEF Control, Modes
<1>1. ASSUME ProcessEnds PROVE FALSE
  BY <1>1 DEF ProcessEnds
<1>2. CASE Start
  BY <1>2 DEF Start, Control, Modes
<1>3. CASE Load
  <2>1. CASE ReadFails
    BY <1>1, <2>1 DEF ReadFails
  <2>2. CASE ReplayActive
    BY <2>2 DEF ReplayActive, Control, Modes, Reads
  <2> QED
    BY <1>3, <2>1, <2>2 DEF Load, ReadCheckpoint, ListSealedSegments, ReplaySealed, Reads,
       StaysInPhase, Control, Modes
<1>4. CASE Checkpoint \/ CheckpointFails
  <2>1. CASE Reopen \/ CheckpointFails
    BY <1>1, <2>1 DEF Reopen, CheckpointFails, Unlock, Control, Modes
  <2> QED
    BY <1>4, <2>1 DEF Checkpoint, RotateLog, SnapshotRun, CreateTmp, WriteTmp, Publish,
     RemoveSegment, RemoveEnds, Goes, Control, Modes
<1>5. CASE CheckpointLoop \/ BackoffElapses \/ Close \/ Closer
  BY <1>5 DEF CheckpointLoop, LoopWakes, LoopRotates, LoopEnds, LoopStops, BackoffElapses,
     Close, Closer, CloseRotates, CloseAppendFile, Closes, LockAndClose, LoopOnly, Control, Modes
<1>6. ASSUME NEW id \in Ids, AddJob(id) \/ CompleteJob(id) \/ KickJob(id) PROVE FALSE
  BY <1>6 DEF AddJob, CompleteJob, KickJob, UpdateJob, Idle
<1>7. CASE JobUpdateWrites \/ JobUpdateReturns \/ CheckpointSync
  BY <1>7 DEF JobUpdateWrites, JobUpdateReturns, CheckpointSync
<1>8. CASE Deserialize
  BY <1>8 DEF Deserialize
<1>9. CASE JobUpdateRefused \/ JobUpdateFails \/ Exit \/ Crash \/ PowerLoss
  BY <1>1, <1>9 DEF JobUpdateRefused, JobUpdateFails, Exit, Crash, PowerLoss
<1>10. CASE UNCHANGED vars
  BY <1>10 DEF vars, Control, Modes
<1> QED  BY <1>2, <1>3, <1>4, <1>5, <1>6, <1>7, <1>8, <1>9, <1>10 DEF Next, Client

(* Before a job has completed the files of a running program are its       *)
(* checkpoint alone.                                                       *)
LEMMA QuietFiles ==
  ASSUME Control, Published, NothingYet, phase = "up", batch = <<>>
  PROVE  /\ json \in Content /\ Base = json /\ Disk = json
         /\ Lines(active) = <<>> /\ \A n \in DOMAIN sealed : sealed[n] = <<>>
<1>1. json \in Content /\ Base = json
  BY FileKinds DEF Published, Control, TypeOK, Base
<1>2. client \notin {"kick", "persist", "sync"}
  <2>1. Len(batch) = 0
    BY EmptySeq
  <2> QED  BY <2>1 DEF Control, TypeOK
<1>3. Synced = Lines(active) /\ Lines(active) = <<>>
  BY <1>2, EmptyIsThere DEF Synced, Lines, NothingYet, Control, TypeOK
<1>4. Written = <<>>
  BY <1>3, OnlyOne DEF Written, NothingYet
<1> QED  BY <1>1, <1>3, <1>4, SaidNothing, OverlayNothing DEF Disk, Logged, NothingYet

-----------------------------------------------------------------------------
(* Durable: the files, the Run and every copy of it on its way to become a *)
(* checkpoint hold what has been acknowledged.                             *)
Covers(f) == \A id \in DOMAIN acked : id \in DOMAIN f /\ f[id] >= acked[id]

Safe ==
  /\ Covers(Disk)
  /\ phase \in {"materialize", "up"} => Covers(run)
  /\ Copied => Covers(snap)
  /\ client = "reload" => batch = <<>> /\ (reader \in {"list", "sealed"} => Covers(found))

LEMMA SafeInit == Init => Safe
BY NoJobsContent DEF Init, Safe, Covers, Copied

LEMMA Versions ==
  ASSUME NEW f \in Content
  PROVE  \A id \in DOMAIN f : f[id] \in Nat
BY ContentMeaning DEF Version

(* The record in the client's hands is as new as anything acknowledged.    *)
LEMMA InHandIsNew ==
  ASSUME Control, Pending, Safe, Busy
  PROVE  /\ batch[k + 1].v \in Nat
         /\ batch[k + 1].id \in DOMAIN run /\ run[batch[k + 1].id] = batch[k + 1].v
         /\ batch[k + 1].id \in DOMAIN acked => batch[k + 1].v >= acked[batch[k + 1].id]
<1>1. k + 1 \in 1 .. Len(batch) /\ k \in Nat /\ Len(batch) \in Nat /\ batch[k + 1].v \in Version
  BY BatchRecord DEF Busy
<1>2. k + 1 \in k + 1 .. Len(batch)
  BY <1>1
<1>3. phase = "up"
  BY DEF Busy, Control, Modes
<1> QED  BY <1>1, <1>2, <1>3 DEF Pending, Safe, Covers, Version

LEMMA CoversPut ==
  ASSUME NEW f, Covers(f), NEW id, NEW v, id \in DOMAIN acked => v >= acked[id]
  PROVE  Covers(Put(f, id, v))
BY DEF Covers, Put

LEMMA SafeDisk ==
  ASSUME Control, Published, InMemory, Safe, [Next]_vars
  PROVE  Covers(Disk)'
<1>1. DOMAIN Disk = DOMAIN Logged \cup DOMAIN Base
      /\ \A id \in DOMAIN Disk : Disk[id] = IF id \in DOMAIN Logged THEN Logged[id] ELSE Base[id]
  BY DEF Disk, Overlay
<1>2. DOMAIN Disk' = DOMAIN Logged' \cup DOMAIN Base'
      /\ \A id \in DOMAIN Disk' : Disk'[id] = IF id \in DOMAIN Logged' THEN Logged'[id] ELSE Base'[id]
  BY DEF Disk, Overlay
<1>3. CASE UNCHANGED <<Logged, Base, acked>>
  BY <1>3 DEF Safe, Covers, Disk
<1>4. CASE acked' = acked /\ json = NoFile
  BY <1>4, NoJobsContent DEF Published, Covers
<1>5. CASE Publish /\ UNCHANGED <<Logged, acked>> /\ Base' = snap
  <2>1. Covers(snap) /\ Covers(Disk)
    BY <1>5 DEF Publish, Goes, Safe, Copied
  <2> QED  BY <1>1, <1>2, <1>5, <2>1 DEF Covers
<1>6. CASE RemoveSegment /\ acked' = acked /\ DOMAIN Logged' = {} /\ Base' = snap /\ Base = snap
  <2>1. Covers(snap)
    BY <1>6 DEF RemoveSegment, Goes, Safe, Copied
  <2> QED  BY <1>2, <1>6, <2>1 DEF Covers
<1>7. CASE RecordAdded
  <2> DEFINE r == batch[k + 1]
  <2>1. /\ r.v \in Nat /\ (r.id \in DOMAIN acked => r.v >= acked[r.id])
        /\ Base' = Base /\ Logged' = Put(Logged, r.id, r.v)
        /\ acked' = acked \/ acked' = Put(acked, r.id, r.v)
    BY <1>7, InHandIsNew DEF RecordAdded, JobUpdateReturns, InMemory
  <2> HIDE DEF r
  <2>2. /\ DOMAIN Logged' = DOMAIN Logged \cup {r.id}
        /\ Logged'[r.id] = r.v
        /\ \A id \in DOMAIN Logged : id # r.id => Logged'[id] = Logged[id]
    BY <2>1 DEF Put
  <2>3. r.id \in DOMAIN Disk' /\ Disk'[r.id] = r.v
    BY <1>2, <2>2
  <2>4. \A id \in DOMAIN Disk : id # r.id => id \in DOMAIN Disk' /\ Disk'[id] = Disk[id]
    BY <1>1, <1>2, <2>1, <2>2
  <2>5. Covers(Disk)
    BY DEF Safe
  <2>6. ASSUME NEW id \in DOMAIN acked' PROVE id \in DOMAIN Disk' /\ Disk'[id] >= acked'[id]
    <3>1. CASE id = r.id
      BY <2>1, <2>3, <2>6, <3>1 DEF Put
    <3>2. CASE id # r.id
      <4>1. id \in DOMAIN acked /\ acked'[id] = acked[id]
        BY <2>1, <2>6, <3>2 DEF Put
      <4> QED  BY <2>4, <2>5, <3>2, <4>1 DEF Covers
    <3> QED  BY <3>1, <3>2
  <2> QED  BY <2>6 DEF Covers
<1> QED  BY <1>3, <1>4, <1>5, <1>6, <1>7, DiskChanges DEF DiskStep

LEMMA SafeRun ==
  ASSUME Control, Published, InMemory, Safe, [Next]_vars, phase' \in {"materialize", "up"}
  PROVE  Covers(run)'
<1> USE DEF files, store, checkpoint, looping, clientVars, loading, history
<1>1. CASE ReplayActive
  <2>0. reader = "sealed" /\ list = <<>> /\ acked' = acked /\ run' = Replay(found, Lines(active))
    BY <1>1 DEF ReplayActive, ReplayedActive, Reads
  <2>1. CASE phase = "load"
    <3>1. run' = Disk
      BY <2>0, <2>1 DEF InMemory, Loading
    <3> QED  BY <2>0, <3>1 DEF Safe, Covers
  <2>2. CASE phase # "load"
    <3>1. phase = "up" /\ client = "reload" /\ batch = <<>> /\ Covers(found) /\ found \in Content
      BY <1>1, <2>0, <2>2 DEF Control, Modes, TypeOK, Safe
    <3>2. Lines(active) = <<>>
      BY <3>1, QuietFiles DEF InMemory
    <3>3. run' = found
      BY <2>0, <3>1, <3>2, SaidNothing, OverlayNothing DEF Replay
    <3> QED  BY <2>0, <3>1, <3>3 DEF Covers
  <2> QED  BY <2>1, <2>2
<1>2. ASSUME NEW id \in Ids, RunGrows(id) PROVE Covers(run)'
  <2>1. phase = "up" /\ acked' = acked
    BY <1>2 DEF RunGrows, AddJob, CompleteJob, KickJob, UpdateJob, RunOnly, Idle, Control, Modes
  <2>2. Covers(run) /\ run \in Content /\ acked \in Content
    BY <2>1 DEF Safe, Control, TypeOK
  <2>3. /\ id \in DOMAIN acked => id \in DOMAIN run /\ run[id] >= acked[id] /\ run[id] \in Nat
        /\ id \in DOMAIN acked => acked[id] \in Nat
    BY <2>2, Versions DEF Covers
  <2>4. \E v \in Nat : run' = Put(run, id, v) /\ (id \in DOMAIN acked => v >= acked[id])
    <3>1. CASE AddJob(id)
      BY <2>3, <3>1 DEF AddJob
    <3>2. CASE ~AddJob(id)
      <4>1. run' = Put(run, id, NextVersion(id)) /\ NextVersion(id) <= MaxVersion
        BY <1>2, <3>2 DEF RunGrows, CompleteJob, KickJob, UpdateJob
      <4>2. NextVersion(id) \in Nat
        <5>1. NextVersion(id) \in Version
          BY <4>1, NextVersionType
        <5> QED  BY <5>1 DEF Version
      <4>3. id \in DOMAIN acked => NextVersion(id) >= acked[id]
        BY <2>3 DEF NextVersion
      <4> QED  BY <4>1, <4>2, <4>3
    <3> QED  BY <3>1, <3>2
  <2>5. PICK v \in Nat : run' = Put(run, id, v) /\ (id \in DOMAIN acked => v >= acked[id])
    BY <2>4
  <2>6. Covers(Put(run, id, v))
    BY <2>2, <2>5, CoversPut
  <2> QED  BY <2>1, <2>5, <2>6 DEF Covers
<1>3. CASE JobUpdateReturns
  <2> DEFINE r == batch[k + 1]
  <2>1. Busy /\ phase = "up" /\ run' = run /\ acked' = Put(acked, r.id, r.v)
    BY <1>3 DEF JobUpdateReturns, Busy, Control, TypeOK, Modes
  <2>2. r.v \in Nat /\ r.id \in DOMAIN run /\ run[r.id] = r.v
    BY <2>1, InHandIsNew DEF InMemory
  <2>3. Covers(run)
    BY <2>1 DEF Safe
  <2> HIDE DEF r
  <2> QED  BY <2>1, <2>2, <2>3 DEF Covers, Put
<1>4. CASE phase \in {"materialize", "up"} /\ UNCHANGED <<run, acked>>
  BY <1>4 DEF Safe, Covers
<1> QED  BY <1>1, <1>2, <1>3, <1>4, RunChanges

LEMMA SafeCopy ==
  ASSUME Control, Safe, [Next]_vars, Copied'
  PROVE  Covers(snap)'
<1>1. acked' = acked
  BY CopyChanges
<1>2. CASE SnapshotRun
  <2>1. at # "off" /\ snap' = run
    BY <1>2 DEF SnapshotRun, Goes
  <2>2. phase \in {"materialize", "up"}
    BY <2>1 DEF Control, TypeOK, Modes
  <2> QED  BY <1>1, <2>1, <2>2 DEF Safe, Covers
<1>3. CASE Copied /\ snap' = snap
  BY <1>1, <1>3 DEF Safe, Covers
<1> QED  BY <1>2, <1>3, CopyChanges

LEMMA SafeReload ==
  ASSUME "reload" \in Uses => "late" \notin Uses, Control, Published, InMemory, Safe, [Next]_vars,
         client' = "reload"
  PROVE  batch' = <<>> /\ (reader' \in {"list", "sealed"} => Covers(found)')
<1>1. acked' = acked
  BY ReloadChanges
<1>2. CASE Deserialize
  BY <1>2 DEF Deserialize
<1>3. CASE /\ client = "reload" /\ UNCHANGED <<run, batch>> /\ phase = "up"
           /\ ReadCheckpoint \/ ListSealedSegments \/ ReplaySealed \/ UNCHANGED <<reader, found>>
  <2>1. batch = <<>> /\ (reader \in {"list", "sealed"} => Covers(found))
    BY <1>3 DEF Safe
  <2>2. /\ json \in Content /\ Disk = json /\ \A n \in DOMAIN sealed : sealed[n] = <<>>
    BY <1>3, <2>1, QuietFiles DEF InMemory
  <2>3. CASE ReadCheckpoint
    <3>1. found' = json
      BY <2>2, <2>3, FileKinds DEF ReadCheckpoint
    <3> QED  BY <1>1, <1>3, <2>1, <2>2, <3>1 DEF Safe, Covers
  <2>4. CASE ListSealedSegments \/ UNCHANGED <<reader, found>>
    BY <1>1, <1>3, <2>1, <2>4 DEF ListSealedSegments, Reads, Covers
  <2>5. CASE ReplaySealed
    <3>1. reader = "sealed" /\ sealed[Head(list)] = <<>> /\ found' = Replay(found, sealed[Head(list)])
      BY <2>2, <2>5 DEF ReplaySealed, Reads
    <3>2. found' = found
      BY <3>1, SaidNothing, OverlayNothing DEF Replay, Control, TypeOK
    <3> QED  BY <1>1, <1>3, <2>1, <3>1, <3>2 DEF Covers
  <2> QED  BY <1>3, <2>3, <2>4, <2>5
<1> QED  BY <1>2, <1>3, ReloadChanges

(* What the next start would read.                                         *)
LEMMA RecoveredMeaning ==
  ASSUME Control
  PROVE  /\ mu # "update" => Recovered = Disk
         /\ mu = "update" =>
              Recovered = Overlay(Put(Logged, batch[k + 1].id, batch[k + 1].v), Base)
<1>0. Lines(active) \in Seq(Line) /\ (DOMAIN sealed # {} => Lines(active) = <<>>)
  BY SyncedType DEF Control, OneLog, Lines
<1>1. Recovered = Overlay(Said(IF DOMAIN sealed = {} THEN Lines(active) ELSE OnlySegment), Base)
  BY <1>0, AppendedMeaning DEF Recovered
<1>2. CASE mu # "update"
  BY <1>1, <1>2, SyncedType DEF Disk, Logged, Written
<1>3. CASE mu = "update"
  <2>1. active # NoFile /\ active = Append(Synced, batch[k + 1]) /\ Synced \in Seq(Line)
    BY <1>3, SyncedType
  <2>2. DOMAIN sealed = {} /\ Lines(active) = active /\ Written = Synced
    BY <2>1 DEF Control, OneLog, Lines, Written
  <2>3. batch[k + 1] \in Record
    BY <1>3, BatchRecord DEF Control, TypeOK
  <2>4. Said(active) = Put(Logged, batch[k + 1].id, batch[k + 1].v)
    BY <2>1, <2>2, <2>3, SaidRecord DEF Logged
  <2> QED  BY <1>1, <1>3, <2>2, <2>4
<1> QED  BY <1>2, <1>3

(* A record overlaid is a record put.                                      *)
LEMMA OverlayPut ==
  ASSUME NEW f, NEW g, NEW id, NEW v
  PROVE  Overlay(Put(f, id, v), g) = Put(Overlay(f, g), id, v)
<1>1. DOMAIN Put(f, id, v) = DOMAIN f \cup {id}
      /\ \A x \in DOMAIN f \cup {id} : Put(f, id, v)[x] = IF x = id THEN v ELSE f[x]
  BY DEF Put
<1>2. DOMAIN Overlay(f, g) = DOMAIN f \cup DOMAIN g
      /\ \A x \in DOMAIN f \cup DOMAIN g : Overlay(f, g)[x] = IF x \in DOMAIN f THEN f[x] ELSE g[x]
  BY DEF Overlay
<1>3. Overlay(Put(f, id, v), g) =
        [x \in DOMAIN f \cup {id} \cup DOMAIN g |-> IF x = id THEN v ELSE IF x \in DOMAIN f THEN f[x] ELSE g[x]]
  BY <1>1 DEF Overlay
<1>4. Put(Overlay(f, g), id, v) =
        [x \in DOMAIN f \cup DOMAIN g \cup {id} |-> IF x = id THEN v ELSE IF x \in DOMAIN f THEN f[x] ELSE g[x]]
  BY <1>2 DEF Put
<1> QED  BY <1>3, <1>4

(* Once JobUpdate has answered nil the version it wrote is never lost, for  *)
(* any jobs and any number of checkpoints, failures, crashes and power      *)
(* losses, in a program that does not call Deserialize on a run it is        *)
(* processing.                                                              *)
THEOREM AcknowledgedIsDurable ==
  ASSUME "reload" \in Uses => "late" \notin Uses
  PROVE  Spec => []Durable
<1> DEFINE Inv == Control /\ TornTail /\ Published /\ InMemory /\ Safe
<1>1. Init => Inv
  BY ControlInit, TornTailInit, PublishedInit, InMemoryInit, SafeInit
<1>2. Inv /\ [Next]_vars => Inv'
  <2> SUFFICES ASSUME Inv, [Next]_vars PROVE Inv'
    OBVIOUS
  <2>1. Control' /\ TornTail' /\ Published' /\ InMemory'
    BY ControlStep, TornTailStep, PublishedStep, InMemoryStep
  <2>2. Covers(Disk)'
    BY SafeDisk
  <2>3. (phase \in {"materialize", "up"} => Covers(run))'
    BY SafeRun
  <2>4. (Copied => Covers(snap))'
    BY SafeCopy
  <2>5. (client = "reload" => batch = <<>> /\ (reader \in {"list", "sealed"} => Covers(found)))'
    BY SafeReload
  <2> QED  BY <2>1, <2>2, <2>3, <2>4, <2>5 DEF Safe
<1>3. Inv => Durable
  <2> SUFFICES ASSUME Inv PROVE Covers(Recovered)
    BY DEF Durable, Covers
  <2>1. CASE mu # "update"
    BY <2>1, RecoveredMeaning DEF Safe
  <2>2. CASE mu = "update"
    <3>1. Busy
      BY <2>2 DEF Busy, Control, TypeOK
    <3>2. Recovered = Put(Disk, batch[k + 1].id, batch[k + 1].v)
      BY <2>2, RecoveredMeaning, OverlayPut DEF Disk
    <3> QED  BY <3>1, <3>2, InHandIsNew, CoversPut DEF Safe, InMemory
  <2> QED  BY <2>1, <2>2
<1> QED  BY <1>1, <1>2, <1>3, PTL DEF Spec

-----------------------------------------------------------------------------
(* ReloadsTheSame: until its first completion a process that does not add   *)
(* jobs has a checkpoint that is its Run, and so is every copy of it.       *)
Unmoved ==
  /\ mu = "open" /\ Copied => snap = run
  /\ phase = "up" /\ batch = <<>> =>
       /\ json = run
       /\ Copied => snap = run
       /\ client = "reload" /\ reader \in {"list", "sealed"} => found = run
  /\ client = "reload" => batch = <<>>

LEMMA CheckpointChanges ==
  ASSUME [Next]_vars
  PROVE  Start \/ Publish \/ json' = json
<1> USE DEF files, store, checkpoint, looping, clientVars, loading, history
<1>1. ASSUME Load \/ Checkpoint \/ CheckpointFails PROVE Publish \/ json' = json
  BY <1>1 DEF Load, ReadCheckpoint, ListSealedSegments, ReplaySealed, ReplayActive, ReadFails, Reads,
     Checkpoint, RotateLog, SnapshotRun, CreateTmp, WriteTmp, Publish, RemoveSegment, RemoveEnds,
     Reopen, Goes, CheckpointFails
<1>2. ASSUME CheckpointLoop \/ BackoffElapses \/ Close \/ Closer PROVE json' = json
  BY <1>2 DEF CheckpointLoop, LoopWakes, LoopRotates, LoopEnds, LoopStops, BackoffElapses,
     Close, Closer, CloseRotates, CloseAppendFile, Closes, LockAndClose, LoopOnly
<1>3. ASSUME NEW id \in Ids, AddJob(id) \/ CompleteJob(id) \/ KickJob(id) PROVE json' = json
  BY <1>3 DEF AddJob, CompleteJob, KickJob, UpdateJob, RunOnly
<1>4. ASSUME \/ JobUpdateWrites \/ JobUpdateReturns \/ JobUpdateRefused \/ JobUpdateFails
             \/ CheckpointSync \/ Deserialize \/ Exit \/ Crash \/ PowerLoss \/ UNCHANGED vars
      PROVE  json' = json
  BY <1>4 DEF JobUpdateWrites, JobUpdateReturns, JobUpdateRefused, JobUpdateFails,
     CheckpointSync, Deserialize, LockAndClose, Exit, Crash, PowerLoss, vars
<1> QED  BY <1>1, <1>2, <1>3, <1>4 DEF Next, Client

LEMMA UnmovedInit == Init => Unmoved
BY DEF Init, Unmoved

(* A Deserialize that ends gives back the Run.                             *)
LEMMA ReloadedRun ==
  ASSUME Control, Published, InMemory, Unmoved, ReplayActive, phase # "load"
  PROVE  run' = run
<1>1. reader = "sealed" /\ run' = Replay(found, Lines(active))
  BY DEF ReplayActive, ReplayedActive, Reads
<1>2. phase = "up" /\ client = "reload" /\ batch = <<>> /\ found = run /\ found \in Content
  BY <1>1 DEF Control, Modes, TypeOK, Unmoved
<1>3. Lines(active) = <<>>
  BY <1>2, QuietFiles DEF InMemory
<1> QED  BY <1>1, <1>2, <1>3, SaidNothing, OverlayNothing DEF Replay

LEMMA UnmovedStep ==
  ASSUME "add" \notin Uses, "late" \notin Uses, Control, Control', Published, InMemory, Unmoved,
         [Next]_vars
  PROVE  Unmoved'
<1> USE DEF files, store, checkpoint, looping, clientVars, loading, history
<1>1. ASSUME mu' = "open", Copied' PROVE snap' = run'
  <2>1. CASE SnapshotRun
    BY <2>1 DEF SnapshotRun, Goes
  <2>2. CASE Copied /\ UNCHANGED <<snap, mu>>
    <3>1. mu = "open" /\ snap = run /\ phase = "materialize" /\ client = "off" /\ reader = "off"
      BY <1>1, <2>2 DEF Unmoved, Control, Modes, TypeOK
    <3>2. phase' = "materialize"
      BY <1>1 DEF Control, Modes
    <3>3. run' = run
      <4>1. ~ReplayActive /\ ~JobUpdateReturns /\ \A id \in Ids : ~RunGrows(id)
        BY <3>1 DEF ReplayActive, Reads, JobUpdateReturns, RunGrows, AddJob, CompleteJob, KickJob, Idle
      <4> QED  BY <3>2, <4>1, RunChanges
    <3> QED  BY <2>2, <3>1, <3>3
  <2> QED  BY <1>1, <2>1, <2>2, CopyChanges
<1>2. ASSUME phase' = "up", batch' = <<>>
      PROVE  /\ json' = run'
             /\ Copied' => snap' = run'
             /\ client' = "reload" /\ reader' \in {"list", "sealed"} => found' = run'
  <2>1. CASE Reopen /\ mu = "open"
    <3>1. json' = json /\ run' = run /\ client' = "update" /\ json = snap /\ ~Copied' /\ Copied
      BY <2>1 DEF Reopen, Unlock, Published, Copied
    <3>2. snap = run
      BY <2>1, <3>1 DEF Unmoved
    <3> QED  BY <3>1, <3>2
  <2>2. CASE phase = "up" /\ batch = <<>>
    <3>1. json = run /\ (Copied => snap = run)
      BY <2>2 DEF Unmoved
    <3>2. run' = run
      <4>1. CASE ReplayActive
        BY <2>2, <4>1, ReloadedRun
      <4>2. ASSUME NEW id \in Ids, RunGrows(id) PROVE FALSE
        BY <1>2, <4>2, BatchFills DEF RunGrows, AddJob
      <4>3. CASE JobUpdateReturns
        BY <4>3 DEF JobUpdateReturns
      <4> QED  BY <1>2, <4>1, <4>2, <4>3, RunChanges
    <3>3. json' = run'
      <4>1. CASE Publish
        <5>1. json' = snap /\ Copied
          BY <4>1 DEF Publish, Goes, Published, Copied
        <5> QED  BY <3>1, <3>2, <5>1
      <4>2. ~Start
        BY <2>2 DEF Start
      <4> QED  BY <3>1, <3>2, <4>1, <4>2, CheckpointChanges
    <3>4. ASSUME Copied' PROVE snap' = run'
      <4>1. CASE SnapshotRun
        BY <4>1 DEF SnapshotRun, Goes
      <4>2. CASE Copied /\ snap' = snap
        BY <3>1, <3>2, <4>2
      <4> QED  BY <3>4, <4>1, <4>2, CopyChanges
    <3>5. ASSUME client' = "reload", reader' \in {"list", "sealed"} PROVE found' = run'
      <4>1. ~Deserialize
        BY <3>5 DEF Deserialize
      <4>2. client = "reload" /\ (reader \in {"list", "sealed"} => found = run)
        BY <2>2, <3>5, <4>1, ReloadChanges DEF Unmoved
      <4>3. json \in Content /\ \A n \in DOMAIN sealed : sealed[n] = <<>>
        BY <2>2, QuietFiles DEF InMemory
      <4>4. CASE ReadCheckpoint
        BY <3>1, <3>2, <4>3, <4>4, FileKinds DEF ReadCheckpoint
      <4>5. CASE ListSealedSegments \/ UNCHANGED <<reader, found>>
        BY <3>2, <3>5, <4>2, <4>5 DEF ListSealedSegments, Reads
      <4>6. CASE ReplaySealed
        <5>1. found = run /\ sealed[Head(list)] = <<>> /\ found' = Replay(found, sealed[Head(list)])
          BY <4>2, <4>3, <4>6 DEF ReplaySealed, Reads
        <5> QED  BY <3>2, <5>1, SaidNothing, OverlayNothing DEF Replay, Control, TypeOK
      <4> QED  BY <3>5, <4>1, <4>4, <4>5, <4>6, ReloadChanges
    <3> QED  BY <3>3, <3>4, <3>5
  <2> QED  BY <1>2, <2>1, <2>2, BatchEmpty
<1>3. ASSUME client' = "reload" PROVE batch' = <<>>
  <2>1. CASE Deserialize
    BY <2>1 DEF Deserialize
  <2> QED  BY <1>3, <2>1, ReloadChanges DEF Unmoved
<1> QED  BY <1>1, <1>2, <1>3 DEF Unmoved

(* The steps from one state to the next keep all that is needed.           *)
Files == Control /\ TornTail /\ Published /\ InMemory

LEMMA FilesInit == Init => Files
BY ControlInit, TornTailInit, PublishedInit, InMemoryInit DEF Files

LEMMA FilesStep == Files /\ [Next]_vars => Files'
BY ControlStep, TornTailStep, PublishedStep, InMemoryStep DEF Files

(* A Deserialize before the first completion fails or gives back the very   *)
(* Run that NewJsonSerializer has loaded, whatever files the checkpoint     *)
(* loop renames and removes between its reads, in a program that adds no    *)
(* job in between.                                                          *)
THEOREM ReloadGivesTheRun ==
  ASSUME "add" \notin Uses, "late" \notin Uses
  PROVE  Spec => ReloadsTheSame
<1>1. Init => Files /\ Unmoved
  BY FilesInit, UnmovedInit
<1>2. Files /\ Unmoved /\ [Next]_vars => (Files /\ Unmoved)'
  BY FilesStep, UnmovedStep DEF Files
<1>3. Files /\ Unmoved /\ [Next]_vars => [client = "reload" /\ phase' = "up" => run' = run]_vars
  <2> SUFFICES ASSUME Files, Unmoved, [Next]_vars, client = "reload", phase' = "up" PROVE run' = run
    OBVIOUS
  <2>1. phase = "up"
    BY DEF Files, Control, Modes
  <2>2. CASE ReplayActive
    BY <2>1, <2>2, ReloadedRun DEF Files
  <2>3. ASSUME NEW id \in Ids, RunGrows(id) PROVE FALSE
    BY <2>3 DEF RunGrows, AddJob, CompleteJob, KickJob, Idle
  <2>4. CASE JobUpdateReturns
    BY <2>4 DEF JobUpdateReturns, store
  <2> QED  BY <2>2, <2>3, <2>4, RunChanges DEF Files
<1> QED  BY <1>1, <1>2, <1>3, PTL DEF Spec, ReloadsTheSame

-----------------------------------------------------------------------------
(* NothingStale: of every job whose record is not under way the files, and  *)
(* the copy that is becoming a checkpoint, hold nothing or what the Run     *)
(* holds, though old segments are replayed over new checkpoints.           *)
Unwritten == IF Busy THEN {batch[i].id : i \in k + 1 .. Len(batch)} ELSE {}

Agrees(f) ==
  /\ DOMAIN f \subseteq DOMAIN run
  /\ \A id \in DOMAIN f : id \notin Unwritten => f[id] = run[id]

Fresh ==
  phase \in {"materialize", "up"} => Agrees(Disk) /\ (Copied => Agrees(snap))

(* A Deserialize does not move the Run.                                    *)
Settled == IF "reload" \in Uses THEN Unmoved ELSE client # "reload"

LEMMA FreshInit == Init => Fresh /\ Settled
BY UnmovedInit DEF Init, Fresh, Settled

LEMMA UnwrittenChanges ==
  ASSUME Control, [Next]_vars, phase' \in {"materialize", "up"}
  PROVE  \/ \E id \in Ids : CompleteJob(id) \/ KickJob(id)
         \/ JobUpdateReturns
         \/ Unwritten' = Unwritten
<1> USE DEF files, store, checkpoint, looping, clientVars, loading, history
<1>1. ASSUME ProcessEnds PROVE FALSE
  BY <1>1 DEF ProcessEnds
<1>2. ASSUME UNCHANGED <<batch, k>>, Busy' <=> Busy PROVE Unwritten' = Unwritten
  BY <1>2 DEF Unwritten
<1>3. ASSUME ~Busy, ~Busy' PROVE Unwritten' = Unwritten
  BY <1>3 DEF Unwritten
<1>4. CASE Start
  BY <1>4 DEF Start
<1>5. CASE Load
  <2>1. ~ReadFails \/ phase = "up"
    BY <1>1 DEF ReadFails
  <2>2. CASE ReadFails \/ ReplayActive
    <3>1. client = "off" \/ client = "reload"
      BY <2>2 DEF ReadFails, ReplayActive, Reads, Unreadable, Control, Modes
    <3>2. client' = client \/ client' = "update"
      BY <2>1, <2>2 DEF ReadFails, ReplayActive
    <3> QED  BY <1>3, <3>1, <3>2 DEF Busy
  <2> QED
    BY <1>2, <1>5, <2>2 DEF Load, ReadCheckpoint, ListSealedSegments, ReplaySealed, Reads,
       StaysInPhase, Busy
<1>6. CASE Checkpoint \/ CheckpointFails
  <2>1. CASE Reopen \/ CheckpointFails
    <3>1. /\ mu \in {"sync", "open"} => client' = "update" /\ client \in {"off", "checkpoint"}
          /\ mu \notin {"sync", "open"} => client' = client /\ UNCHANGED <<batch, k>>
      BY <1>1, <2>1 DEF Reopen, CheckpointFails, Unlock, Control, Modes
    <3>2. CASE mu \in {"sync", "open"}
      BY <1>3, <3>1, <3>2 DEF Busy
    <3>3. CASE mu \notin {"sync", "open"}
      BY <1>2, <3>1, <3>3 DEF Busy
    <3> QED  BY <3>2, <3>3
  <2> QED
    BY <1>2, <1>6, <2>1 DEF Checkpoint, RotateLog, SnapshotRun, CreateTmp, WriteTmp, Publish,
       RemoveSegment, RemoveEnds, Goes, Busy
<1>7. CASE CheckpointLoop \/ BackoffElapses \/ Close \/ Closer
  BY <1>2, <1>7 DEF CheckpointLoop, LoopWakes, LoopRotates, LoopEnds, LoopStops, BackoffElapses,
     Close, Closer, CloseRotates, CloseAppendFile, Closes, LockAndClose, LoopOnly, Busy
<1>8. ASSUME NEW id \in Ids, AddJob(id) PROVE Unwritten' = Unwritten
  BY <1>3, <1>8 DEF AddJob, Idle, Busy
<1>9. CASE JobUpdateWrites
  BY <1>2, <1>9 DEF JobUpdateWrites, Persists, Busy
<1>10. CASE CheckpointSync \/ Deserialize
  BY <1>3, <1>10 DEF CheckpointSync, Deserialize, Idle, Busy
<1>11. CASE JobUpdateRefused \/ JobUpdateFails \/ Exit \/ Crash \/ PowerLoss
  BY <1>1, <1>11 DEF JobUpdateRefused, JobUpdateFails, Exit, Crash, PowerLoss
<1>12. CASE UNCHANGED vars
  BY <1>2, <1>12 DEF vars, Busy
<1> QED  BY <1>4, <1>5, <1>6, <1>7, <1>8, <1>9, <1>10, <1>11, <1>12 DEF Next, Client

(* The record that has been made is under way.                             *)
LEMMA CompletedIsUnwritten ==
  ASSUME Control, NEW id \in Ids, CompleteJob(id) \/ KickJob(id)
  PROVE  /\ id \in Unwritten' /\ Unwritten \subseteq Unwritten'
         /\ run' = Put(run, id, NextVersion(id))
<1> DEFINE r == [id |-> id, v |-> NextVersion(id)]
<1>1. r \in Record /\ r.id = id
  BY NextVersionType DEF CompleteJob, KickJob, UpdateJob
<1>2. run' = Put(run, id, NextVersion(id)) /\ k' = k /\ k = 0 /\ Busy'
  BY DEF CompleteJob, KickJob, UpdateJob, Idle, RunOnly, Busy, Control, InHand
<1>3. CASE CompleteJob(id)
  <2>1. batch' = Append(<<>>, r) /\ ~Busy
    BY <1>3 DEF CompleteJob, UpdateJob, Idle, Busy
  <2> HIDE DEF r
  <2>2. Len(batch') = 1 /\ batch'[1] = r
    BY <1>1, <2>1, EmptySeq, AppendProperties
  <2>3. 1 \in k' + 1 .. Len(batch')
    BY <1>2, <2>2
  <2> QED  BY <1>1, <1>2, <2>1, <2>2, <2>3 DEF Unwritten
<1>4. CASE KickJob(id)
  <2>1. batch' = Append(batch, r) /\ Len(batch) = 1 /\ batch \in Seq(Record)
    BY <1>4 DEF KickJob, UpdateJob, Control, InHand, TypeOK
  <2> HIDE DEF r
  <2>2. /\ Len(Append(batch, r)) = Len(batch) + 1 /\ Append(batch, r)[Len(batch) + 1] = r
        /\ \A i \in 1 .. Len(batch) : Append(batch, r)[i] = batch[i]
    <3>1. r \in Record /\ batch \in Seq(Record)
      BY <1>1, <2>1
    <3> QED  BY <3>1, AppendProperties
  <2>3. Len(batch') = 2 /\ batch'[2] = r /\ batch'[1] = batch[1]
    <3>1. 1 \in 1 .. Len(batch) /\ Len(batch) + 1 = 2
      BY <2>1
    <3> QED  BY <2>1, <2>2, <3>1
  <2>4. 1 \in k' + 1 .. Len(batch') /\ 2 \in k' + 1 .. Len(batch')
    BY <1>2, <2>3
  <2>5. Unwritten \subseteq {batch[1].id}
    BY <1>2, <2>1 DEF Unwritten
  <2>6. batch'[1].id \in Unwritten' /\ batch'[2].id \in Unwritten'
    BY <1>2, <2>4 DEF Unwritten
  <2> QED  BY <1>1, <1>2, <2>3, <2>5, <2>6
<1> QED  BY <1>3, <1>4

(* What agrees with the Run still does when the Run has grown.              *)
LEMMA AgreesStays ==
  ASSUME Control, [Next]_vars, phase' \in {"materialize", "up"}, ~JobUpdateReturns,
         ReplayActive => run' = run,
         NEW f, Agrees(f)
  PROVE  /\ DOMAIN f \subseteq DOMAIN run'
         /\ \A id \in DOMAIN f : id \notin Unwritten' => f[id] = run'[id]
<1>1. ASSUME NEW id \in Ids, CompleteJob(id) \/ KickJob(id)
      PROVE  /\ DOMAIN f \subseteq DOMAIN run'
             /\ \A x \in DOMAIN f : x \notin Unwritten' => f[x] = run'[x]
  BY <1>1, CompletedIsUnwritten DEF Agrees, Put
<1>2. CASE ~(\E id \in Ids : CompleteJob(id) \/ KickJob(id))
  <2>1. Unwritten' = Unwritten
    BY <1>2, UnwrittenChanges
  <2>2. ASSUME NEW id \in Ids, AddJob(id)
        PROVE  DOMAIN f \subseteq DOMAIN run' /\ \A x \in DOMAIN f : run'[x] = run[x]
    BY <2>2 DEF AddJob, Put, Agrees
  <2>3. run' = run \/ \E id \in Ids : AddJob(id)
    BY <1>2, RunChanges DEF RunGrows
  <2> QED  BY <2>1, <2>2, <2>3 DEF Agrees
<1> QED  BY <1>1, <1>2

(* The next record of the client is the version in the Run.                *)
LEMMA PendingRecord ==
  ASSUME Control, Pending, Busy
  PROVE  batch[k + 1].id \in DOMAIN run /\ run[batch[k + 1].id] = batch[k + 1].v
<1>1. k + 1 \in k + 1 .. Len(batch)
  BY BatchRecord DEF Busy
<1> QED  BY <1>1 DEF Pending

LEMMA SettledStep ==
  ASSUME "reload" \in Uses => "add" \notin Uses /\ "late" \notin Uses,
         Files, Files', Settled, [Next]_vars
  PROVE  Settled'
<1>1. CASE "reload" \in Uses
  BY <1>1, UnmovedStep DEF Settled, Files
<1>2. CASE "reload" \notin Uses
  BY <1>2, ReloadChanges DEF Settled, Files, Deserialize
<1> QED  BY <1>1, <1>2

LEMMA FreshStep ==
  ASSUME Files, Settled, Fresh, [Next]_vars
  PROVE  Fresh'
<1> USE DEF files, store, checkpoint, looping, clientVars, loading, history
<1> SUFFICES ASSUME phase' \in {"materialize", "up"} PROVE Agrees(Disk)' /\ (Copied' => Agrees(snap)')
  BY DEF Fresh
<1>1. CASE ReplayActive /\ phase = "load"
  <2>1. /\ UNCHANGED <<json, tmp, active, sealed>> /\ mu = "free" /\ mu' = "open" /\ at' = "snapshot"
        /\ run' = Replay(found, Lines(active)) /\ reader = "sealed" /\ list = <<>>
    BY <1>1 DEF ReplayActive, ReplayedActive, Reads, Files, Control, Modes
  <2>2. Base' = Base /\ Logged' = Logged
    BY <2>1, BaseStays, LoggedStays
  <2>3. run' = Disk
    BY <1>1, <2>1 DEF Files, InMemory, Loading
  <2>4. Disk' = run'
    BY <2>2, <2>3 DEF Disk
  <2> QED  BY <2>1, <2>4 DEF Agrees, Copied
<1>2. CASE ~(ReplayActive /\ phase = "load")
  <2>1. ReplayActive => run' = run
    <3> SUFFICES ASSUME ReplayActive PROVE run' = run
      OBVIOUS
    <3>1. client = "reload"
      BY <1>2 DEF ReplayActive, Reads, Files, Control, Modes
    <3> QED  BY <1>2, <3>1, ReloadedRun DEF Settled, Files
  <2>2. phase \in {"materialize", "up"}
    <3>1. ASSUME NEW id \in Ids, RunGrows(id) PROVE phase = "up"
      BY <3>1 DEF RunGrows, AddJob, CompleteJob, KickJob, Idle, Files, Control, Modes
    <3>2. ASSUME JobUpdateReturns PROVE phase = "up"
      BY <3>2 DEF JobUpdateReturns, Files, Control, TypeOK, Modes
    <3>3. ASSUME ReplayActive PROVE phase = "up"
      BY <1>2, <3>3 DEF ReplayActive
    <3> QED  BY <3>1, <3>2, <3>3, RunChanges DEF Files
  <2>3. Agrees(Disk) /\ (Copied => Agrees(snap)) /\ Control
    BY <2>2 DEF Fresh, Files
  <2>4. CASE JobUpdateReturns
    <3> DEFINE r == batch[k + 1]
    <3>1. /\ Busy /\ mu = "update" /\ at = "off" /\ at' = at /\ run' = run
          /\ UNCHANGED <<json, tmp, active, sealed, batch>> /\ mu' # "update"
      <4>1. mu = "update" /\ client = "sync" /\ at = "off"
        BY <2>3, <2>4 DEF JobUpdateReturns, Control, TypeOK
      <4> QED  BY <2>4, <4>1 DEF JobUpdateReturns, Busy
    <3>2. Disk' = Put(Disk, r.id, r.v)
      BY <2>3, <3>1, LoggedGrows, BaseStays, OverlayPut DEF Disk
    <3>3. r.id \in DOMAIN run /\ run[r.id] = r.v
      BY <2>3, <3>1, PendingRecord DEF Files, InMemory
    <3>4. \A id \in Unwritten : id = r.id \/ id \in Unwritten'
      <4>1. k \in Nat /\ Len(batch) \in Nat
        BY <2>3, <3>1, BatchRecord DEF Busy
      <4>2. ASSUME NEW i \in k + 1 .. Len(batch), i # k + 1 PROVE batch[i].id \in Unwritten'
        <5>1. k' = k + 1 /\ k + 1 # Len(batch) /\ client' = "persist"
          BY <2>4, <3>1, <4>1, <4>2 DEF JobUpdateReturns
        <5>2. i \in k' + 1 .. Len(batch')
          BY <3>1, <4>1, <4>2, <5>1
        <5> QED  BY <3>1, <5>1, <5>2 DEF Unwritten, Busy
      <4> QED  BY <4>2 DEF Unwritten
    <3> HIDE DEF r
    <3>5. DOMAIN Disk' \subseteq DOMAIN run'
      BY <2>3, <3>1, <3>2, <3>3 DEF Put, Agrees
    <3>6. ASSUME NEW id \in DOMAIN Disk', id \notin Unwritten' PROVE Disk'[id] = run'[id]
      <4>1. CASE id = r.id
        BY <3>1, <3>2, <3>3, <4>1 DEF Put
      <4>2. CASE id # r.id
        <5>1. id \in DOMAIN Disk /\ Disk'[id] = Disk[id] /\ id \notin Unwritten
          BY <3>2, <3>4, <3>6, <4>2 DEF Put
        <5> QED  BY <2>3, <3>1, <5>1 DEF Agrees
      <4> QED  BY <4>1, <4>2
    <3> QED  BY <3>1, <3>5, <3>6 DEF Agrees, Copied
  <2>5. CASE ~JobUpdateReturns
    <3>1. ASSUME NEW f, Agrees(f)
          PROVE  /\ DOMAIN f \subseteq DOMAIN run'
                 /\ \A id \in DOMAIN f : id \notin Unwritten' => f[id] = run'[id]
      BY <2>1, <2>3, <2>5, <3>1, AgreesStays
    <3>2. ASSUME Copied' PROVE Agrees(snap)'
      <4>1. CASE SnapshotRun
        BY <4>1 DEF SnapshotRun, Goes, Agrees
      <4>2. CASE Copied /\ snap' = snap
        <5>1. Agrees(snap)
          BY <2>3, <4>2
        <5>2. /\ DOMAIN snap \subseteq DOMAIN run'
              /\ \A id \in DOMAIN snap : id \notin Unwritten' => snap[id] = run'[id]
          BY <3>1, <5>1
        <5> QED  BY <4>2, <5>2 DEF Agrees
      <4> QED  BY <2>3, <3>2, <4>1, <4>2, CopyChanges
    <3>3. Agrees(Disk)'
      <4>0. \E f : Agrees(f) /\ Disk' = f
        <5>1. DOMAIN Disk = DOMAIN Logged \cup DOMAIN Base
              /\ \A id \in DOMAIN Disk : Disk[id] = IF id \in DOMAIN Logged THEN Logged[id] ELSE Base[id]
          BY DEF Disk, Overlay
        <5>2. DOMAIN Disk' = DOMAIN Logged' \cup DOMAIN Base'
              /\ \A id \in DOMAIN Disk' : Disk'[id] = IF id \in DOMAIN Logged' THEN Logged'[id] ELSE Base'[id]
          BY DEF Disk, Overlay
        <5>3. ASSUME Logged' = Logged, Agrees(Base') PROVE Agrees(Disk')
          BY <2>3, <5>1, <5>2, <5>3 DEF Agrees
        <5>4. CASE UNCHANGED <<Logged, Base, acked>>
          BY <2>3, <5>4 DEF Disk
        <5>5. CASE /\ UNCHANGED <<Logged, acked>> /\ json = NoFile
                   /\ phase = "up" \/ phase' = "down" \/ (at # "off" /\ Base' = NoJobs) \/ (Copied /\ Base' = snap)
          <6>1. phase # "up"
            BY <5>5 DEF Files, Published
          <6>2. CASE Base' = NoJobs
            <7>1. Agrees(Base')
              BY <6>2, NoJobsContent DEF Agrees
            <7> QED  BY <5>3, <5>5, <7>1
          <6>3. CASE Copied /\ Base' = snap
            BY <2>3, <5>3, <5>5, <6>3
          <6> QED  BY <5>5, <6>1, <6>2, <6>3
        <5>6. CASE Publish /\ UNCHANGED <<Logged, acked>> /\ Base' = snap
          BY <2>3, <5>3, <5>6 DEF Publish, Goes, Copied
        <5>7. CASE RemoveSegment /\ DOMAIN Logged' = {} /\ Base' = snap /\ Base = snap
          <6>1. Agrees(snap)
            BY <2>3, <5>7 DEF RemoveSegment, Goes, Copied
          <6>2. Agrees(Disk')
            BY <5>2, <5>7, <6>1 DEF Agrees
          <6> QED  BY <6>2
        <5>8. ~RecordAdded
          BY <2>5 DEF RecordAdded, ProcessEnds
        <5> QED  BY <5>4, <5>5, <5>6, <5>7, <5>8, DiskChanges DEF DiskStep, Files
      <4>1. PICK f : Agrees(f) /\ Disk' = f
        BY <4>0
      <4>2. /\ DOMAIN f \subseteq DOMAIN run'
            /\ \A id \in DOMAIN f : id \notin Unwritten' => f[id] = run'[id]
        BY <3>1, <4>1
      <4> QED  BY <4>1, <4>2 DEF Agrees
    <3> QED  BY <3>2, <3>3
  <2> QED  BY <2>4, <2>5
<1> QED  BY <1>1, <1>2

(* Between two completions the files say nothing of a job but its present   *)
(* version: a crash there resurrects nothing, for any jobs and any number   *)
(* of checkpoints, failures and starts.                                     *)
THEOREM NothingIsStale ==
  ASSUME "reload" \in Uses => "add" \notin Uses /\ "late" \notin Uses
  PROVE  Spec => []NothingStale
<1>1. Init => Files /\ Settled /\ Fresh
  BY FilesInit, FreshInit
<1>2. Files /\ Settled /\ Fresh /\ [Next]_vars => (Files /\ Settled /\ Fresh)'
  BY FilesStep, SettledStep, FreshStep
<1>3. Files /\ Fresh => NothingStale
  <2> SUFFICES ASSUME Files, Fresh, phase = "up", client = "update", NEW id \in DOMAIN Recovered
               PROVE  id \in DOMAIN run /\ Recovered[id] = run[id]
    BY DEF NothingStale
  <2>1. Recovered = Disk /\ Unwritten = {}
    BY RecoveredMeaning DEF Files, Control, TypeOK, Unwritten, Busy
  <2> QED  BY <2>1 DEF Fresh, Agrees
<1> QED  BY <1>1, <1>2, <1>3, PTL DEF Spec

-----------------------------------------------------------------------------
(* ImplementsStore: the files, renames and segments are one log and one     *)
(* checkpoint.                                                              *)

(* What a .tmp holds before the first checkpoint, and the copy between two. *)
Temporary ==
  /\ at = "write" => tmp = Torn
  /\ json = NoFile /\ phase # "down" /\ at \notin {"write", "publish"} => tmp = NoFile
  /\ at \in {"off", "rotate", "snapshot"} => snap = NoJobs

LEMMA TemporaryInit == Init => Temporary
BY DEF Init, Temporary

LEMMA TemporaryStep ==
  ASSUME Files, Temporary, [Next]_vars
  PROVE  Temporary'
<1> USE DEF files, store, checkpoint, looping, clientVars, loading, history
<1>0. ASSUME ProcessEnds PROVE Temporary'
  BY <1>0 DEF ProcessEnds, Temporary
<1>1. ASSUME UNCHANGED <<json, tmp, at, snap>>, phase # "down" PROVE Temporary'
  BY <1>1 DEF Temporary
<1>2. CASE Start
  <2>1. at = "off" /\ at' = at /\ snap' = snap /\ tmp' = NoFile
    BY <1>2 DEF Start, Files, Control, TypeOK, Modes
  <2> QED  BY <2>1 DEF Temporary
<1>3. CASE Load
  <2>1. CASE ReadFails
    <3>1. CASE phase = "load"
      BY <1>0, <2>1, <3>1 DEF ReadFails
    <3>2. CASE phase # "load"
      BY <1>1, <2>1, <3>2 DEF ReadFails
    <3> QED  BY <3>1, <3>2
  <2>2. CASE ReplayActive
    <3>1. UNCHANGED <<json, tmp, snap>> /\ phase # "down"
      BY <2>2 DEF ReplayActive, Reads
    <3>2. at' = at \/ (at' = "snapshot" /\ at = "off")
      BY <2>2 DEF ReplayActive, Files, Control, Modes, TypeOK
    <3> QED  BY <1>1, <3>1, <3>2 DEF Temporary
  <2>3. CASE ReadCheckpoint \/ ListSealedSegments \/ ReplaySealed
    <3>1. phase # "down"
      BY <2>3 DEF ReadCheckpoint, ListSealedSegments, ReplaySealed, Reads, Files, Control, Modes
    <3> QED
      BY <1>1, <2>3, <3>1 DEF ReadCheckpoint, ListSealedSegments, ReplaySealed, Reads, StaysInPhase
  <2> QED  BY <1>3, <2>1, <2>2, <2>3 DEF Load
<1>4. CASE Checkpoint
  <2>1. at # "off" /\ phase # "down"
    BY <1>4 DEF Checkpoint, RotateLog, SnapshotRun, CreateTmp, WriteTmp, Publish, RemoveSegment,
       RemoveEnds, Reopen, Goes, Files, Control, TypeOK, Modes
  <2>2. CASE Publish
    <3>1. json' = snap /\ snap \in Content /\ at' = "remove"
      BY <2>2 DEF Publish, Goes, Files, Published, Control, TypeOK
    <3> QED  BY <3>1, FileKinds DEF Temporary
  <2>3. CASE Reopen
    BY <2>1, <2>3 DEF Reopen, Unlock, Temporary
  <2> QED
    BY <1>4, <2>1, <2>2, <2>3 DEF Checkpoint, RotateLog, SnapshotRun, CreateTmp, WriteTmp,
       RemoveSegment, RemoveEnds, Goes, Temporary
<1>5. CASE CheckpointFails
  <2>1. CASE mu = "open"
    BY <1>0, <1>5, <2>1 DEF CheckpointFails
  <2>2. CASE mu # "open"
    <3>1. phase = "up" /\ json # NoFile
      BY <1>5, <2>2 DEF CheckpointFails, Files, Control, TypeOK, Modes, Published
    <3> QED  BY <1>5, <2>2, <3>1 DEF CheckpointFails, Unlock, Temporary
  <2> QED  BY <2>1, <2>2
<1>6. CASE CheckpointLoop \/ Close \/ Closer \/ BackoffElapses
  <2>1. /\ UNCHANGED <<json, tmp, snap, phase>>
        /\ at' = at \/ (at = "off" /\ at' = "rotate")
    BY <1>6 DEF CheckpointLoop, LoopWakes, LoopRotates, LoopEnds, LoopStops, BackoffElapses, Close,
       Closer, CloseRotates, CloseAppendFile, Closes, LockAndClose, LoopOnly, Files, Control, TypeOK
  <2> QED  BY <2>1 DEF Temporary
<1>7. ASSUME NEW id \in Ids, AddJob(id) \/ CompleteJob(id) \/ KickJob(id) PROVE Temporary'
  BY <1>7 DEF AddJob, CompleteJob, KickJob, UpdateJob, RunOnly, Temporary
<1>8. CASE JobUpdateWrites \/ JobUpdateReturns \/ CheckpointSync \/ Deserialize
  <2>1. /\ UNCHANGED <<json, tmp, snap, phase>>
        /\ at' = at \/ (at = "off" /\ at' = "rotate")
    BY <1>8 DEF JobUpdateWrites, JobUpdateReturns, CheckpointSync, Deserialize, LockAndClose,
       Files, Control, TypeOK
  <2> QED  BY <2>1 DEF Temporary
<1>9. CASE JobUpdateRefused \/ JobUpdateFails \/ Exit \/ Crash \/ PowerLoss
  BY <1>0, <1>9 DEF JobUpdateRefused, JobUpdateFails, Exit, Crash, PowerLoss
<1>10. CASE UNCHANGED vars
  BY <1>10 DEF vars, Temporary
<1> QED  BY <1>2, <1>3, <1>4, <1>5, <1>6, <1>7, <1>8, <1>9, <1>10 DEF Next, Client

(* The state of the abstract store, in the terms of the lemmas above.      *)
Memory == IF phase \in {"materialize", "up"} THEN run ELSE Disk

Mapped == INSTANCE DurableStore WITH
  Values <- Version,
  Checkpoints <- {IF file = NoFile THEN NoJobs ELSE file : file \in InitialCheckpoints},
  memory <- Memory, base <- Base, logged <- Logged, copy <- snap, stage <- Stage

LEMMA StageMeaning ==
  ASSUME Control
  PROVE  /\ Stage \in {"none", "copied", "published"}
         /\ (Stage = "none") <=> (at \in {"off", "rotate", "snapshot"})
         /\ (Stage = "copied") <=> (at \in {"create", "write"} \/ (at = "publish" /\ json # NoFile))
BY DEF Stage, Control, TypeOK

LEMMA NothingIsNoJobs ==
  /\ Mapped!Nothing = NoJobs
  /\ \A f : DOMAIN f = {} /\ f \in Content => f = NoJobs
<1>1. Mapped!Nothing = NoJobs
  BY DEF Mapped!Nothing, NoJobs
<1>2. ASSUME NEW f, DOMAIN f = {}, f \in Content PROVE f = NoJobs
  <2>1. f = [x \in {} |-> f[x]]
    BY <1>2, ContentMeaning
  <2> QED  BY <2>1 DEF NoJobs
<1> QED  BY <1>1, <1>2

LEMMA SameMaps ==
  /\ \A f, id, v : Mapped!Put(f, id, v) = Put(f, id, v)
  /\ \A f, g : Mapped!Overlay(f, g) = Overlay(f, g)
BY DEF Mapped!Put, Put, Mapped!Overlay, Overlay

LEMMA MappedInit == Init => Mapped!Init
<1> SUFFICES ASSUME Init PROVE Mapped!Init
  OBVIOUS
<1>1. Control
  BY ControlInit
<1>2. Base = IF json = NoFile THEN NoJobs ELSE json
  BY FileKinds, StoreAssumption DEF Init, Base
<1>3. Base \in {IF file = NoFile THEN NoJobs ELSE file : file \in InitialCheckpoints}
  BY <1>2 DEF Init
<1>4. Written = <<>>
  BY EmptyIsThere DEF Init, Written, Synced, Lines
<1>5. Logged = NoJobs /\ Disk = Base
  <2>1. DOMAIN Logged = {} /\ Logged \in Content /\ Base \in Content
    BY <1>1, <1>4, SaidNothing, WrittenType, BaseType DEF Logged
  <2> QED  BY <2>1, NothingIsNoJobs, OverlayNothing DEF Disk
<1>6. Memory = Base /\ Stage = "none" /\ snap = NoJobs
  BY <1>1, <1>5, StageMeaning DEF Init, Memory
<1> QED  BY <1>3, <1>5, <1>6, NothingIsNoJobs DEF Mapped!Init

(* The process ends, in whatever way.                                      *)
LEMMA MappedCrash ==
  ASSUME Control, ProcessEnds,
         Base' = Base \/ (Stage = "copied" /\ Base' = snap),
         Logged' = Logged \/ \E id \in DOMAIN Memory : Logged' = Put(Logged, id, Memory[id])
  PROVE  Mapped!Crash
<1>1. Memory' = Disk' /\ snap' = NoJobs /\ Stage' = "none"
  BY DEF ProcessEnds, Memory, Stage
<1>2. Memory' = Overlay(Logged', Base')
  BY <1>1 DEF Disk
<1>3. Base' \in {Base} \cup (IF Stage = "copied" THEN {snap} ELSE {})
  OBVIOUS
<1>4. snap' = Mapped!Nothing
  BY <1>1, NothingIsNoJobs
<1> QED  BY <1>1, <1>2, <1>3, <1>4, SameMaps DEF Mapped!Crash

LEMMA MappedEnds ==
  ASSUME Files, [Next]_vars, ProcessEnds, UNCHANGED <<json, tmp>>
  PROVE  Mapped!Crash
<1>1. phase' = "down" /\ at' = "off" /\ Control /\ Published /\ Pending /\ Base' = Base
  BY BaseStays DEF ProcessEnds, Files, InMemory
<1>2. CASE RecordAdded
  <2>1. Logged' = Put(Logged, batch[k + 1].id, batch[k + 1].v) /\ Busy
    BY <1>2 DEF RecordAdded
  <2>2. batch[k + 1].id \in DOMAIN run /\ run[batch[k + 1].id] = batch[k + 1].v
    BY <1>1, <2>1, PendingRecord
  <2>3. Memory = run
    BY <1>1, <2>1 DEF Busy, Memory, Control, Modes
  <2> QED  BY <1>1, <2>1, <2>2, <2>3, MappedCrash
<1>3. CASE Logged' = Logged
  BY <1>1, <1>3, MappedCrash
<1>4. ~Publish /\ ~RemoveSegment
  BY <1>1 DEF Publish, RemoveSegment, Goes
<1> QED  BY <1>1, <1>2, <1>3, <1>4, DiskChanges DEF DiskStep

(* A step that the abstract store does not see.                            *)
LEMMA MappedStutter ==
  ASSUME Control, Control',
         UNCHANGED <<Base, Logged, snap>>,
         Stage' = Stage,
         phase' \in {"materialize", "up"} => phase \in {"materialize", "up"} /\ run' = run,
         phase' \notin {"materialize", "up"} => phase \notin {"materialize", "up"}
  PROVE  UNCHANGED Mapped!vars
BY DEF Mapped!vars, Memory, Disk

LEMMA MappedLoad ==
  ASSUME Files, Files', Settled, Temporary, [Next]_vars, Start \/ Load
  PROVE  [Mapped!Next]_(Mapped!vars)
<1> USE DEF files, store, checkpoint, looping, clientVars, loading, history
<1>0. Control /\ Control'
  BY DEF Files
<1>1. CASE Start
  <2>1. /\ Base' = Base /\ UNCHANGED <<active, sealed, mu, snap, at>> /\ at = "off"
        /\ phase = "down" /\ phase' = "load"
    BY <1>0, <1>1 DEF Start, Base, Control, Modes, TypeOK
  <2>2. Logged' = Logged /\ Stage' = "none" /\ Stage = "none"
    BY <2>1, LoggedStays DEF Stage
  <2> QED  BY <1>0, <2>1, <2>2, MappedStutter
<1>2. CASE ReadCheckpoint \/ ListSealedSegments \/ ReplaySealed
  <2>1. UNCHANGED <<json, tmp, active, sealed, mu, snap, at, phase, run>>
    BY <1>2 DEF ReadCheckpoint, ListSealedSegments, ReplaySealed, Reads, StaysInPhase
  <2>2. Logged' = Logged /\ Base' = Base /\ Stage' = Stage
    BY <2>1, LoggedStays, BaseStays DEF Stage
  <2> QED  BY <1>0, <2>1, <2>2, MappedStutter
<1>3. CASE ReplayActive
  <2>1. UNCHANGED <<json, tmp, active, sealed, snap>>
    BY <1>3 DEF ReplayActive, Reads
  <2>2. CASE phase = "load"
    <3>1. /\ phase' = "materialize" /\ mu = "free" /\ mu' = "open" /\ at = "off" /\ at' = "snapshot"
          /\ run' = Replay(found, Lines(active)) /\ reader = "sealed" /\ list = <<>>
      BY <1>0, <1>3, <2>2 DEF ReplayActive, ReplayedActive, Reads, Control, Modes, TypeOK
    <3>2. Logged' = Logged /\ Base' = Base /\ Stage' = "none" /\ Stage = "none"
      BY <2>1, <3>1, LoggedStays, BaseStays DEF Stage
    <3>3. Memory' = run' /\ Memory = Disk /\ run' = Disk
      BY <2>2, <3>1 DEF Memory, Files, InMemory, Loading
    <3> QED  BY <2>1, <3>2, <3>3 DEF Mapped!vars
  <2>3. CASE phase # "load"
    <3>1. phase = "up" /\ client = "reload" /\ UNCHANGED <<phase, mu, at>>
      BY <1>0, <1>3, <2>3 DEF ReplayActive, Reads, Control, Modes
    <3>2. run' = run
      BY <1>3, <2>3, <3>1, ReloadedRun DEF Settled, Files
    <3>3. Logged' = Logged /\ Base' = Base /\ Stage' = Stage
      BY <2>1, <3>1, LoggedStays, BaseStays DEF Stage
    <3> QED  BY <1>0, <2>1, <3>1, <3>2, <3>3, MappedStutter
  <2> QED  BY <2>2, <2>3
<1>4. CASE ReadFails
  <2>1. UNCHANGED <<json, tmp, active, sealed>>
    BY <1>4 DEF ReadFails
  <2>2. CASE phase = "load"
    <3>1. ProcessEnds
      BY <1>4, <2>2 DEF ReadFails
    <3> QED  BY <2>1, <3>1, MappedEnds DEF Mapped!Next
  <2>3. CASE phase # "load"
    <3>1. UNCHANGED <<phase, run, mu, at, snap>> /\ phase = "up"
      BY <1>4, <2>3 DEF ReadFails
    <3>2. Logged' = Logged /\ Base' = Base /\ Stage' = Stage
      BY <2>1, <3>1, LoggedStays, BaseStays DEF Stage
    <3> QED  BY <1>0, <2>1, <3>1, <3>2, MappedStutter
  <2> QED  BY <2>2, <2>3
<1> QED  BY <1>1, <1>2, <1>3, <1>4 DEF Load

LogIsContent == Logged \in Content

LEMMA LoggedType == Control => LogIsContent
BY WrittenType DEF LogIsContent

LEMMA MappedCheckpoint ==
  ASSUME Files, Files', Temporary, [Next]_vars, Checkpoint
  PROVE  [Mapped!Next]_(Mapped!vars)
<1> USE DEF files, store, checkpoint, looping, clientVars, loading, history
<1>0. Control /\ Control' /\ Published /\ at # "off" /\ phase \in {"materialize", "up"} /\ mu # "update"
  BY DEF Files, Checkpoint, RotateLog, SnapshotRun, CreateTmp, WriteTmp, Publish, RemoveSegment,
         RemoveEnds, Reopen, Goes, Control, TypeOK, Modes
<1>1. CASE RotateLog \/ RemoveEnds
  <2>1. UNCHANGED <<json, tmp, snap, phase, run>> /\ Stage' = Stage
    BY <1>1 DEF RotateLog, RemoveEnds, Goes, Stage
  <2>2. Logged' = Logged
    <3>1. ~Publish /\ ~RemoveSegment /\ ~RecordAdded
      BY <1>0, <1>1 DEF RotateLog, RemoveEnds, Publish, RemoveSegment, RecordAdded, Goes,
                        JobUpdateReturns, ProcessEnds
    <3> QED  BY <1>0, <3>1, DiskChanges DEF DiskStep
  <2>3. Base' = Base
    BY <2>1, BaseStays
  <2> QED  BY <1>0, <2>1, <2>2, <2>3, MappedStutter
<1>2. CASE SnapshotRun
  <2>1. UNCHANGED <<json, tmp, active, sealed, mu, phase, run>> /\ snap' = run /\ at = "snapshot" /\ at' = "create"
    BY <1>2 DEF SnapshotRun, Goes
  <2>2. Logged' = Logged /\ Base' = Base /\ Stage = "none" /\ Stage' = "copied"
    BY <2>1, LoggedStays, BaseStays DEF Stage
  <2>3. Memory = run /\ Memory' = run
    BY <1>0, <2>1 DEF Memory
  <2> QED  BY <2>1, <2>2, <2>3 DEF Mapped!Next, Mapped!Snapshot
<1>3. CASE CreateTmp
  <2>1. UNCHANGED <<json, active, sealed, mu, snap, phase, run>> /\ at = "create" /\ at' = "write" /\ tmp' = Torn
    BY <1>3 DEF CreateTmp, Goes
  <2>2. json = NoFile => tmp = NoFile
    BY <1>0, <2>1 DEF Temporary
  <2>3. Base' = Base /\ Logged' = Logged /\ Stage' = Stage
    BY <2>1, <2>2, LoggedStays DEF Base, Stage
  <2> QED  BY <1>0, <2>1, <2>3, MappedStutter
<1>4. CASE WriteTmp
  <2>1. /\ UNCHANGED <<json, active, sealed, mu, snap, phase, run>>
        /\ at = "write" /\ at' = "publish" /\ tmp' = snap /\ snap \in Content
    BY <1>0, <1>4 DEF WriteTmp, Goes, Control, TypeOK
  <2>2. Logged' = Logged
    BY <2>1, LoggedStays
  <2>3. CASE json = NoFile
    <3>1. Base' = snap /\ Stage = "copied" /\ Stage' = "published"
      BY <2>1, <2>3, FileKinds DEF Base, Stage
    <3>2. Memory' = Memory
      BY <1>0, <2>1 DEF Memory
    <3> QED  BY <2>1, <2>2, <3>1, <3>2 DEF Mapped!Next, Mapped!Publish
  <2>4. CASE json # NoFile
    <3>1. Base' = Base /\ Stage' = Stage
      BY <2>1, <2>4 DEF Base, Stage
    <3> QED  BY <1>0, <2>1, <2>2, <3>1, MappedStutter
  <2> QED  BY <2>3, <2>4
<1>5. CASE Publish
  <2>1. /\ UNCHANGED <<active, sealed, mu, snap, phase, run>>
        /\ at = "publish" /\ at' = "remove" /\ json' = snap /\ tmp = snap /\ snap \in Content
    BY <1>0, <1>5 DEF Publish, Goes, Published, Control, TypeOK
  <2>2. Logged' = Logged /\ Base' = snap /\ Stage' = "published"
    BY <2>1, FileKinds, LoggedStays DEF Base, Stage
  <2>3. CASE json = NoFile
    <3>1. Base = snap /\ Stage = "published"
      BY <2>1, <2>3, FileKinds DEF Base, Stage
    <3> QED  BY <1>0, <2>1, <2>2, <3>1, MappedStutter
  <2>4. CASE json # NoFile
    <3>1. Stage = "copied"
      BY <2>1, <2>4 DEF Stage
    <3>2. Memory' = Memory
      BY <1>0, <2>1 DEF Memory
    <3> QED  BY <2>1, <2>2, <3>1, <3>2 DEF Mapped!Next, Mapped!Publish
  <2> QED  BY <2>3, <2>4
<1>6. CASE RemoveSegment
  <2>1. UNCHANGED <<json, tmp, snap, phase, run>> /\ at = "remove" /\ at' = "remove"
    BY <1>6 DEF RemoveSegment, Goes
  <2>2. Base' = Base /\ Stage = "published" /\ Stage' = "published" /\ Memory' = Memory
    BY <1>0, <2>1, BaseStays DEF Stage, Memory
  <2>3. Logged' = Logged \/ DOMAIN Logged' = {}
    <3>1. ~Publish /\ ~RecordAdded
      BY <1>0, <2>1 DEF Publish, Goes, RecordAdded, JobUpdateReturns, ProcessEnds
    <3> QED  BY <1>0, <3>1, DiskChanges DEF DiskStep
  <2>4. Logged' \in Content
    <3>1. LogIsContent'
      BY <1>0, LoggedType, PTL
    <3> QED  BY <3>1 DEF LogIsContent
  <2>5. Logged' = Logged \/ Logged' = Mapped!Nothing
    BY <2>3, <2>4, NothingIsNoJobs
  <2> QED  BY <1>0, <2>1, <2>2, <2>5 DEF Mapped!Next, Mapped!Remove, Mapped!vars
<1>7. CASE Reopen
  <2>1. /\ UNCHANGED <<json, tmp, run>> /\ phase' = "up" /\ snap' = NoJobs
        /\ at = "reopen" /\ at' = "off"
    BY <1>7 DEF Reopen, Unlock
  <2>2. Base' = Base /\ Stage = "published" /\ Stage' = "none" /\ Memory' = Memory
    BY <1>0, <2>1, BaseStays DEF Stage, Memory
  <2>3. Logged' = Logged
    <3>1. ~Publish /\ ~RemoveSegment /\ ~RecordAdded
      BY <1>0, <2>1 DEF Publish, RemoveSegment, Goes, RecordAdded, JobUpdateReturns, ProcessEnds
    <3> QED  BY <1>0, <3>1, DiskChanges DEF DiskStep
  <2> QED  BY <2>1, <2>2, <2>3, NothingIsNoJobs DEF Mapped!Next, Mapped!EndCheckpoint
<1> QED  BY <1>1, <1>2, <1>3, <1>4, <1>5, <1>6, <1>7 DEF Checkpoint

LEMMA MappedFails ==
  ASSUME Files, Files', Temporary, [Next]_vars, CheckpointFails
  PROVE  [Mapped!Next]_(Mapped!vars)
<1> USE DEF files, store, checkpoint, looping, clientVars, loading, history
<1>1. /\ Control /\ Control' /\ Published /\ at # "off" /\ phase \in {"materialize", "up"}
      /\ UNCHANGED <<json, active, sealed>> /\ mu # "update" /\ mu' # "update"
  BY DEF Files, CheckpointFails, Unlock, ProcessEnds, Control, TypeOK, Modes
<1>2. Logged' = Logged
  BY <1>1, LoggedStays
<1>3. CASE mu = "open"
  <2>1. ProcessEnds
    BY <1>3 DEF CheckpointFails
  <2>2. Base' = Base \/ (Stage = "copied" /\ Base' = snap)
    <3>1. CASE at = "write" /\ json = NoFile
      <4>1. tmp = Torn /\ tmp' \in {NoFile, Torn, snap} /\ Stage = "copied" /\ snap \in Content
        BY <1>1, <3>1 DEF CheckpointFails, Temporary, Stage, Control, TypeOK
      <4> QED  BY <1>1, <3>1, <4>1, FileKinds DEF Base
    <3>2. CASE ~(at = "write" /\ json = NoFile)
      BY <1>1, <3>2, BaseStays DEF CheckpointFails
    <3> QED  BY <3>1, <3>2
  <2> QED  BY <1>1, <1>2, <2>1, <2>2, MappedCrash DEF Mapped!Next
<1>4. CASE mu # "open"
  <2>1. phase = "up" /\ UNCHANGED <<phase, run>> /\ snap' = NoJobs /\ at' = "off"
    BY <1>1, <1>4 DEF CheckpointFails, Unlock, Control, Modes
  <2>2. Base' = Base /\ Memory' = Memory /\ Stage' = "none"
    BY <1>1, <2>1, BaseStays DEF Memory, Published, Stage
  <2>3. CASE Stage = "none"
    <3>1. snap = NoJobs
      BY <1>1, <2>3, StageMeaning DEF Temporary
    <3> QED  BY <1>1, <1>2, <2>1, <2>2, <2>3, <3>1, MappedStutter
  <2>4. CASE Stage # "none"
    BY <1>2, <2>1, <2>2, <2>4, NothingIsNoJobs DEF Mapped!Next, Mapped!EndCheckpoint
  <2> QED  BY <2>3, <2>4
<1> QED  BY <1>3, <1>4

LEMMA MappedLoop ==
  ASSUME Files, Files', Temporary, [Next]_vars,
         CheckpointLoop \/ BackoffElapses \/ Close \/ Closer \/ CheckpointSync \/ Deserialize
  PROVE  UNCHANGED Mapped!vars
<1> USE DEF files, store, checkpoint, looping, clientVars, loading, history
<1>1. Control /\ Control'
  BY DEF Files
<1>2. /\ UNCHANGED <<json, tmp, active, sealed, phase, run, snap>>
      /\ (mu = "update") <=> (mu' = "update")
      /\ at' = at \/ (at = "off" /\ at' = "rotate")
  BY <1>1 DEF CheckpointLoop, LoopWakes, LoopRotates, LoopEnds, LoopStops, BackoffElapses, Close,
     Closer, CloseRotates, CloseAppendFile, Closes, LockAndClose, LoopOnly, CheckpointSync, Deserialize,
     Control, TypeOK
<1>3. Logged' = Logged /\ Base' = Base /\ Stage' = Stage
  BY <1>2, LoggedStays, BaseStays DEF Stage
<1> QED  BY <1>1, <1>2, <1>3, MappedStutter

LEMMA MappedClient ==
  ASSUME Files, Files', Temporary, [Next]_vars, Client
  PROVE  [Mapped!Next]_(Mapped!vars)
<1> USE DEF files, store, checkpoint, looping, clientVars, loading, history
<1>0. Control /\ Control' /\ Published /\ Pending
  BY DEF Files, InMemory
<1>1. ASSUME NEW id \in Ids, RunGrows(id) PROVE Mapped!Next
  <2>1. /\ phase = "up" /\ UNCHANGED <<json, tmp, active, sealed, phase, snap, at, mu>>
        /\ \E v \in Version : run' = Put(run, id, v)
    <3>1. CASE AddJob(id)
      BY <1>0, <3>1, StoreAssumption DEF AddJob, Idle, RunOnly, Control, Modes, Version
    <3>2. CASE ~AddJob(id)
      <4>1. /\ phase = "up" /\ RunOnly /\ run' = Put(run, id, NextVersion(id))
            /\ NextVersion(id) <= MaxVersion
        BY <1>0, <1>1, <3>2 DEF RunGrows, CompleteJob, KickJob, UpdateJob, Idle, Control, Modes
      <4>2. NextVersion(id) \in Version
        BY <1>0, <4>1, NextVersionType
      <4> QED  BY <4>1, <4>2 DEF RunOnly
    <3> QED  BY <3>1, <3>2
  <2>2. Base' = Base /\ Logged' = Logged /\ Stage' = Stage
    BY <2>1, LoggedStays, BaseStays DEF Stage
  <2>3. Memory = run /\ Memory' = run'
    BY <2>1 DEF Memory
  <2>4. Mapped!Update
    BY <2>1, <2>2, <2>3, SameMaps DEF Mapped!Update
  <2> QED  BY <2>4 DEF Mapped!Next
<1>2. CASE JobUpdateWrites
  <2>1. /\ UNCHANGED <<json, tmp, snap, phase, run, at>> /\ phase = "up" /\ mu = "free" /\ json # NoFile
    BY <1>0, <1>2 DEF JobUpdateWrites, Persists, Control, Modes, Published
  <2>2. ~RecordAdded /\ ~Publish /\ ~RemoveSegment
    <3>1. at = "off"
      BY <1>0, <2>1 DEF Control, TypeOK
    <3> QED
      BY <1>2, <2>1, <3>1 DEF RecordAdded, JobUpdateReturns, ProcessEnds, Publish, RemoveSegment, Goes
  <2>3. Logged' = Logged
    BY <1>0, <2>2, DiskChanges DEF DiskStep
  <2>4. Base' = Base /\ Stage' = Stage
    BY <2>1, BaseStays DEF Stage
  <2> QED  BY <1>0, <2>1, <2>3, <2>4, MappedStutter
<1>3. CASE JobUpdateReturns
  <2> DEFINE r == batch[k + 1]
  <2>1. /\ Busy /\ mu = "update" /\ mu' # "update" /\ phase = "up" /\ at = "off"
        /\ UNCHANGED <<json, tmp, active, sealed, snap, phase, run, at>>
    <3>1. mu = "update" /\ client = "sync" /\ phase = "up" /\ at = "off"
      BY <1>0, <1>3 DEF JobUpdateReturns, Control, TypeOK, Modes
    <3> QED  BY <1>3, <3>1 DEF JobUpdateReturns, Busy
  <2>2. Logged' = Put(Logged, r.id, r.v) /\ Base' = Base /\ Stage = "none" /\ Stage' = "none"
    BY <1>0, <2>1, LoggedGrows, BaseStays DEF Stage
  <2>3. r.id \in DOMAIN run /\ run[r.id] = r.v
    BY <1>0, <2>1, PendingRecord
  <2>4. Memory = run /\ Memory' = run
    BY <2>1 DEF Memory
  <2> HIDE DEF r
  <2>5. Mapped!Append(r.id) /\ r.id \in DOMAIN Memory
    BY <2>1, <2>2, <2>3, <2>4, SameMaps DEF Mapped!Append
  <2> QED  BY <2>5 DEF Mapped!Next
<1>4. CASE JobUpdateRefused \/ JobUpdateFails
  <2>1. ProcessEnds /\ UNCHANGED <<json, tmp>>
    BY <1>4 DEF JobUpdateRefused, JobUpdateFails
  <2> QED  BY <2>1, MappedEnds DEF Mapped!Next
<1> QED  BY <1>1, <1>2, <1>3, <1>4, MappedLoop DEF Client, RunGrows

LEMMA MappedNext ==
  ASSUME Files, Files', Settled, Temporary, [Next]_vars
  PROVE  [Mapped!Next]_(Mapped!vars)
<1> USE DEF files, store, checkpoint, looping, clientVars, loading, history
<1>1. CASE Crash \/ PowerLoss \/ Exit
  <2>1. ProcessEnds /\ UNCHANGED <<json, tmp>>
    BY <1>1 DEF Crash, PowerLoss, Exit
  <2> QED  BY <2>1, MappedEnds DEF Mapped!Next
<1>2. CASE UNCHANGED vars
  <2>1. UNCHANGED <<json, tmp, active, sealed, mu, phase, run, snap, at>>
    BY <1>2 DEF vars
  <2>2. Base' = Base /\ Logged' = Logged /\ Stage' = Stage
    BY <2>1, LoggedStays, BaseStays DEF Stage
  <2> QED  BY <2>1, <2>2, MappedStutter DEF Files
<1> QED
  BY <1>1, <1>2, MappedLoad, MappedCheckpoint, MappedFails, MappedLoop, MappedClient DEF Next

(* The abstract store sees the same values as its instance in              *)
(* JsonSerializer: there, too, the segments together are the one log.      *)
LEMMA SameStore == Control => Appended(Synced) = Logged
<1> SUFFICES ASSUME Control PROVE Appended(Synced) = Logged
  OBVIOUS
<1>1. Synced \in Seq(Line) /\ (DOMAIN sealed # {} => Synced = <<>>)
  BY SyncedType DEF Control, OneLog, Lines
<1> QED  BY <1>1, AppendedMeaning DEF Logged, Written

SameViews ==
  /\ Appended(Synced) = Logged
  /\ (IF phase \in {"materialize", "up"} THEN run ELSE Overlay(Appended(Synced), Base)) = Memory

LEMMA SameView == Control => SameViews
BY SameStore DEF SameViews, Memory, Disk

LEMMA SameInit == Control /\ Mapped!Init => Store!Init
BY SameView DEF SameViews, Mapped!Init, Store!Init, Mapped!Nothing, Store!Nothing

LEMMA SameNext == Control /\ Control' /\ [Mapped!Next]_(Mapped!vars) => [Store!Next]_(Store!vars)
<1> SUFFICES ASSUME Control, Control', [Mapped!Next]_(Mapped!vars) PROVE [Store!Next]_(Store!vars)
  OBVIOUS
<1>1. /\ Appended(Synced) = Logged
      /\ (IF phase \in {"materialize", "up"} THEN run ELSE Overlay(Appended(Synced), Base)) = Memory
  BY SameView DEF SameViews
<1>2. /\ Appended(Synced)' = Logged'
      /\ (IF phase \in {"materialize", "up"} THEN run ELSE Overlay(Appended(Synced), Base))' = Memory'
  <2>1. SameViews'
    BY SameView, PTL
  <2> QED  BY <2>1 DEF SameViews
<1>3. /\ \A f, id, v : Store!Put(f, id, v) = Mapped!Put(f, id, v)
      /\ \A f, g : Store!Overlay(f, g) = Mapped!Overlay(f, g)
      /\ Store!Nothing = Mapped!Nothing
  BY DEF Mapped!Put, Store!Put, Mapped!Overlay, Store!Overlay, Mapped!Nothing, Store!Nothing
<1>4. CASE UNCHANGED Mapped!vars
  BY <1>1, <1>2, <1>4 DEF Mapped!vars, Store!vars
<1>5. CASE Mapped!Update
  BY <1>1, <1>2, <1>3, <1>5 DEF Mapped!Update, Store!Update, Store!Next
<1>6. ASSUME NEW id \in DOMAIN Memory, Mapped!Append(id) PROVE Store!Next
  BY <1>1, <1>2, <1>3, <1>6 DEF Mapped!Append, Store!Append, Store!Next
<1>7. CASE Mapped!Snapshot
  BY <1>1, <1>2, <1>3, <1>7 DEF Mapped!Snapshot, Store!Snapshot, Store!Next
<1>8. CASE Mapped!Publish
  BY <1>1, <1>2, <1>3, <1>8 DEF Mapped!Publish, Store!Publish, Store!Next
<1>9. CASE Mapped!Remove
  BY <1>1, <1>2, <1>3, <1>9 DEF Mapped!Remove, Store!Remove, Store!Next
<1>10. CASE Mapped!EndCheckpoint
  BY <1>1, <1>2, <1>3, <1>10 DEF Mapped!EndCheckpoint, Store!EndCheckpoint, Store!Next
<1>11. CASE Mapped!Crash
  BY <1>1, <1>2, <1>3, <1>11 DEF Mapped!Crash, Store!Crash, Store!Next
<1> QED  BY <1>4, <1>5, <1>6, <1>7, <1>8, <1>9, <1>10, <1>11 DEF Mapped!Next

(* The store on disk implements a checkpoint and a log that change in one   *)
(* step each: no order of writes, renames, removals, failures and crashes   *)
(* shows a reader anything else, in a program that calls Deserialize at     *)
(* most before its first change of the Run.                                 *)
THEOREM StoreIsDurable ==
  ASSUME "reload" \in Uses => "add" \notin Uses /\ "late" \notin Uses
  PROVE  Spec => ImplementsStore
<1> DEFINE Inv == Files /\ Settled /\ Temporary
<1>1. Init => Inv /\ Control /\ Mapped!Init
  BY FilesInit, FreshInit, TemporaryInit, ControlInit, MappedInit
<1>2. Inv /\ [Next]_vars => Inv'
  BY FilesStep, SettledStep, TemporaryStep
<1>3. Inv /\ Inv' /\ [Next]_vars => [Store!Next]_(Store!vars)
  <2> SUFFICES ASSUME Inv, Inv', [Next]_vars PROVE [Store!Next]_(Store!vars)
    OBVIOUS
  <2>1. [Mapped!Next]_(Mapped!vars)
    BY MappedNext
  <2> QED  BY <2>1, SameNext DEF Files
<1> QED  BY <1>1, <1>2, <1>3, SameInit, PTL DEF Spec, ImplementsStore, Store!Spec

=============================================================================
