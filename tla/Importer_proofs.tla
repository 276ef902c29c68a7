-------------------------- MODULE Importer_proofs --------------------------
(***************************************************************************)
(* The safety of Importer, for any batches, paths and contents, and for    *)
(* any number of edits and of imports that are cut short.                  *)
(*                                                                         *)
(* An import looks at all paths of a list before it takes the first file,  *)
(* and decides by what it has seen, by its record of the files that were   *)
(* successful before (members) and by the results of this run.  The parts  *)
(* of IInv say what these three are worth to the rows of the batch.        *)
(*                                                                         *)
(* At the end: the safety of Association, by which the lines of one file   *)
(* become events.                                                          *)
(***************************************************************************)
EXTENDS Importer, Association, FiniteSetTheorems, WellFoundedInduction, TLAPS

(* A path contains what people put there, or cannot be read; what was seen *)
(* of it is a content, a mix, or that it cannot be read.                   *)
DiskInv ==
    /\ \A p \in Path : content[p] \in Content \cup {p} /\ stamp[p] <= edits
    /\ \A p \in Path :
          /\ seen[p].file \in Content \cup {Torn, p}
          /\ seen[p].file = p => seen[p].failure = "file_unreadable"

(* The batch of the import that runs, and only that one, is being written. *)
RunInv ==
    /\ pc = "idle" => members = {}
    /\ pc \in {"idle", "observe"} => results = {}
    /\ pc # "idle" => Paths # <<>> /\ batch[cur] = "processing"

(* A successful entry is of an imported file, an imported file is what was *)
(* read, and a complete batch has no other entries.                        *)
EntryInv ==
    /\ \A b \in Batch, f \in File :
          entry[b][f] \in Good => f \in Content /\ imported[f] # NoBatch
    /\ \A f \in Content : stored[f] = f
    /\ \A b \in Batch, f \in File :
          batch[b] = "complete" => entry[b][f] \in Good \cup {"none"}

(* An attempt that has not failed when it began may import its file, and   *)
(* one that the entry points to does not replace a member.                 *)
AttemptInv ==
    pc = "attempt" =>
        /\ failure = "none" =>
              ~MembersGone /\ ~OriginChanged /\ seen[This].failure = "none"
        /\ MembersGone => failure = "batch_member_changed"
        /\ linked => Fid \notin members

(* The paths that the run has done with. *)
Passed ==
    CASE pc \in {"file", "attempt"} -> 1 .. at - 1
      [] pc = "reconcile"           -> 1 .. Len(Paths)
      [] OTHER                      -> {}

(* Every path that is done with has a result, every result is of a path,   *)
(* and every successful entry is a member or has a result.                 *)
ResultsInv ==
    /\ \A r \in results :
          /\ r.file \in Current
          /\ r.state \in Good => entry[cur][r.file] # "none"
    /\ \A i \in Passed : \E r \in results :
          /\ r.file = seen[Paths[i]].file
          /\ MembersGone => r.state = "conflict"
    /\ pc # "idle" => \A f \in File :
          entry[cur][f] \in Good => f \in members \/ \E r \in results : r.file = f

IInv ==
    /\ TypeOK /\ DiskInv /\ RunInv /\ EntryInv /\ AttemptInv /\ ResultsInv
    /\ MembersStay /\ ImportedAreDistinct

-----------------------------------------------------------------------------
(* Facts about the constants, the next file and the steps. *)

(* What the assumptions say, as plain facts. *)
LEMMA Constants ==
    /\ Torn \notin Content /\ Torn \notin Path /\ Content \cap Path = {}
    /\ \A b \in Batch : Manifests[b] \subseteq Seq(Path) \ {<<>>}
    /\ Delivered \subseteq [Path -> Content]
    /\ MaxEdits \in Nat /\ MaxFaults \in Nat /\ NoBatch \notin Batch
BY ImporterAssumption, NoBatchAssumption

(* While an import runs, it is at a path of its list. *)
LEMMA HereIs ==
    ASSUME TypeOK, RunInv, pc # "idle"
    PROVE  /\ cur \in Batch /\ frozen[cur] \in Manifests[cur]
           /\ Paths \in Seq(Path) /\ Len(Paths) \in Nat /\ at \in Nat
           /\ 1 <= at /\ at <= Len(Paths)
           /\ This \in Path /\ Fid \in File /\ Fid \in Current
<1>1. cur \in Batch /\ frozen[cur] \in Manifests[cur]
  BY Constants DEF TypeOK, RunInv, Paths
<1>2. Paths \in Seq(Path)
  BY <1>1, Constants DEF Paths
<1>3. Len(Paths) \in Nat /\ at \in Nat /\ 1 <= at /\ at <= Len(Paths)
  BY <1>2 DEF TypeOK
<1>4. This \in Path /\ at \in DOMAIN Paths
  BY <1>2, <1>3 DEF This
<1>5. Fid \in File
  BY <1>4 DEF Fid, TypeOK
<1>6. This \in ToSet(Paths)
  BY <1>4 DEF This, ToSet
<1> QED
  BY <1>1, <1>2, <1>3, <1>4, <1>5, <1>6 DEF Fid, Current

(* Only the path that was taken next is another one. *)
LEMMA SeenStays ==
    ASSUME frozen' = frozen, cur' = cur, seen' = seen
    PROVE  /\ Paths' = Paths /\ Current' = Current
           /\ at' = at => This' = This /\ Fid' = Fid
           /\ members' = members => MembersGone' = MembersGone
           /\ at' = at /\ imported' = imported /\ keys' = keys => OriginChanged' = OriginChanged
BY DEF Paths, Current, This, Fid, MembersGone, OriginChanged

(* The paths of a run are those of its frozen manifest. *)
LEMMA PathsStay == ASSUME frozen' = frozen, cur' = cur PROVE Paths' = Paths
BY DEF Paths

(* The place after this one is a place too. *)
LEMMA NextPlace ==
    ASSUME TypeOK, RunInv, pc # "idle"
    PROVE  (IF at = Len(Paths) THEN 1 ELSE at + 1) \in 1 .. Len(Paths)
BY HereIs

(* What a run that ends forgets, and what is recovered or kept of entries. *)
LEMMA Forgotten ==
    [p \in Path |-> Unseen] \in [Path -> [file : File, failure : Reasons, stamp : 0 .. MaxEdits]]
<1>1. Unseen \in [file : File, failure : Reasons, stamp : 0 .. MaxEdits]
  BY Constants DEF Unseen, File, Reasons
<1> QED
  BY <1>1

(* Recovered: entries that were running are interrupted, the others stay. *)
LEMMA RecoveredIs ==
    ASSUME TypeOK
    PROVE  /\ Recovered \in [Batch -> [File -> States \cup {"none"}]]
           /\ \A b \in Batch, f \in File :
                 /\ entry[b][f] # "running" => Recovered[b][f] = entry[b][f]
                 /\ entry[b][f] = "running" => Recovered[b][f] = "interrupted"
BY DEF TypeOK, Recovered, States

(* Kept: of the entries of the run, only some that did not succeed go. *)
LEMMA KeptIs ==
    ASSUME TypeOK, RunInv, pc # "idle"
    PROVE  /\ Kept \in [File -> States \cup {"none"}]
           /\ \A f \in File : Kept[f] \in {entry[cur][f], "none"}
           /\ \A f \in File : entry[cur][f] \in Good => Kept[f] = entry[cur][f]
<1> USE HereIs DEF TypeOK
<1>1. CASE MembersGone
  BY <1>1 DEF Kept
<1>2. CASE ~MembersGone
  BY <1>2 DEF Kept
<1> QED
  BY <1>1, <1>2

(* The entry of one file of one batch is written. *)
LEMMA EntrySet ==
    ASSUME TypeOK, NEW b \in Batch, NEW f \in File, NEW state \in States \cup {"none"},
           entry' = [entry EXCEPT ![b][f] = state]
    PROVE  /\ entry' \in [Batch -> [File -> States \cup {"none"}]]
           /\ entry'[b][f] = state
           /\ \A c \in Batch, g \in File :
                 c # b \/ g # f => entry'[c][g] = entry[c][g]
BY DEF TypeOK

(* Writing to a path. *)
LEMMA WriteIs ==
    ASSUME TypeOK, DiskInv, NEW p \in Path, Write(p)
    PROVE  /\ content' \in [Path -> Content \cup Path]
           /\ stamp' \in [Path -> 0 .. MaxEdits] /\ edits' \in 0 .. MaxEdits
           /\ \A q \in Path : content'[q] \in Content \cup {q} /\ stamp'[q] <= edits'
<1>1. PICK c \in Content \cup {p} : content' = [content EXCEPT ![p] = c]
  BY DEF Write
<1>2. /\ content' \in [Path -> Content \cup Path]
      /\ \A q \in Path : content'[q] \in Content \cup {q}
  BY <1>1 DEF TypeOK, DiskInv
<1>3. edits \in Nat /\ edits' = edits + 1 /\ edits' \in 0 .. MaxEdits
  BY Constants DEF Write, TypeOK
<1>4. \A q \in Path : stamp[q] \in Nat /\ stamp[q] <= edits
  BY DEF TypeOK, DiskInv
<1>5. stamp' = [stamp EXCEPT ![p] = stamp[p] + 1] /\ stamp \in [Path -> 0 .. MaxEdits]
  BY DEF Write, TypeOK
<1>6. \A q \in Path : stamp'[q] \in Nat /\ stamp'[q] <= edits'
  BY <1>3, <1>4, <1>5
<1>7. stamp' \in [Path -> 0 .. MaxEdits]
  <2>1. \A q \in Path : stamp'[q] \in 0 .. MaxEdits
    BY <1>3, <1>6, Constants
  <2> QED
    BY <1>5, <2>1
<1> QED
  BY <1>2, <1>3, <1>6, <1>7

(* Looking at a path: a path that is taken for a file cannot be read. *)
Looked ==
    /\ pc = "observe"
    /\ \E file \in Content \cup {Torn, This}, reason \in Reasons, s \in 0 .. MaxEdits :
          Observed(file, reason, s) /\ (file = This => reason = "file_unreadable")
    /\ This \in Path /\ (UNCHANGED disk \/ Write(This))
    /\ UNCHANGED <<frozen, batch, entry, done, cur, members, linked, failure, results, faults>>

(* Observe, whatever was seen of the file. *)
LEMMA ObserveIs == ASSUME TypeOK, DiskInv, RunInv, Observe PROVE Looked
<1>1. This \in Path /\ Torn # This
  BY HereIs, Constants DEF Observe
<1>2. content[This] \in Content \cup {This} /\ stamp[This] \in 0 .. MaxEdits
  BY <1>1 DEF TypeOK, DiskInv
<1>3. CASE Observed(content[This], IF content[This] = This THEN "file_unreadable" ELSE "none",
                    stamp[This])
  <2> DEFINE reason == IF content[This] = This THEN "file_unreadable" ELSE "none"
  <2>1. reason \in Reasons /\ (content[This] = This => reason = "file_unreadable")
    BY DEF Reasons
  <2>2. Observed(content[This], reason, stamp[This])
    BY <1>3
  <2> HIDE DEF reason
  <2>3. UNCHANGED disk \/ Write(This)
    BY DEF Observe
  <2> QED
    BY <1>1, <1>2, <2>1, <2>2, <2>3 DEF Looked, Observe
<1>4. CASE /\ content[This] # This /\ Write(This)
           /\ IF content'[This] = This
              THEN Observed(This, "file_unreadable", stamp'[This])
              ELSE \E f \in {content[This], content'[This], Torn} :
                      Observed(f, Changed, stamp'[This])
  <2>1. content'[This] \in Content \cup {This} /\ stamp'[This] \in 0 .. MaxEdits
    BY <1>1, <1>4, WriteIs
  <2>2. "file_unreadable" \in Reasons /\ Changed \in Reasons
    BY DEF Reasons
  <2>3. CASE content'[This] = This /\ Observed(This, "file_unreadable", stamp'[This])
    BY <1>1, <1>4, <2>1, <2>2, <2>3 DEF Looked, Observe
  <2>4. CASE /\ content'[This] # This
             /\ \E f \in {content[This], content'[This], Torn} : Observed(f, Changed, stamp'[This])
    <3>1. PICK f \in {content[This], content'[This], Torn} : Observed(f, Changed, stamp'[This])
      BY <2>4
    <3>2. f # This /\ f \in Content \cup {Torn, This}
      BY <1>1, <1>2, <1>4, <2>1, <2>4
    <3> QED
      BY <1>1, <1>4, <2>1, <2>2, <3>1, <3>2 DEF Looked, Observe
  <2> QED
    BY <1>4, <2>3, <2>4
<1> QED
  BY <1>3, <1>4 DEF Observe

(* An attempt ends without an import, in four ways; a file of a batch with *)
(* members gone is a conflict.                                             *)
Failing ==
    /\ pc = "attempt"
    /\ \E state \in {"failed", "conflict"} :
          Ended(state) /\ NextFile(state) /\ (MembersGone => state = "conflict")
    /\ faults' \in 0 .. MaxFaults
    /\ UNCHANGED <<disk, frozen, batch, done, cur, members, seen>>

(* The four ways in which a file fails are one. *)
LEMMA FailingIs ==
    ASSUME TypeOK, AttemptInv, FailFile \/ OverlapFails \/ ReadFails \/ ProcessingFails
    PROVE  Failing
<1>1. faults' \in 0 .. MaxFaults
  BY Constants DEF TypeOK, FailFile, OverlapFails, ReadFails, ProcessingFails, FileFails,
     Fault
<1>2. CASE FailFile
  BY <1>1, <1>2 DEF FailFile, FileFails, Failing, AttemptInv
<1>3. CASE OverlapFails \/ ReadFails
  BY <1>1, <1>3 DEF OverlapFails, ReadFails, FileFails, Failing, AttemptInv
<1>4. CASE ProcessingFails
  BY <1>1, <1>4 DEF ProcessingFails, Failing, AttemptInv
<1> QED
  BY <1>2, <1>3, <1>4

(* The steps, one by one. *)
LEMMA Steps ==
    ASSUME TypeOK, DiskInv, RunInv, AttemptInv, Next
    PROVE  \/ Edit \/ Looked \/ Duplicate \/ Attempt \/ Failing \/ Import \/ Reconcile
           \/ Interrupted \/ Stopped
           \/ \E b \in Batch : Register(b)
           \/ \E b \in Batch : Reject(b)
BY FailingIs, ObserveIs DEF Next, Run

-----------------------------------------------------------------------------
(* The steps and the types.                                                *)

DiskType ==
    /\ content \in [Path -> Content \cup Path] /\ stamp \in [Path -> 0 .. MaxEdits]
    /\ edits \in 0 .. MaxEdits
SeenType == seen \in [Path -> [file : File, failure : Reasons, stamp : 0 .. MaxEdits]]
BatchType ==
    /\ DOMAIN frozen = Batch /\ \A b \in Batch : frozen[b] \in Manifests[b] \cup {<<>>}
    /\ batch \in [Batch -> {"none", "processing", "complete", "failed", "conflict"}]
EntryType == entry \in [Batch -> [File -> States \cup {"none"}]]
DoneType ==
    /\ imported \in [Content -> Batch \cup {NoBatch}]
    /\ stored \in [Content -> Content \cup Path]
    /\ DOMAIN keys = Content
    /\ \A f \in Content : keys[f] \subseteq {Key[p] : p \in Path} \ {NoKey}
PlaceType ==
    /\ pc \in {"idle", "observe", "file", "attempt", "reconcile"}
    /\ cur \in Batch \cup {NoBatch} /\ (pc = "idle" <=> cur = NoBatch)
    /\ pc # "idle" => at \in 1 .. Len(Paths)
RunType ==
    /\ members \subseteq Content
    /\ linked \in BOOLEAN /\ failure \in Reasons
    /\ \A r \in results : r.file \in File /\ r.state \in States \ {"running"}
    /\ faults \in 0 .. MaxFaults

(* The types are their parts. *)
LEMMA TypeParts ==
    TypeOK <=> /\ DiskType /\ SeenType /\ BatchType /\ EntryType /\ DoneType
               /\ PlaceType /\ RunType
BY DEF TypeOK, DiskType, SeenType, BatchType, EntryType, DoneType, PlaceType, RunType

(* What NextFile leaves has its type. *)
LEMMA ResultAdded ==
    ASSUME TypeOK, RunInv, pc # "idle", NEW state \in States \ {"running"}, NextFile(state)
    PROVE  /\ linked' \in BOOLEAN /\ failure' \in Reasons
           /\ \A r \in results' : r.file \in File /\ r.state \in States \ {"running"}
<1>1. linked' \in BOOLEAN /\ failure' \in Reasons
  BY DEF NextFile, Reasons
<1>2. Fid \in File
  BY HereIs
<1>3. results' = results \cup {[file |-> Fid, state |-> state]}
  BY DEF NextFile
<1>4. \A r \in results : r.file \in File /\ r.state \in States \ {"running"}
  BY DEF TypeOK
<1> QED
  BY <1>1, <1>2, <1>3, <1>4

(* What the end of a run leaves has its type. *)
LEMMA RunForgets ==
    RunEnds => /\ members' = {} /\ linked' \in BOOLEAN /\ failure' \in Reasons /\ results' = {}
BY DEF RunEnds, Reasons

(* A fault counts. *)
LEMMA Grows == MaxFaults \in Nat /\ faults \in 0 .. MaxFaults /\ Fault => faults' \in 0 .. MaxFaults
BY DEF Fault

-----------------------------------------------------------------------------
(* The steps and the other parts of the invariant.                         *)

(* Entries of other batches than the one that runs stay what they are, and *)
(* a batch is not complete while it runs.                                  *)
LEMMA EntryWritten ==
    ASSUME TypeOK, RunInv, EntryInv, pc # "idle", NEW state \in States,
           entry' = [entry EXCEPT ![cur][Fid] = state],
           batch' = batch \/ batch' = [batch EXCEPT ![cur] = "failed"],
           \A f \in Content : imported[f] # NoBatch => imported'[f] # NoBatch,
           \A f \in Content : stored'[f] = f,
           state \in Good => Fid \in Content /\ imported'[Fid] # NoBatch
    PROVE  EntryInv'
<1>1. cur \in Batch /\ Fid \in File /\ batch[cur] = "processing"
  BY HereIs DEF RunInv
<1>2. \A b \in Batch : batch'[b] = "complete" => batch[b] = "complete" /\ b # cur
  BY <1>1 DEF TypeOK
<1>3. /\ entry'[cur][Fid] = state
      /\ \A b \in Batch, f \in File : b # cur \/ f # Fid => entry'[b][f] = entry[b][f]
  <2>1. entry \in [Batch -> [File -> States \cup {"none"}]]
    BY DEF TypeOK
  <2> QED
    BY <1>1, <2>1
<1>4. ASSUME NEW b \in Batch, NEW f \in File, entry'[b][f] \in Good
      PROVE  f \in Content /\ imported'[f] # NoBatch
  <2>1. CASE b = cur /\ f = Fid
    BY <1>3, <1>4, <2>1
  <2>2. CASE b # cur \/ f # Fid
    BY <1>3, <1>4, <2>2 DEF EntryInv
  <2> QED
    BY <2>1, <2>2
<1>5. ASSUME NEW b \in Batch, NEW f \in File, batch'[b] = "complete"
      PROVE  entry'[b][f] \in Good \cup {"none"}
  BY <1>2, <1>3, <1>5 DEF EntryInv
<1> QED
  BY <1>4, <1>5 DEF EntryInv

(* What is imported was read from a file that could be read. *)
LEMMA ImportedIsContent ==
    ASSUME TypeOK, DiskInv, RunInv, AttemptInv, Import PROVE Fid \in Content
<1>1. This \in Path /\ content[This] = Fid
  BY HereIs DEF Import
<1>2. seen[This].failure = "none" /\ Fid = seen[This].file
  BY DEF Import, AttemptInv, Fid
<1> QED
  BY <1>1, <1>2 DEF DiskInv

(* A member is imported: an attempt for it has failed when it begins, and  *)
(* the entry does not point to it.                                         *)
LEMMA LinkedSpares ==
    ASSUME TypeOK, RunInv, EntryInv, MembersStay, Attempt PROVE Linked => Fid \notin members
<1>1. ASSUME Fid \in members PROVE Known
  BY <1>1, HereIs DEF MembersStay, EntryInv, Known, Attempt
<1> QED
  BY <1>1 DEF Attempt, Linked

(* A file is done with: its result stands for the path that was taken. *)
LEMMA FileDone ==
    ASSUME TypeOK, RunInv, ResultsInv, pc \in {"file", "attempt"},
           NEW state \in States, NextFile(state), UNCHANGED <<frozen, cur, members, seen>>,
           \/ entry' = [entry EXCEPT ![cur][Fid] = state]
           \/ entry' = entry /\ state \notin Good,
           MembersGone => state = "conflict"
    PROVE  ResultsInv'
<1> DEFINE new == [file |-> Fid, state |-> state]
<1>1. /\ cur \in Batch /\ Fid \in File /\ Fid \in Current
      /\ at \in Nat /\ 1 <= at /\ Len(Paths) \in Nat /\ at <= Len(Paths)
  BY HereIs
<1>2. /\ Paths' = Paths /\ Current' = Current /\ MembersGone' = MembersGone
      /\ cur' = cur /\ members' = members /\ seen' = seen
  BY SeenStays
<1>3. results' = results \cup {new} /\ new.file = Fid /\ new.state = state
  BY DEF NextFile
<1>4. "none" \notin States /\ \A r \in results : r.file \in File
  BY DEF States, Good, TypeOK
<1>5. /\ \A f \in File : entry[cur][f] # "none" => entry'[cur][f] # "none"
      /\ \A f \in File : entry'[cur][f] \in Good => f = Fid \/ entry[cur][f] \in Good
      /\ state \in Good => entry'[cur][Fid] # "none"
  <2>1. CASE entry' = entry /\ state \notin Good
    BY <2>1
  <2>2. CASE entry' = [entry EXCEPT ![cur][Fid] = state]
    <3>1. /\ entry'[cur][Fid] = state
          /\ \A f \in File : f # Fid => entry'[cur][f] = entry[cur][f]
      BY <1>1, <2>2 DEF TypeOK
    <3> QED
      BY <1>1, <1>4, <3>1
  <2> QED
    BY <2>1, <2>2
<1>6. Passed' \subseteq Passed \cup {at}
  <2>1. Passed = 1 .. at - 1
    BY DEF Passed
  <2>2. CASE at = Len(Paths)
    BY <1>1, <1>2, <2>1, <2>2 DEF NextFile, Passed
  <2>3. CASE at # Len(Paths)
    BY <1>1, <1>2, <2>1, <2>3 DEF NextFile, Passed
  <2> QED
    BY <2>2, <2>3
<1> HIDE DEF new
<1>7. ASSUME NEW r \in results'
      PROVE  r.file \in Current /\ (r.state \in Good => entry'[cur][r.file] # "none")
  BY <1>1, <1>3, <1>4, <1>5, <1>7 DEF ResultsInv
<1>8. ASSUME NEW i \in Passed'
      PROVE  \E r \in results' : /\ r.file = seen[Paths[i]].file
                                 /\ MembersGone => r.state = "conflict"
  <2>1. CASE i \in Passed
    BY <1>3, <2>1 DEF ResultsInv
  <2>2. CASE i = at
    BY <1>3, <2>2 DEF Fid, This
  <2> QED
    BY <1>6, <2>1, <2>2
<1>9. ASSUME NEW f \in File, entry'[cur][f] \in Good
      PROVE  f \in members \/ \E r \in results' : r.file = f
  BY <1>3, <1>5, <1>9 DEF ResultsInv
<1> QED
  BY <1>2, <1>7, <1>8, <1>9 DEF ResultsInv

(* Every step keeps the types, part by part. *)
LEMMA DiskTypeStep == ASSUME TypeOK, DiskInv, RunInv, AttemptInv, Next PROVE DiskType'
<1> USE Constants, HereIs DEF disk, done, local
<1>1. CASE Edit
  <2>1. PICK p \in Path : Write(p)
    BY <1>1 DEF Edit
  <2> QED
    BY <2>1, WriteIs DEF DiskType
<1>2. CASE Looked
  BY <1>2, TypeParts, WriteIs DEF Looked, DiskType
<1>3. CASE Duplicate
  BY <1>3, TypeParts DEF Duplicate, NextFile, DiskType
<1>4. CASE Attempt
  BY <1>4, TypeParts DEF Attempt, DiskType
<1>5. CASE Failing
  BY <1>5, TypeParts DEF Failing, Ended, NextFile, DiskType
<1>6. CASE Import
  BY <1>6, TypeParts DEF Import, NextFile, DiskType
<1>7. CASE Reconcile
  BY <1>7, TypeParts DEF Reconcile, RunEnds, DiskType
<1>8. CASE Interrupted
  BY <1>8, TypeParts DEF Interrupted, Ended, RunEnds, Fault, DiskType
<1>9. CASE Stopped
  BY <1>9, TypeParts DEF Stopped, RunEnds, Fault, DiskType
<1>10. CASE \E b \in Batch : Register(b)
  BY <1>10, TypeParts DEF Register, DiskType
<1>11. CASE \E b \in Batch : Reject(b)
  BY <1>11, TypeParts DEF Reject, DiskType
<1> QED
  BY <1>1, <1>2, <1>3, <1>4, <1>5, <1>6, <1>7, <1>8, <1>9, <1>10, <1>11, Steps

(* Every step keeps the type of what was seen. *)
LEMMA SeenTypeStep == ASSUME TypeOK, DiskInv, RunInv, AttemptInv, Next PROVE SeenType'
<1> USE Constants, HereIs DEF disk, done, local
<1>1. CASE Edit
  BY <1>1, TypeParts DEF Edit, Write, SeenType
<1>2. CASE Looked
  <2>1. PICK file \in Content \cup {Torn, This}, reason \in Reasons, s \in 0 .. MaxEdits :
           Observed(file, reason, s)
    BY <1>2 DEF Looked
  <2>2. This \in Path /\ file \in File
    BY <1>2 DEF Looked, File
  <2> QED
    BY <2>1, <2>2, TypeParts DEF Observed, SeenType
<1>3. CASE Duplicate
  BY <1>3, TypeParts DEF Duplicate, NextFile, SeenType
<1>4. CASE Attempt
  BY <1>4, TypeParts DEF Attempt, SeenType
<1>5. CASE Failing
  BY <1>5, TypeParts DEF Failing, Ended, NextFile, SeenType
<1>6. CASE Import
  BY <1>6, TypeParts DEF Import, NextFile, SeenType
<1>7. CASE Reconcile
  BY <1>7, Forgotten DEF Reconcile, RunEnds, SeenType
<1>8. CASE Interrupted
  BY <1>8, Forgotten DEF Interrupted, RunEnds, SeenType
<1>9. CASE Stopped
  BY <1>9, Forgotten DEF Stopped, RunEnds, SeenType
<1>10. CASE \E b \in Batch : Register(b)
  BY <1>10, TypeParts DEF Register, SeenType
<1>11. CASE \E b \in Batch : Reject(b)
  BY <1>11, TypeParts DEF Reject, SeenType
<1> QED
  BY <1>1, <1>2, <1>3, <1>4, <1>5, <1>6, <1>7, <1>8, <1>9, <1>10, <1>11, Steps

(* Every step keeps the type of the batches. *)
LEMMA BatchTypeStep == ASSUME TypeOK, DiskInv, RunInv, AttemptInv, Next PROVE BatchType'
<1> USE Constants, HereIs DEF disk, done, local
<1>1. CASE Edit
  BY <1>1, TypeParts DEF Edit, Write, BatchType
<1>2. CASE Looked
  BY <1>2, TypeParts DEF Looked, Observed, BatchType
<1>3. CASE Duplicate
  BY <1>3, TypeParts DEF Duplicate, NextFile, BatchType
<1>4. CASE Attempt
  BY <1>4, TypeParts DEF Attempt, BatchType
<1>5. CASE Failing
  BY <1>5, TypeParts DEF Failing, Ended, NextFile, BatchType
<1>6. CASE Import
  BY <1>6, TypeParts DEF Import, NextFile, BatchType
<1>7. CASE Reconcile
  <2>1. Outcome \in {"none", "processing", "complete", "failed", "conflict"}
    BY DEF Outcome
  <2> QED
    BY <1>7, <2>1, TypeParts DEF Reconcile, BatchType
<1>8. CASE Interrupted
  BY <1>8, TypeParts DEF Interrupted, Ended, RunEnds, Fault, BatchType
<1>9. CASE Stopped
  BY <1>9, TypeParts DEF Stopped, RunEnds, Fault, BatchType
<1>10. CASE \E b \in Batch : Register(b)
  BY <1>10, TypeParts DEF Register, BatchType
<1>11. CASE \E b \in Batch : Reject(b)
  BY <1>11, TypeParts DEF Reject, BatchType
<1> QED
  BY <1>1, <1>2, <1>3, <1>4, <1>5, <1>6, <1>7, <1>8, <1>9, <1>10, <1>11, Steps

(* Every step keeps the type of the entries. *)
LEMMA EntryTypeStep == ASSUME TypeOK, DiskInv, RunInv, AttemptInv, Next PROVE EntryType'
<1> USE Constants, HereIs DEF disk, done, local
<1>1. CASE Edit
  BY <1>1, TypeParts DEF Edit, Write, EntryType
<1>2. CASE Looked
  BY <1>2, TypeParts DEF Looked, Observed, EntryType
<1>3. CASE Duplicate
  <2>1. "duplicate_skipped" \in States
    BY DEF States, Good
  <2> QED
    BY <1>3, <2>1, EntrySet, TypeParts DEF Duplicate, EntryType
<1>4. CASE Attempt
  <2>1. "running" \in States
    BY DEF States, Good
  <2> QED
    BY <1>4, <2>1, EntrySet, TypeParts DEF Attempt, EntryType
<1>5. CASE Failing
  <2>1. "failed" \in States /\ "conflict" \in States
    BY DEF States
  <2> QED
    BY <1>5, <2>1, EntrySet, TypeParts DEF Failing, Ended, EntryType
<1>6. CASE Import
  <2>1. "succeeded" \in States
    BY DEF States, Good
  <2> QED
    BY <1>6, <2>1, EntrySet, TypeParts DEF Import, EntryType
<1>7. CASE Reconcile
  BY <1>7, KeptIs, TypeParts DEF Reconcile, EntryType
<1>8. CASE Interrupted
  <2>1. "interrupted" \in States
    BY DEF States, Good
  <2> QED
    BY <1>8, <2>1, EntrySet, TypeParts DEF Interrupted, Ended, EntryType
<1>9. CASE Stopped
  BY <1>9, TypeParts DEF Stopped, RunEnds, Fault, EntryType
<1>10. CASE \E b \in Batch : Register(b)
  BY <1>10, RecoveredIs DEF Register, EntryType
<1>11. CASE \E b \in Batch : Reject(b)
  BY <1>11, RecoveredIs DEF Reject, EntryType
<1> QED
  BY <1>1, <1>2, <1>3, <1>4, <1>5, <1>6, <1>7, <1>8, <1>9, <1>10, <1>11, Steps

(* Every step keeps the type of what was imported. *)
LEMMA DoneTypeStep == ASSUME TypeOK, DiskInv, RunInv, AttemptInv, Next PROVE DoneType'
<1> USE Constants, HereIs DEF disk, done, local
<1>1. CASE Edit
  BY <1>1, TypeParts DEF Edit, Write, DoneType
<1>2. CASE Looked
  BY <1>2, TypeParts DEF Looked, Observed, DoneType
<1>3. CASE Duplicate
  BY <1>3, TypeParts DEF Duplicate, NextFile, DoneType
<1>4. CASE Attempt
  BY <1>4, TypeParts DEF Attempt, DoneType
<1>5. CASE Failing
  BY <1>5, TypeParts DEF Failing, Ended, NextFile, DoneType
<1>6. CASE Import
  BY <1>6, TypeParts DEF Import, NextFile, DoneType
<1>7. CASE Reconcile
  BY <1>7, TypeParts DEF Reconcile, RunEnds, DoneType
<1>8. CASE Interrupted
  BY <1>8, TypeParts DEF Interrupted, Ended, RunEnds, Fault, DoneType
<1>9. CASE Stopped
  BY <1>9, TypeParts DEF Stopped, RunEnds, Fault, DoneType
<1>10. CASE \E b \in Batch : Register(b)
  BY <1>10, TypeParts DEF Register, DoneType
<1>11. CASE \E b \in Batch : Reject(b)
  BY <1>11, TypeParts DEF Reject, DoneType
<1> QED
  BY <1>1, <1>2, <1>3, <1>4, <1>5, <1>6, <1>7, <1>8, <1>9, <1>10, <1>11, Steps

(* Every step keeps the type of the place of a run. *)
LEMMA PlaceTypeStep == ASSUME TypeOK, DiskInv, RunInv, AttemptInv, Next PROVE PlaceType'
<1> USE Constants, HereIs DEF disk, done, local
<1>1. CASE Edit
  BY <1>1, TypeParts, PathsStay, NextPlace DEF Edit, Write, PlaceType
<1>2. CASE Looked
  BY <1>2, TypeParts, PathsStay, NextPlace DEF Looked, Observed, PlaceType
<1>3. CASE Duplicate
  BY <1>3, TypeParts, PathsStay, NextPlace DEF Duplicate, NextFile, PlaceType
<1>4. CASE Attempt
  BY <1>4, TypeParts, PathsStay, NextPlace DEF Attempt, PlaceType
<1>5. CASE Failing
  BY <1>5, TypeParts, PathsStay, NextPlace DEF Failing, Ended, NextFile, PlaceType
<1>6. CASE Import
  BY <1>6, TypeParts, PathsStay, NextPlace DEF Import, NextFile, PlaceType
<1>7. CASE Reconcile
  BY <1>7, TypeParts, PathsStay, NextPlace DEF Reconcile, RunEnds, PlaceType
<1>8. CASE Interrupted
  BY <1>8, TypeParts, PathsStay, NextPlace DEF Interrupted, Ended, RunEnds, Fault, PlaceType
<1>9. CASE Stopped
  BY <1>9, TypeParts, PathsStay, NextPlace DEF Stopped, RunEnds, Fault, PlaceType
<1>10. CASE \E b \in Batch : Register(b)
  <2>1. PICK b \in Batch : Register(b)
    BY <1>10
  <2>2. PICK m \in Manifests[b] : frozen' = [frozen EXCEPT ![b] = m]
    BY <2>1 DEF Register
  <2>3. Paths' = m /\ at' = 1 /\ cur' = b /\ pc' = "observe"
    BY <2>1, <2>2 DEF Register, Paths, TypeOK
  <2>4. m \in Seq(Path) \ {<<>>}
    BY Constants
  <2>5. 1 \in 1 .. Len(m)
    BY <2>4
  <2> QED
    BY <2>3, <2>5, Constants DEF PlaceType
<1>11. CASE \E b \in Batch : Reject(b)
  BY <1>11, TypeParts, PathsStay, NextPlace DEF Reject, PlaceType
<1> QED
  BY <1>1, <1>2, <1>3, <1>4, <1>5, <1>6, <1>7, <1>8, <1>9, <1>10, <1>11, Steps

(* Every step keeps the type of what a run remembers. *)
LEMMA RunTypeStep == ASSUME TypeOK, DiskInv, RunInv, AttemptInv, EntryInv, Next PROVE RunType'
<1> USE Constants, HereIs DEF disk, done, local
<1>1. CASE Edit
  BY <1>1, TypeParts DEF Edit, Write, RunType
<1>2. CASE Looked
  BY <1>2, TypeParts DEF Looked, Observed, RunType
<1>3. CASE Duplicate
  <2>1. "duplicate_skipped" \in States \ {"running"}
    BY DEF States, Good
  <2> QED
    BY <1>3, <2>1, ResultAdded, TypeParts DEF Duplicate, RunType
<1>4. CASE Attempt
  <2>1. Reason \in Reasons /\ Linked \in BOOLEAN
    BY <1>4, TypeParts DEF Attempt, Reason, Linked, Reasons, SeenType, Changed
  <2> QED
    BY <1>4, <2>1, TypeParts DEF Attempt, RunType
<1>5. CASE Failing
  <2>1. "failed" \in States \ {"running"} /\ "conflict" \in States \ {"running"}
    BY DEF States
  <2>2. PICK state \in {"failed", "conflict"} : NextFile(state)
    BY <1>5 DEF Failing
  <2> QED
    BY <1>5, <2>1, <2>2, ResultAdded, TypeParts DEF Failing, RunType
<1>6. CASE Import
  <2>1. "succeeded" \in States \ {"running"}
    BY DEF States, Good
  <2> QED
    BY <1>6, <2>1, ResultAdded, TypeParts DEF Import, RunType
<1>7. CASE Reconcile
  BY <1>7, RunForgets, Grows, TypeParts DEF Reconcile, RunType
<1>8. CASE Interrupted
  BY <1>8, RunForgets, Grows, TypeParts DEF Interrupted, RunType
<1>9. CASE Stopped
  BY <1>9, RunForgets, Grows, TypeParts DEF Stopped, RunType
<1>10. CASE \E b \in Batch : Register(b)
  <2>1. \A b \in Batch : Successful(b) \subseteq Content
    BY DEF Successful, EntryInv
  <2> QED
    BY <1>10, <2>1, TypeParts DEF Register, RunType
<1>11. CASE \E b \in Batch : Reject(b)
  BY <1>11, TypeParts DEF Reject, RunType
<1> QED
  BY <1>1, <1>2, <1>3, <1>4, <1>5, <1>6, <1>7, <1>8, <1>9, <1>10, <1>11, Steps

(* Every step keeps what is seen of the paths. *)
LEMMA DiskStep == ASSUME TypeOK, DiskInv, RunInv, AttemptInv, Next PROVE DiskInv'
<1> USE Constants, HereIs DEF disk, done, local
<1>1. CASE Edit
  <2>1. PICK p \in Path : Write(p)
    BY <1>1 DEF Edit
  <2> QED
    BY <1>1, <2>1, WriteIs DEF Edit, DiskInv
<1>2. CASE Looked
  <2>1. PICK file \in Content \cup {Torn, This}, reason \in Reasons, s \in 0 .. MaxEdits :
           Observed(file, reason, s) /\ (file = This => reason = "file_unreadable")
    BY <1>2 DEF Looked
  <2>2. This \in Path /\ seen' = [seen EXCEPT ![This] =
                                   [file |-> file, failure |-> reason, stamp |-> s]]
    BY <1>2, <2>1 DEF Looked, Observed
  <2>3. ASSUME NEW p \in Path
        PROVE  /\ seen'[p].file \in Content \cup {Torn, p}
               /\ seen'[p].file = p => seen'[p].failure = "file_unreadable"
    <3>1. CASE p = This
      BY <2>1, <2>2, <3>1 DEF TypeOK
    <3>2. CASE p # This
      BY <2>2, <3>2 DEF TypeOK, DiskInv
    <3> QED
      BY <3>1, <3>2
  <2>4. \A p \in Path : content'[p] \in Content \cup {p} /\ stamp'[p] <= edits'
    BY <1>2, <2>2, WriteIs DEF Looked, DiskInv
  <2> QED
    BY <2>3, <2>4 DEF DiskInv
<1>3. CASE Duplicate
  BY <1>3 DEF Duplicate, NextFile, DiskInv
<1>4. CASE Attempt
  BY <1>4 DEF Attempt, DiskInv
<1>5. CASE Failing
  BY <1>5 DEF Failing, Ended, NextFile, DiskInv
<1>6. CASE Import
  BY <1>6 DEF Import, NextFile, DiskInv
<1>7. CASE Reconcile
  BY <1>7 DEF Reconcile, RunEnds, DiskInv, Unseen
<1>8. CASE Interrupted
  BY <1>8 DEF Interrupted, RunEnds, DiskInv, Unseen
<1>9. CASE Stopped
  BY <1>9 DEF Stopped, RunEnds, DiskInv, Unseen
<1>10. CASE \E b \in Batch : Register(b)
  BY <1>10 DEF Register, DiskInv
<1>11. CASE \E b \in Batch : Reject(b)
  BY <1>11 DEF Reject, DiskInv
<1> QED
  BY <1>1, <1>2, <1>3, <1>4, <1>5, <1>6, <1>7, <1>8, <1>9, <1>10, <1>11, Steps

(* Every step keeps the batch that is being written. *)
LEMMA RunStep == ASSUME TypeOK, DiskInv, RunInv, AttemptInv, Next PROVE RunInv'
<1> USE Constants, HereIs DEF disk, done, local
<1>1. CASE Edit
  BY <1>1, PathsStay DEF Edit, Write, RunInv
<1>2. CASE Looked
  BY <1>2, PathsStay DEF Looked, Observed, RunInv
<1>3. CASE Duplicate
  BY <1>3, PathsStay DEF Duplicate, NextFile, RunInv
<1>4. CASE Attempt
  BY <1>4, PathsStay DEF Attempt, RunInv
<1>5. CASE Failing
  BY <1>5, PathsStay DEF Failing, Ended, NextFile, RunInv
<1>6. CASE Import
  BY <1>6, PathsStay DEF Import, NextFile, RunInv
<1>7. CASE Reconcile
  BY <1>7, PathsStay DEF Reconcile, RunEnds, RunInv
<1>8. CASE Interrupted
  BY <1>8, PathsStay DEF Interrupted, Ended, RunEnds, Fault, RunInv
<1>9. CASE Stopped
  BY <1>9, PathsStay DEF Stopped, RunEnds, Fault, RunInv
<1>10. CASE \E b \in Batch : Register(b)
  <2>1. PICK b \in Batch : Register(b)
    BY <1>10
  <2>2. PICK m \in Manifests[b] : frozen' = [frozen EXCEPT ![b] = m]
    BY <2>1 DEF Register
  <2>3. Paths' = m /\ batch'[cur'] = "processing" /\ pc' = "observe"
    BY <2>1, <2>2 DEF Register, Paths, TypeOK
  <2>4. m # <<>>
    BY Constants
  <2>5. results' = {}
    BY <2>1 DEF Register, RunInv
  <2> QED
    BY <2>3, <2>4, <2>5 DEF RunInv
<1>11. CASE \E b \in Batch : Reject(b)
  BY <1>11, PathsStay DEF Reject, RunInv
<1> QED
  BY <1>1, <1>2, <1>3, <1>4, <1>5, <1>6, <1>7, <1>8, <1>9, <1>10, <1>11, Steps

(* Every step keeps entries true to the imported files. *)
LEMMA EntryStep == ASSUME TypeOK, DiskInv, RunInv, AttemptInv, EntryInv, Next PROVE EntryInv'
<1> USE Constants, HereIs DEF disk, done, local
<1>1. CASE Edit
  BY <1>1 DEF Edit, Write, EntryInv
<1>2. CASE Looked
  BY <1>2 DEF Looked, Observed, EntryInv
<1>3. CASE Duplicate
  <2>1. "duplicate_skipped" \in States
    BY DEF States, Good
  <2> QED
    BY <1>3, <2>1, EntryWritten DEF Duplicate, Known, EntryInv
<1>4. CASE Attempt
  <2>1. "running" \in States /\ "running" \notin Good
    BY DEF States, Good
  <2> QED
    BY <1>4, <2>1, EntryWritten DEF Attempt, EntryInv
<1>5. CASE Failing
  <2>1. \A state \in {"failed", "conflict"} : state \in States /\ state \notin Good
    BY DEF States, Good
  <2> QED
    BY <1>5, <2>1, EntryWritten DEF Failing, Ended, EntryInv
<1>6. CASE Import
  <2>1. "succeeded" \in States /\ Fid \in Content /\ cur \in Batch /\ pc # "idle"
    BY <1>6, ImportedIsContent DEF States, Good, Import
  <2>2. /\ imported' = [imported EXCEPT ![Fid] = cur] /\ stored' = [stored EXCEPT ![Fid] = Fid]
        /\ entry' = [entry EXCEPT ![cur][Fid] = "succeeded"] /\ batch' = batch
    BY <1>6 DEF Import
  <2>3. /\ \A f \in Content : imported[f] # NoBatch => imported'[f] # NoBatch
        /\ imported'[Fid] # NoBatch
        /\ \A f \in Content : stored'[f] = f
    BY <2>1, <2>2 DEF TypeOK, EntryInv
  <2> QED
    BY <2>1, <2>2, <2>3, EntryWritten
<1>7. CASE Reconcile
  <2>1. /\ cur \in Batch /\ entry' = [entry EXCEPT ![cur] = Kept]
        /\ batch' = [batch EXCEPT ![cur] = Outcome] /\ imported' = imported /\ stored' = stored
    BY <1>7 DEF Reconcile
  <2>2. Outcome = "complete" => \A f \in File : Kept[f] \in Good \cup {"none"}
    BY DEF Outcome
  <2>3. \A f \in File : Kept[f] \in {entry[cur][f], "none"}
    BY <1>7, KeptIs DEF Reconcile
  <2>4. "none" \notin Good
    BY DEF Good
  <2>5. /\ entry'[cur] = Kept /\ \A b \in Batch : b # cur => entry'[b] = entry[b]
        /\ batch'[cur] = Outcome /\ \A b \in Batch : b # cur => batch'[b] = batch[b]
    BY <2>1 DEF TypeOK
  <2>6. ASSUME NEW b \in Batch, NEW f \in File, entry'[b][f] \in Good
        PROVE  f \in Content /\ imported'[f] # NoBatch
    BY <2>1, <2>3, <2>4, <2>5, <2>6 DEF EntryInv
  <2>7. ASSUME NEW b \in Batch, NEW f \in File, batch'[b] = "complete"
        PROVE  entry'[b][f] \in Good \cup {"none"}
    BY <2>2, <2>5, <2>7 DEF EntryInv
  <2> QED
    BY <2>1, <2>6, <2>7 DEF EntryInv
<1>8. CASE Interrupted
  <2>1. "interrupted" \in States /\ "interrupted" \notin Good
    BY DEF States, Good
  <2>2. \A b \in Batch : batch'[b] = "complete" => batch[b] = "complete"
    BY <1>8 DEF Interrupted, TypeOK
  <2> QED
    BY <1>8, <2>1, <2>2, EntryWritten DEF Interrupted, Ended, EntryInv
<1>9. CASE Stopped
  <2>1. \A b \in Batch : batch'[b] = "complete" => batch[b] = "complete"
    BY <1>9 DEF Stopped, TypeOK
  <2> QED
    BY <1>9, <2>1 DEF Stopped, EntryInv
<1>10. CASE \E b \in Batch : Register(b)
  <2>1. PICK b \in Batch : batch' = [batch EXCEPT ![b] = "processing"] /\ entry' = Recovered
    BY <1>10 DEF Register
  <2>2. \A c \in Batch : batch'[c] = "complete" => batch[c] = "complete"
    BY <2>1 DEF TypeOK
  <2>3. "interrupted" \notin Good \cup {"none"} /\ "running" \notin Good \cup {"none"}
    BY DEF Good
  <2>4. imported' = imported /\ stored' = stored
    BY <1>10 DEF Register
  <2>5. ASSUME NEW c \in Batch, NEW f \in File
        PROVE  /\ entry'[c][f] \in Good => entry[c][f] \in Good
               /\ entry[c][f] \in Good \cup {"none"} => entry'[c][f] = entry[c][f]
    BY <2>1, <2>3, RecoveredIs
  <2> QED
    BY <2>2, <2>4, <2>5 DEF EntryInv
<1>11. CASE \E b \in Batch : Reject(b)
  <2>1. "interrupted" \notin Good \cup {"none"} /\ "running" \notin Good \cup {"none"}
    BY DEF Good
  <2> QED
    BY <1>11, <2>1, RecoveredIs DEF Reject, EntryInv
<1> QED
  BY <1>1, <1>2, <1>3, <1>4, <1>5, <1>6, <1>7, <1>8, <1>9, <1>10, <1>11, Steps

(* Every step keeps what an attempt may do. *)
LEMMA AttemptStep == ASSUME TypeOK, DiskInv, RunInv, AttemptInv, EntryInv, MembersStay, Next PROVE AttemptInv'
<1> USE Constants, HereIs DEF disk, done, local
<1>1. CASE Edit
  BY <1>1, SeenStays DEF Edit, AttemptInv
<1>2. CASE Looked
  BY <1>2 DEF Looked, Observed, AttemptInv
<1>3. CASE Duplicate
  BY <1>3 DEF Duplicate, NextFile, AttemptInv
<1>4. CASE Attempt
  <2>1. /\ Reason = "none" => ~MembersGone /\ ~OriginChanged /\ seen[This].failure = "none"
        /\ MembersGone => Reason = "batch_member_changed"
    BY DEF Reason
  <2>2. Linked => Fid \notin members
    BY <1>4, LinkedSpares
  <2> QED
    BY <1>4, <2>1, <2>2, SeenStays DEF Attempt, AttemptInv
<1>5. CASE Failing
  BY <1>5 DEF Failing, Ended, NextFile, AttemptInv
<1>6. CASE Import
  BY <1>6 DEF Import, NextFile, AttemptInv
<1>7. CASE Reconcile
  BY <1>7 DEF Reconcile, RunEnds, AttemptInv
<1>8. CASE Interrupted
  BY <1>8 DEF Interrupted, Ended, RunEnds, Fault, AttemptInv
<1>9. CASE Stopped
  BY <1>9 DEF Stopped, RunEnds, Fault, AttemptInv
<1>10. CASE \E b \in Batch : Register(b)
  BY <1>10 DEF Register, AttemptInv
<1>11. CASE \E b \in Batch : Reject(b)
  BY <1>11 DEF Reject, AttemptInv
<1> QED
  BY <1>1, <1>2, <1>3, <1>4, <1>5, <1>6, <1>7, <1>8, <1>9, <1>10, <1>11, Steps

(* Every step keeps a result for every path that is done with. *)
LEMMA ResultsStep == ASSUME TypeOK, DiskInv, RunInv, AttemptInv, EntryInv, ResultsInv, Next PROVE ResultsInv'
<1> USE Constants, HereIs DEF disk, done, local
<1>1. CASE Edit
  BY <1>1, SeenStays DEF Edit, ResultsInv, Passed
<1>2. CASE Looked
  <2>1. results' = {} /\ Passed' = {}
    BY <1>2 DEF Looked, Observed, RunInv, Passed
  <2> QED
    BY <1>2, <2>1 DEF Looked, RunInv, ResultsInv
<1>3. CASE Duplicate
  <2>1. "duplicate_skipped" \in States /\ ~MembersGone
    BY <1>3 DEF Duplicate, Reason, States, Good
  <2> QED
    BY <1>3, <2>1, FileDone DEF Duplicate
<1>4. CASE Attempt
  <2>1. "running" \in States /\ "running" \notin Good /\ "running" # "none"
    BY DEF States, Good
  <2>2. Passed' = Passed /\ results' = results /\ members' = members /\ cur' = cur
    BY <1>4 DEF Attempt, Passed
  <2>3. Current' = Current /\ MembersGone' = MembersGone /\ Paths' = Paths /\ seen' = seen
    BY <1>4, SeenStays DEF Attempt
  <2>4. /\ \A f \in File : entry'[cur][f] \in Good => entry[cur][f] \in Good
        /\ \A f \in File : entry[cur][f] # "none" => entry'[cur][f] # "none"
    BY <1>4, <2>1, EntrySet DEF Attempt
  <2>5. \A r \in results : r.file \in File
    BY DEF TypeOK
  <2> QED
    BY <1>4, <2>2, <2>3, <2>4, <2>5 DEF Attempt, ResultsInv
<1>5. CASE Failing
  <2>1. PICK state \in {"failed", "conflict"} :
           Ended(state) /\ NextFile(state) /\ (MembersGone => state = "conflict")
    BY <1>5 DEF Failing
  <2>2. state \in States /\ state \notin Good
    BY <2>1 DEF States, Good
  <2> QED
    BY <1>5, <2>1, <2>2, FileDone DEF Failing, Ended
<1>6. CASE Import
  <2>1. "succeeded" \in States /\ ~MembersGone
    BY <1>6 DEF Import, AttemptInv, States, Good
  <2> QED
    BY <1>6, <2>1, FileDone DEF Import
<1>7. CASE Reconcile
  <2>1. results' = {} /\ Passed' = {} /\ pc' = "idle"
    BY <1>7 DEF Reconcile, RunEnds, Passed
  <2> QED
    BY <2>1 DEF ResultsInv
<1>8. CASE Interrupted
  <2>1. results' = {} /\ Passed' = {} /\ pc' = "idle"
    BY <1>8 DEF Interrupted, RunEnds, Passed
  <2> QED
    BY <2>1 DEF ResultsInv
<1>9. CASE Stopped
  <2>1. results' = {} /\ Passed' = {} /\ pc' = "idle"
    BY <1>9 DEF Stopped, RunEnds, Passed
  <2> QED
    BY <2>1 DEF ResultsInv
<1>10. CASE \E b \in Batch : Register(b)
  <2>1. PICK b \in Batch : Register(b)
    BY <1>10
  <2>2. results' = {} /\ Passed' = {} /\ cur' = b /\ members' = Successful(b)
    BY <2>1 DEF Register, RunInv, Passed
  <2>3. \A f \in File : entry'[b][f] \in Good => entry[b][f] \in Good
    BY <2>1, RecoveredIs DEF Register, Good
  <2> QED
    BY <2>2, <2>3 DEF ResultsInv, Successful
<1>11. CASE \E b \in Batch : Reject(b)
  <2>1. results' = {} /\ Passed' = {} /\ pc' = "idle"
    BY <1>11 DEF Reject, RunInv, Passed
  <2> QED
    BY <2>1 DEF ResultsInv
<1> QED
  BY <1>1, <1>2, <1>3, <1>4, <1>5, <1>6, <1>7, <1>8, <1>9, <1>10, <1>11, Steps

(* Every step keeps the members successful. *)
LEMMA MembersStep == ASSUME TypeOK, DiskInv, RunInv, AttemptInv, EntryInv, MembersStay, Next PROVE MembersStay'
<1> USE Constants, HereIs DEF disk, done, local
<1>1. CASE Edit
  BY <1>1 DEF Edit, Write, MembersStay
<1>2. CASE Looked
  BY <1>2 DEF Looked, Observed, MembersStay
<1>3. CASE Duplicate
  <2>1. "duplicate_skipped" \in States /\ "duplicate_skipped" \in Good
    BY DEF States, Good
  <2> QED
    BY <1>3, <2>1, EntrySet, TypeParts DEF Duplicate, MembersStay, RunType, File
<1>4. CASE Attempt
  <2>1. "running" \in States
    BY DEF States
  <2> QED
    BY <1>4, <2>1, EntrySet, LinkedSpares, TypeParts DEF Attempt, MembersStay, RunType, File
<1>5. CASE Failing
  <2>1. \A state \in {"failed", "conflict"} : state \in States
    BY DEF States
  <2>2. members \subseteq File
    BY TypeParts DEF RunType, File
  <2>3. linked => Fid \notin members
    BY <1>5 DEF Failing, AttemptInv
  <2> QED
    BY <1>5, <2>1, <2>2, <2>3, EntrySet DEF Failing, Ended, MembersStay
<1>6. CASE Import
  <2>1. "succeeded" \in States /\ "succeeded" \in Good
    BY DEF States, Good
  <2> QED
    BY <1>6, <2>1, EntrySet, TypeParts DEF Import, MembersStay, RunType, File
<1>7. CASE Reconcile
  BY <1>7, RunForgets DEF Reconcile, MembersStay
<1>8. CASE Interrupted
  BY <1>8, RunForgets DEF Interrupted, MembersStay
<1>9. CASE Stopped
  BY <1>9, RunForgets DEF Stopped, MembersStay
<1>10. CASE \E b \in Batch : Register(b)
  <2>1. "running" \notin Good
    BY DEF Good
  <2> QED
    BY <1>10, <2>1, RecoveredIs DEF Register, Successful, MembersStay
<1>11. CASE \E b \in Batch : Reject(b)
  BY <1>11 DEF Reject, RunInv, MembersStay
<1> QED
  BY <1>1, <1>2, <1>3, <1>4, <1>5, <1>6, <1>7, <1>8, <1>9, <1>10, <1>11, Steps

(* Every step keeps imported files apart. *)
LEMMA DistinctStep == ASSUME TypeOK, DiskInv, RunInv, AttemptInv, ImportedAreDistinct, Next PROVE ImportedAreDistinct'
<1> USE Constants, HereIs DEF disk, done, local
<1>1. CASE Edit
  BY <1>1 DEF Edit, Write, ImportedAreDistinct
<1>2. CASE Looked
  BY <1>2 DEF Looked, Observed, ImportedAreDistinct
<1>3. CASE Duplicate
  <2>1. /\ ~OriginChanged /\ Fid \in Content /\ imported' = imported
        /\ keys' = [keys EXCEPT ![Fid] = @ \cup ({Key[This]} \ {NoKey})]
    BY <1>3 DEF Duplicate, Reason, Known
  <2>2. /\ keys'[Fid] \subseteq keys[Fid] \cup ({Key[This]} \ {NoKey})
        /\ \A f \in Content \ {Fid} : keys'[f] = keys[f]
    BY <2>1, TypeParts DEF DoneType
  <2>3. \A g \in Content \ {Fid} : imported[g] # NoBatch => keys'[Fid] \cap keys[g] \subseteq keys[Fid] \cap keys[g]
    BY <2>1, <2>2 DEF OriginChanged
  <2>4. imported[Fid] # NoBatch
    BY <1>3 DEF Duplicate, Known
  <2> QED
    BY <2>1, <2>2, <2>3, <2>4 DEF ImportedAreDistinct
<1>4. CASE Attempt
  BY <1>4 DEF Attempt, ImportedAreDistinct
<1>5. CASE Failing
  BY <1>5 DEF Failing, Ended, NextFile, ImportedAreDistinct
<1>6. CASE Import
  <2>1. /\ ~OriginChanged /\ ~Overlaps /\ Fid \in Content
        /\ keys' = [keys EXCEPT ![Fid] = {Key[This]} \ {NoKey}]
        /\ imported' = [imported EXCEPT ![Fid] = cur]
    BY <1>6, ImportedIsContent DEF Import, AttemptInv
  <2>2. /\ keys'[Fid] = {Key[This]} \ {NoKey}
        /\ \A f \in Content \ {Fid} : keys'[f] = keys[f] /\ imported'[f] = imported[f]
    BY <2>1, TypeParts DEF DoneType
  <2>3. ASSUME NEW g \in Content \ {Fid}, imported[g] # NoBatch
        PROVE  keys'[Fid] \cap keys[g] = {} /\ {Fid, g} \notin Overlap /\ {g, Fid} \notin Overlap
    <3>1. {g, Fid} = {Fid, g}
      OBVIOUS
    <3> QED
      <4>1. {Fid, g} \notin Overlap
        BY <2>1, <2>3 DEF Overlaps
      <4>2. keys'[Fid] = {} \/ (Key[This] # NoKey /\ keys'[Fid] = {Key[This]})
        BY <2>2
      <4>3. Key[This] # NoKey => Key[This] \notin keys[g]
        BY <2>1, <2>3 DEF OriginChanged
      <4> QED
        BY <3>1, <4>1, <4>2, <4>3
  <2>4. ASSUME NEW f \in Content, NEW g \in Content, f # g,
               imported'[f] # NoBatch, imported'[g] # NoBatch
        PROVE  keys'[f] \cap keys'[g] = {} /\ {f, g} \notin Overlap
    <3>1. CASE f = Fid
      BY <2>2, <2>3, <2>4, <3>1
    <3>2. CASE g = Fid
      BY <2>2, <2>3, <2>4, <3>2
    <3>3. CASE f # Fid /\ g # Fid
      BY <2>2, <2>4, <3>3 DEF ImportedAreDistinct
    <3> QED
      BY <3>1, <3>2, <3>3
  <2> QED
    BY <2>4 DEF ImportedAreDistinct
<1>7. CASE Reconcile
  BY <1>7 DEF Reconcile, RunEnds, ImportedAreDistinct
<1>8. CASE Interrupted
  BY <1>8 DEF Interrupted, Ended, RunEnds, Fault, ImportedAreDistinct
<1>9. CASE Stopped
  BY <1>9 DEF Stopped, RunEnds, Fault, ImportedAreDistinct
<1>10. CASE \E b \in Batch : Register(b)
  BY <1>10 DEF Register, ImportedAreDistinct
<1>11. CASE \E b \in Batch : Reject(b)
  BY <1>11 DEF Reject, ImportedAreDistinct
<1> QED
  BY <1>1, <1>2, <1>3, <1>4, <1>5, <1>6, <1>7, <1>8, <1>9, <1>10, <1>11, Steps

-----------------------------------------------------------------------------
(* The invariant.                                                          *)

(* The invariant holds before the first import. *)
LEMMA InvInit == Init => IInv
<1> SUFFICES ASSUME Init PROVE IInv
  OBVIOUS
<1> USE Constants DEF Init
<1>1. content \in [Path -> Content]
  OBVIOUS
<1>2. DiskType /\ SeenType
  BY <1>1, Forgotten DEF DiskType, SeenType
<1>3. BatchType /\ EntryType
  BY DEF BatchType, EntryType
<1>4. DoneType /\ PlaceType
  BY DEF DoneType, PlaceType
<1>9. RunType
  <2>1. failure \in Reasons /\ linked \in BOOLEAN /\ members = {} /\ results = {}
    BY DEF Reasons
  <2>2. faults \in 0 .. MaxFaults
    OBVIOUS
  <2> HIDE DEF Init
  <2> QED
    BY <2>1, <2>2 DEF RunType
<1>5. DiskInv
  BY <1>1 DEF DiskInv, Unseen
<1>6. RunInv /\ AttemptInv /\ MembersStay
  BY DEF RunInv, AttemptInv, MembersStay
<1>7. EntryInv /\ ImportedAreDistinct
  BY DEF EntryInv, ImportedAreDistinct, Good
<1>8. ResultsInv
  BY DEF ResultsInv, Passed
<1> QED
  BY <1>2, <1>3, <1>4, <1>5, <1>6, <1>7, <1>8, <1>9, TypeParts DEF IInv

(* A step that changes nothing changes no part of the invariant. *)
LEMMA Stutter == IInv /\ UNCHANGED vars => IInv'
<1> SUFFICES ASSUME IInv, UNCHANGED vars PROVE IInv'
  OBVIOUS
<1> USE DEF vars
<1>1. TypeOK /\ DiskInv /\ RunInv /\ EntryInv /\ AttemptInv /\ ResultsInv
  BY DEF IInv
<1>2. /\ Paths' = Paths /\ Current' = Current /\ This' = This /\ Fid' = Fid
      /\ MembersGone' = MembersGone /\ OriginChanged' = OriginChanged /\ Passed' = Passed
  BY SeenStays DEF Passed
<1>3. TypeOK' /\ DiskInv' /\ EntryInv'
  BY <1>1, <1>2 DEF TypeOK, DiskInv, EntryInv
<1>4. RunInv' /\ AttemptInv'
  BY <1>1, <1>2 DEF RunInv, AttemptInv
<1>5. ResultsInv'
  BY <1>1, <1>2 DEF ResultsInv
<1>6. MembersStay' /\ ImportedAreDistinct'
  BY DEF IInv, MembersStay, ImportedAreDistinct
<1> QED
  BY <1>3, <1>4, <1>5, <1>6 DEF IInv

(* IInv holds in every state, whatever people write and wherever imports   *)
(* are cut short.                                                          *)
THEOREM Invariance == Spec => []IInv
<1>1. ASSUME IInv, Next PROVE IInv'
  <2>1. TypeOK /\ DiskInv /\ RunInv /\ AttemptInv /\ EntryInv
    BY <1>1 DEF IInv
  <2>2. /\ DiskType' /\ SeenType' /\ BatchType' /\ EntryType' /\ DoneType' /\ PlaceType'
        /\ RunType'
    BY <1>1, <2>1, DiskTypeStep, SeenTypeStep, BatchTypeStep, EntryTypeStep, DoneTypeStep,
       PlaceTypeStep, RunTypeStep
  <2>3. TypeOK'
    BY <2>2 DEF TypeOK, DiskType, SeenType, BatchType, EntryType, DoneType, PlaceType,
       RunType
  <2>4. DiskInv' /\ RunInv' /\ EntryInv'
    BY <1>1, <2>1, DiskStep, RunStep, EntryStep
  <2>5. AttemptInv' /\ ResultsInv' /\ MembersStay' /\ ImportedAreDistinct'
    BY <1>1, <2>1, AttemptStep, ResultsStep, MembersStep, DistinctStep DEF IInv
  <2> QED
    BY <2>3, <2>4, <2>5 DEF IInv
<1>2. IInv /\ [Next]_vars => IInv'
  BY <1>1, Stutter
<1> QED
  BY InvInit, <1>2, PTL DEF Spec

-----------------------------------------------------------------------------
(* What it says.                                                           *)

(* What was successful when a batch was submitted again stays so. *)
THEOREM MembersAreKept == Spec => []MembersStay
<1>1. IInv => MembersStay
  BY DEF IInv
<1> QED
  BY <1>1, Invariance, PTL

(* Nothing is counted twice under two contents. *)
THEOREM NothingTwice == Spec => []ImportedAreDistinct
<1>1. IInv => ImportedAreDistinct
  BY DEF IInv
<1> QED
  BY <1>1, Invariance, PTL

(* An import that ends as complete leaves the entries of its own list. *)
LEMMA CompleteList ==
    ASSUME IInv, Reconcile, Outcome = "complete"
    PROVE  {f \in File : Kept[f] # "none"} = Current
<1> USE DEF IInv
<1>1. /\ \A r \in results : r.state # "conflict" /\ r.state \in Good
      /\ \A f \in File : Kept[f] \in Good \cup {"none"}
  BY DEF Outcome
<1>2. /\ Paths \in Seq(Path) /\ Len(Paths) \in Nat /\ 1 <= Len(Paths)
      /\ DOMAIN Paths = 1 .. Len(Paths)
  BY HereIs DEF Reconcile
<1>3. Passed = DOMAIN Paths /\ 1 \in Passed
  BY <1>2 DEF Passed, Reconcile
<1>4. \A i \in DOMAIN Paths : \E r \in results :
         /\ r.file = seen[Paths[i]].file
         /\ MembersGone => r.state = "conflict"
  BY <1>3 DEF ResultsInv
<1>5. ~MembersGone
  BY <1>1, <1>3, <1>4
<1>6. ASSUME NEW f \in File, Kept[f] # "none" PROVE f \in Current
  <2>1. entry[cur][f] \in Good
    BY <1>1, <1>6, KeptIs DEF Reconcile
  <2>2. f \in members \/ \E r \in results : r.file = f
    BY <2>1 DEF ResultsInv, Reconcile
  <2> QED
    BY <1>5, <2>2 DEF MembersGone, ResultsInv
<1>7. ASSUME NEW f \in Current PROVE f \in File /\ Kept[f] # "none"
  <2>1. PICK i \in DOMAIN Paths : f = seen[Paths[i]].file
    BY DEF Current, ToSet
  <2>2. Paths[i] \in Path
    BY <1>2
  <2>3. f \in File
    BY <2>1, <2>2, TypeParts DEF SeenType
  <2>4. PICK r \in results : r.file = f /\ r.state \in Good
    BY <1>1, <1>4, <2>1
  <2>5. entry[cur][f] # "none"
    BY <2>4 DEF ResultsInv
  <2>6. Kept[f] = entry[cur][f]
    BY <1>5, <2>3, <2>4 DEF Kept
  <2> QED
    BY <2>3, <2>5, <2>6
<1> QED
  BY <1>6, <1>7

(* A batch is complete only if everything its frozen list held when it was *)
(* looked at has been imported, and as long as it is complete all its      *)
(* entries are imported files.                                             *)
THEOREM CompleteWhole == Spec => CompleteIsWhole
<1> DEFINE Whole(b) ==
      batch'[b] = "complete" =>
          /\ \A f \in File : entry'[b][f] # "none" =>
                /\ entry'[b][f] \in Good
                /\ f \in Content /\ imported'[f] # NoBatch /\ stored'[f] = f
          /\ batch[b] # "complete" =>
                /\ cur = b
                /\ {f \in File : entry'[b][f] # "none"} = {seen[p].file : p \in ToSet(frozen[b])}
<1>1. ASSUME IInv, IInv', Next, NEW b \in Batch, batch'[b] = "complete"
      PROVE  Whole(b)
  <2>1. ASSUME NEW f \in File, entry'[b][f] # "none"
        PROVE  /\ entry'[b][f] \in Good
               /\ f \in Content /\ imported'[f] # NoBatch /\ stored'[f] = f
    BY <1>1, <2>1 DEF IInv, EntryInv
  <2>2. ASSUME batch[b] # "complete"
        PROVE  Reconcile /\ cur = b /\ Outcome = "complete"
    <3>1. batch \in [Batch -> {"none", "processing", "complete", "failed", "conflict"}]
      BY <1>1 DEF IInv, TypeOK
    <3>2. \A c \in Batch : \A v : v # "complete" /\ batch' = [batch EXCEPT ![c] = v] => FALSE
      BY <1>1, <2>2, <3>1
    <3>3. batch' # batch /\ ~(batch' = [batch EXCEPT ![cur] = "failed"])
      BY <1>1, <2>2, <3>1
    <3>4. Reconcile
      <4>1. \A c \in Batch : ~Register(c) /\ ~Reject(c)
        BY <3>2, <3>3 DEF Register, Reject
      <4>2. ~Edit /\ ~Observe /\ ~Duplicate /\ ~Attempt /\ ~Import
        BY <3>3 DEF Edit, Observe, Duplicate, Attempt, Import
      <4>3. ~FailFile /\ ~OverlapFails /\ ~ReadFails /\ ~ProcessingFails
        BY <3>3 DEF FailFile, OverlapFails, ReadFails, FileFails, ProcessingFails
      <4>4. ~Interrupted /\ ~Stopped
        BY <3>3 DEF Interrupted, Stopped
      <4> QED
        BY <1>1, <4>1, <4>2, <4>3, <4>4 DEF Next, Run
    <3> QED
      BY <1>1, <2>2, <3>1, <3>4 DEF Reconcile
  <2>3. ASSUME batch[b] # "complete"
        PROVE  {f \in File : entry'[b][f] # "none"} = {seen[p].file : p \in ToSet(frozen[b])}
    <3>1. Reconcile /\ cur = b /\ Outcome = "complete"
      BY <2>2, <2>3
    <3>2. entry'[b] = Kept
      BY <1>1, <3>1 DEF Reconcile, IInv, TypeOK
    <3>3. Current = {seen[p].file : p \in ToSet(frozen[b])}
      BY <3>1 DEF Current, Paths
    <3> QED
      BY <1>1, <3>1, <3>2, <3>3, CompleteList
  <2> QED
    BY <2>1, <2>2, <2>3
<1>2. IInv /\ IInv' /\ [Next]_vars => [\A b \in Batch : Whole(b)]_vars
  BY <1>1
<1> QED
  BY <1>2, Invariance, PTL DEF Spec, CompleteIsWhole

-----------------------------------------------------------------------------
(***************************************************************************)
(* What an import reads a file with: the safety of Association, for any    *)
(* sessions, texts, moments, lines and number of starts remembered.        *)
(*                                                                         *)
(* The reader cannot know whether a line is missing.  StartInv says what   *)
(* it can rely on all the same: a start in pending is that of the call     *)
(* that runs in its session, unless a call ended without a line; and then  *)
(* the next announced call of the session makes its start ambiguous.       *)
(* WholeInv says that a start is only driven out by as many sessions as    *)
(* the reader remembers.                                                   *)
(***************************************************************************)
(* The starts that are remembered: one of a session and of a call, of      *)
(* calls that were announced.                                              *)
PendingInv ==
    /\ \A e, f \in pending : e.key = f.key \/ e.ref = f.ref => e = f
    /\ \A e \in pending :
          /\ e.key \notin Nameless /\ e.ref <= calls /\ e.sql \in Announced
          /\ e.valid => e.at # None

(* A start is that of the call that runs in its session, unless an end     *)
(* went unheard and the call that runs now is not announced.               *)
StartInv ==
    \A e \in pending :
        /\ e.key \notin unheard => call[e.key] # None
        /\ LET c == call[e.key] IN
           c # None /\ (e.key \notin unheard \/ c.sql \in Announced) =>
              /\ e.ref = c.id /\ e.sql = c.sql /\ e.at = c.at
              /\ e.valid => e.kind = c.kind

(* The start of the call c of session s is remembered without a doubt, and *)
(* only sessions that announced calls since come after it.                 *)
Supported(c, s) ==
    \E e \in pending :
        /\ e.key = s /\ e.ref = c.id /\ e.sql = c.sql /\ e.at = c.at
        /\ e.valid /\ ~e.ambiguous
        /\ \A f \in pending : f.ref > e.ref => f.key \in c.later

WholeInv ==
    \A s \in Session : call[s] # None =>
        /\ IsFiniteSet(call[s].later)
        /\ call[s].whole /\ Cardinality(call[s].later) < max_sessions => Supported(call[s], s)

ReaderInv == ReaderTypeOK /\ PendingInv /\ StartInv /\ WholeInv

-----------------------------------------------------------------------------
(* What the assumptions say, as plain facts. *)
LEMMA ReaderConstants ==
    /\ Nameless \subseteq Session /\ Announced \subseteq Sql
    /\ Moment \subseteq Nat /\ None \notin Nat /\ None \notin Session
    /\ max_sessions \in Nat /\ max_sessions > 0 /\ MaxCalls \in Nat
    /\ None \notin Call /\ None \notin PairReasons
BY AssociationAssumption, NoneAssumption DEF AssociationAssumption, NoneAssumption

(* Of some starts one is the oldest. *)
LEMMA OldestIs ==
    ASSUME NEW es, es \subseteq Start, es # {}
    PROVE  Oldest(es) \in es /\ \A f \in es : Oldest(es).ref <= f.ref
<1>. DEFINE ns == {e.ref : e \in es}
<1>1. ns \subseteq Nat /\ ns # {}
  BY DEF Start
<1>2. PICK n \in ns : \A m \in ns : <<m, n>> \notin OpToRel(<, Nat)
  BY <1>1, NatLessThanWellFounded, WFMin
<1>3. ASSUME NEW m \in ns PROVE ~(m < n)
  BY <1>1, <1>2, Zenon DEF OpToRel
<1>4. PICK e \in es : e.ref = n
  OBVIOUS
<1>5. \A f \in es : e.ref <= f.ref
  <2>1. ASSUME NEW f \in es PROVE e.ref <= f.ref
    <3>1. f.ref \in ns /\ f.ref \in Nat /\ e.ref \in Nat
      BY <1>1
    <3>. QED BY <1>3, <1>4, <3>1
  <2>. QED BY <2>1
<1>. QED BY <1>4, <1>5 DEF Oldest

(* The start that an announcement leaves. *)
Entry(key, c, form) ==
    [key |-> key, ref |-> c.id, sql |-> c.sql, at |-> c.at,
     ambiguous |-> Of(key) # {},
     kind |-> IF form THEN c.kind ELSE "execute_first",
     valid |-> form /\ c.at # None]

(* A new start takes the place of the one of its session, and drives out   *)
(* the oldest one only when too many are younger.                          *)
LEMMA RememberedIs ==
    ASSUME ReaderTypeOK, PendingInv,
           NEW key \in Session, NEW c \in Call, c.id = calls + 1, NEW form \in BOOLEAN,
           NEW new, new = Entry(key, c, form), NEW es, es = Remembered(key, c, form)
    PROVE  /\ new \in Start /\ es \subseteq Start
           /\ IsFiniteSet(es) /\ Cardinality(es) <= max_sessions
           /\ es \subseteq Without(key) \cup {new} /\ new \in es
           /\ \A e \in Without(key) \ es :
                 LET others == (Without(key) \cup {new}) \ {e} IN
                 /\ IsFiniteSet(others) /\ Cardinality(others) >= max_sessions
                 /\ \A f \in others : f.ref > e.ref
<1>. DEFINE old == Without(key)
            all == old \cup {new}
<1>1. new \in Start
  BY DEF Entry, Start, Call, Kind
<1>2. old \subseteq Start /\ \A e \in old : e \in pending /\ e.ref <= calls
  BY DEF Without, ReaderTypeOK, PendingInv
<1>3. /\ pending \subseteq Start /\ IsFiniteSet(pending)
      /\ Cardinality(pending) <= max_sessions /\ Cardinality(pending) \in Nat
  BY FS_CardinalityType DEF ReaderTypeOK
<1>4. IsFiniteSet(old) /\ Cardinality(old) <= max_sessions /\ Cardinality(old) \in Nat
  <2>1. old \in SUBSET pending
    BY DEF Without
  <2>2. IsFiniteSet(old) /\ Cardinality(old) <= Cardinality(pending)
    BY <1>3, <2>1, FS_Subset
  <2>3. Cardinality(old) \in Nat
    BY <2>2, FS_CardinalityType
  <2>. QED BY <1>3, <2>2, <2>3, ReaderConstants
<1>5. new \notin old /\ new.ref = calls + 1 /\ calls \in Nat
  <2>1. new.ref = calls + 1 /\ calls \in Nat
    BY DEF Entry, ReaderTypeOK
  <2>2. ASSUME new \in old PROVE FALSE
    BY <1>2, <2>1, <2>2
  <2>. QED BY <2>1, <2>2
<1>6. IsFiniteSet(all) /\ Cardinality(all) = Cardinality(old) + 1
  BY <1>4, <1>5, FS_AddElement
<1>7. es = IF Cardinality(all) > max_sessions THEN all \ {Oldest(all)} ELSE all
  BY DEF Remembered, Entry
<1>8. old = Without(key)
  OBVIOUS
<1>. HIDE DEF old
<1>9. CASE Cardinality(all) > max_sessions
  <2>1. all \subseteq Start /\ all # {}
    BY <1>1, <1>2
  <2>2. Oldest(all) \in all /\ \A f \in all : Oldest(all).ref <= f.ref
    BY <2>1, OldestIs
  <2>3. PICK x \in all : x = Oldest(all)
    BY <2>2
  <2>4. \A f \in all : x.ref <= f.ref
    BY <2>2, <2>3
  <2>5. es = all \ {x}
    BY <1>7, <1>9, <2>3
  <2>6. IsFiniteSet(es) /\ Cardinality(es) = Cardinality(old)
    <3>1. IsFiniteSet(all \ {x}) /\ Cardinality(all \ {x}) = Cardinality(all) - 1
      BY <1>6, FS_RemoveElement
    <3>. QED BY <1>4, <1>6, <2>5, <3>1
  <2>7. Cardinality(old) = max_sessions
    BY <1>4, <1>6, <1>9, ReaderConstants
  <2>8. x # new
    <3>1. old # {}
      BY <1>4, <2>7, FS_EmptySet, ReaderConstants
    <3>2. PICK e \in old : TRUE
      BY <3>1
    <3>3. x.ref <= e.ref /\ e.ref <= calls /\ e.ref \in Nat
      BY <1>2, <2>4, <3>2 DEF Start
    <3>4. x.ref \in Nat
      BY <2>1 DEF Start
    <3>. QED BY <1>5, <3>3, <3>4
  <2>9. \A f \in all \ {x} : f.ref > x.ref
    <3>1. ASSUME NEW f \in all \ {x} PROVE f.ref > x.ref
      <4>1. f.ref \in Nat /\ x.ref \in Nat /\ x.ref <= f.ref
        BY <2>1, <2>4 DEF Start
      <4>2. x \in old /\ x.ref <= calls
        BY <1>2, <2>8
      <4>3. CASE f = new
        BY <1>5, <4>1, <4>2, <4>3
      <4>4. CASE f # new
        <5>1. f \in pending /\ x \in pending
          BY <1>2, <4>2, <4>4
        <5>2. f.ref # x.ref
          BY <5>1 DEF PendingInv
        <5>. QED BY <4>1, <5>2
      <4>. QED BY <4>3, <4>4
    <3>. QED BY <3>1
  <2>10. old \ es = {x}
    BY <2>5, <2>8
  <2>11. Cardinality(es) <= max_sessions /\ Cardinality(es) >= max_sessions
    BY <2>6, <2>7, ReaderConstants
  <2>. QED BY <1>1, <1>8, <2>1, <2>5, <2>6, <2>8, <2>9, <2>10, <2>11
<1>10. CASE ~(Cardinality(all) > max_sessions)
  <2>1. es = all
    BY <1>7, <1>10
  <2>2. Cardinality(es) <= max_sessions
    BY <1>4, <1>6, <1>10, <2>1, ReaderConstants
  <2>. QED BY <1>1, <1>2, <1>6, <1>8, <2>1, <2>2
<1>. QED BY <1>9, <1>10

(* What the begin of a call changes. *)
Begun(s, sql, kind, new, form) ==
    LET told == sql \in Announced IN
    /\ call[s] = None /\ calls < MaxCalls /\ calls' = calls + 1
    /\ event' = None /\ unheard' = unheard
    /\ new.id = calls + 1 /\ new.sql = sql /\ new.kind = kind /\ new.later = {}
    /\ new.whole => told /\ form /\ new.at # None /\ s \notin Nameless \cup unheard
    /\ call' \in [Session -> Call \cup {None}] /\ call'[s] = new
    /\ \A t \in Session \ {s} :
          /\ call'[t] \in Call \cup {None}
          /\ call'[t] # None <=> call[t] # None
          /\ call[t] # None =>
                /\ call'[t].id = call[t].id /\ call'[t].sql = call[t].sql
                /\ call'[t].kind = call[t].kind /\ call'[t].at = call[t].at
                /\ call'[t].whole = call[t].whole
                /\ call'[t].later = IF told THEN call[t].later \cup {s} ELSE call[t].later
    /\ pending' = IF told /\ s \notin Nameless THEN Remembered(s, new, form) ELSE pending

(* Every Begin is such a begin. *)
LEMMA BeginIs ==
    ASSUME ReaderTypeOK,
           NEW s \in Session, NEW sql \in Sql, NEW kind \in Kind,
           Begin(s, sql, kind)
    PROVE  \E new \in Call, form \in BOOLEAN : Begun(s, sql, kind, new, form)
<1>1. PICK when \in Stamp, form \in BOOLEAN :
         LET told == sql \in Announced
             new  == [id |-> calls + 1, sql |-> sql, kind |-> kind, at |-> when,
                      whole |-> told /\ form /\ when # None /\ s \notin Nameless \cup unheard,
                      later |-> {}]
         IN /\ told \/ (when = None /\ ~form)
            /\ call' = [t \in Session |->
                 IF t = s THEN new
                 ELSE IF call[t] = None \/ ~told THEN call[t]
                 ELSE [call[t] EXCEPT !.later = @ \cup {s}]]
            /\ pending' = IF told /\ session(s) # None
                          THEN Remembered(session(s), new, form) ELSE pending
  BY DEF Begin
<1>2. PICK whole \in BOOLEAN :
         whole = (sql \in Announced /\ form /\ when # None /\ s \notin Nameless \cup unheard)
  OBVIOUS
<1>3. PICK new : new = [id |-> calls + 1, sql |-> sql, kind |-> kind, at |-> when,
                        whole |-> whole, later |-> {}]
  OBVIOUS
<1>4. /\ call[s] = None /\ calls < MaxCalls /\ calls' = calls + 1
      /\ event' = None /\ unheard' = unheard
  BY DEF Begin
<1>5. calls + 1 \in 1 .. MaxCalls
  BY <1>4, ReaderConstants DEF ReaderTypeOK
<1>6. new \in Call
  BY <1>3, <1>5 DEF Call
<1>7. call' = [t \in Session |->
                 IF t = s THEN new
                 ELSE IF call[t] = None \/ ~(sql \in Announced) THEN call[t]
                 ELSE [call[t] EXCEPT !.later = @ \cup {s}]]
  BY <1>1, <1>2, <1>3
<1>8. pending' = IF sql \in Announced /\ s \notin Nameless THEN Remembered(s, new, form)
                 ELSE pending
  BY <1>1, <1>2, <1>3, ReaderConstants DEF session
<1>9. ASSUME NEW t \in Session \ {s}
      PROVE  /\ call'[t] \in Call \cup {None}
             /\ call'[t] # None <=> call[t] # None
             /\ call[t] # None =>
                /\ call'[t].id = call[t].id /\ call'[t].sql = call[t].sql
                /\ call'[t].kind = call[t].kind /\ call'[t].at = call[t].at
                /\ call'[t].whole = call[t].whole
                /\ call'[t].later = IF sql \in Announced THEN call[t].later \cup {s}
                                    ELSE call[t].later
  <2>1. call[t] \in Call \cup {None} /\ None \notin Call
    BY ReaderConstants DEF ReaderTypeOK
  <2>2. CASE call[t] = None \/ sql \notin Announced
    BY <1>7, <2>1, <2>2
  <2>3. CASE ~(call[t] = None \/ sql \notin Announced)
    <3>1. PICK c \in Call : c = call[t]
      BY <2>1, <2>3
    <3>2. call'[t] = [c EXCEPT !.later = c.later \cup {s}]
      BY <1>7, <2>3, <3>1
    <3>3. /\ [c EXCEPT !.later = c.later \cup {s}] \in Call
          /\ call'[t].id = c.id /\ call'[t].sql = c.sql
          /\ call'[t].kind = c.kind /\ call'[t].at = c.at
          /\ call'[t].whole = c.whole /\ call'[t].later = c.later \cup {s}
      BY <3>2 DEF Call
    <3>. QED BY <2>1, <2>3, <3>1, <3>2, <3>3
  <2>. QED BY <2>2, <2>3
<1>10. Begun(s, sql, kind, new, form)
  <2>1. call' \in [Session -> Call \cup {None}] /\ call'[s] = new
    BY <1>6, <1>7, <1>9
  <2>2. /\ new.id = calls + 1 /\ new.sql = sql /\ new.kind = kind /\ new.later = {}
        /\ new.whole = whole /\ new.at = when
    BY <1>3
  <2>. QED BY <1>2, <1>4, <1>8, <1>9, <2>1, <2>2 DEF Begun
<1>. QED BY <1>6, <1>10

(* What the other lines change: a line that ends a call or a request, a    *)
(* call that ends without a line, and the next file.                       *)
Cleared(s) ==
    /\ pending' = Without(session(s)) /\ unheard' = unheard \ {s} /\ calls' = calls
    /\ call' = [call EXCEPT ![s] = None]

(* No other line changes anything else. *)
LEMMA ReaderSteps ==
    ASSUME ReaderTypeOK, ReaderNext
    PROVE  \/ \E s \in Session, sql \in Sql, kind \in Kind : Begin(s, sql, kind)
           \/ \E s \in Session : Cleared(s) \/ EndUnheard(s)
           \/ UNCHANGED <<call, calls, pending, unheard>>
           \/ NextReader
<1>1. ASSUME NEW s \in Session, End(s) \/ Fail(s)
      PROVE  Cleared(s)
  BY <1>1 DEF End, Fail, Over, Cleared
<1>2. ASSUME NEW s \in Session, Phase(s)
      PROVE  Cleared(s)
  <2>1. call = [call EXCEPT ![s] = None]
    BY <1>2 DEF Phase, ReaderTypeOK
  <2>. QED BY <1>2, <2>1 DEF Phase, Cleared
<1>3. ASSUME NEW s \in Session, Internal(s)
      PROVE  UNCHANGED <<call, calls, pending, unheard>>
  BY <1>3 DEF Internal
<1>. QED BY <1>1, <1>2, <1>3 DEF ReaderNext

(* A begin keeps the invariant: its start is the youngest, and a start     *)
(* that it drives out is older than max_sessions others, so that as many   *)
(* sessions announced calls since.                                         *)
LEMMA BegunStep ==
    ASSUME ReaderInv,
           NEW s \in Session, NEW sql \in Sql, NEW kind \in Kind,
           NEW new \in Call, NEW form \in BOOLEAN, Begun(s, sql, kind, new, form)
    PROVE  ReaderInv'
<1>. DEFINE told == sql \in Announced
<1>1. PICK added : added = Entry(s, new, form)
  OBVIOUS
<1>2. /\ added.key = s /\ added.ref = calls + 1 /\ added.sql = sql /\ added.at = new.at
      /\ added.ambiguous = (Of(s) # {})
      /\ added.kind = IF form THEN kind ELSE "execute_first"
      /\ added.valid = (form /\ new.at # None)
  BY <1>1 DEF Entry, Begun
<1>3. calls \in Nat /\ calls' = calls + 1 /\ calls' \in 0 .. MaxCalls
  BY ReaderConstants DEF Begun, ReaderInv, ReaderTypeOK
<1>4. /\ new # None /\ call[s] = None /\ call'[s] = new /\ unheard' = unheard
      /\ new.id = calls + 1 /\ new.sql = sql /\ new.kind = kind /\ new.later = {}
      /\ new.whole => told /\ form /\ new.at # None /\ s \notin Nameless \cup unheard
  BY ReaderConstants DEF Begun
<1>5. CASE told /\ s \notin Nameless
  <2>. DEFINE old == Without(s)
  <2>1. /\ added \in Start /\ pending' \subseteq Start
        /\ IsFiniteSet(pending') /\ Cardinality(pending') <= max_sessions
        /\ pending' \subseteq old \cup {added} /\ added \in pending'
        /\ \A e \in old \ pending' :
              LET others == (old \cup {added}) \ {e} IN
              /\ IsFiniteSet(others) /\ Cardinality(others) >= max_sessions
              /\ \A f \in others : f.ref > e.ref
    <3>1. pending' = Remembered(s, new, form)
      BY <1>5 DEF Begun
    <3>. QED BY <1>1, <1>4, <3>1, RememberedIs DEF ReaderInv
  <2>2. \A e \in old : e \in pending /\ e.key # s /\ e.ref <= calls /\ e.ref \in Nat
    BY DEF Without, ReaderInv, PendingInv, ReaderTypeOK, Start
  <2>3. \A e \in pending : e.key # s => e \in old
    BY DEF Without
  <2>. HIDE DEF old
  <2>4. ReaderTypeOK'
    BY <1>3, <2>1 DEF ReaderTypeOK, Begun, ReaderInv
  <2>5. PendingInv'
    <3>1. \A e, f \in old \cup {added} : e.key = f.key \/ e.ref = f.ref => e = f
      BY <1>2, <1>3, <2>2 DEF ReaderInv, PendingInv
    <3>2. /\ added.key \notin Nameless /\ added.ref <= calls' /\ added.sql \in Announced
          /\ added.valid => added.at # None
      <4>1. added.key \notin Nameless /\ added.sql \in Announced
        BY <1>2, <1>5
      <4>2. added.ref <= calls'
        BY <1>2, <1>3
      <4>3. added.valid => added.at # None
        BY <1>2, Zenon
      <4>. QED BY <4>1, <4>2, <4>3
    <3>3. \A e \in old :
             /\ e.key \notin Nameless /\ e.ref <= calls' /\ e.sql \in Announced
             /\ e.valid => e.at # None
      BY <1>3, <2>2 DEF ReaderInv, PendingInv
    <3>. QED BY <2>1, <3>1, <3>2, <3>3 DEF PendingInv
  <2>6. StartInv'
    <3>1. ASSUME NEW e \in pending'
          PROVE  /\ e.key \notin unheard' => call'[e.key] # None
                 /\ LET c == call'[e.key] IN
                    c # None /\ (e.key \notin unheard' \/ c.sql \in Announced) =>
                       /\ e.ref = c.id /\ e.sql = c.sql /\ e.at = c.at
                       /\ e.valid => e.kind = c.kind
      <4>1. CASE e = added
        BY <1>2, <1>4, <4>1
      <4>2. CASE e # added
        <5>1. e \in pending /\ e.key \in Session \ {s}
          BY <2>1, <2>2, <4>2 DEF Start
        <5>. QED BY <1>4, <5>1 DEF ReaderInv, StartInv, Begun
      <4>. QED BY <4>1, <4>2
    <3>. QED BY <3>1 DEF StartInv
  <2>7. WholeInv'
    <3>1. /\ IsFiniteSet(new.later)
          /\ new.whole => Supported(new, s)'
      <4>1. IsFiniteSet(new.later)
        BY <1>4, FS_EmptySet
      <4>2. ASSUME new.whole PROVE Supported(new, s)'
        <5>1. form /\ new.at # None /\ s \notin unheard
          BY <1>4, <4>2
        <5>2. Of(s) = {}
          BY <1>4, <5>1 DEF Of, ReaderInv, StartInv
        <5>3. \A f \in pending' : ~(f.ref > added.ref)
          BY <1>2, <1>3, <2>1, <2>2
        <5>. QED BY <1>2, <1>4, <2>1, <5>1, <5>2, <5>3 DEF Supported
      <4>. QED BY <4>1, <4>2
    <3>2. ASSUME NEW t \in Session \ {s}, call'[t] # None
          PROVE  /\ IsFiniteSet(call'[t].later)
                 /\ call'[t].whole /\ Cardinality(call'[t].later) < max_sessions =>
                       Supported(call[t], t)'
      <4>1. PICK c : c = call[t]
        OBVIOUS
      <4>2. PICK d : d = call'[t]
        OBVIOUS
      <4>3. /\ c # None /\ d.id = c.id /\ d.sql = c.sql /\ d.at = c.at
            /\ d.whole = c.whole /\ d.later = c.later \cup {s}
        BY <1>5, <3>2, <4>1, <4>2 DEF Begun
      <4>4. /\ IsFiniteSet(c.later)
            /\ c.whole /\ Cardinality(c.later) < max_sessions => Supported(c, t)
        BY <4>1, <4>3 DEF ReaderInv, WholeInv
      <4>5. IsFiniteSet(d.later) /\ Cardinality(d.later) \in Nat
        <5>1. IsFiniteSet(c.later \cup {s})
          BY <4>4, FS_AddElement
        <5>2. IsFiniteSet(d.later)
          BY <4>3, <4>4, <5>1
        <5>. QED BY <5>2, FS_CardinalityType
      <4>6. ASSUME d.whole, Cardinality(d.later) < max_sessions PROVE Supported(d, t)'
        <5>1. Cardinality(c.later) <= Cardinality(d.later) /\ Cardinality(c.later) \in Nat
          <6>1. c.later \in SUBSET d.later
            BY <4>3
          <6>. QED BY <4>4, <4>5, <6>1, FS_Subset, FS_CardinalityType
        <5>2. Supported(c, t)
          BY <4>3, <4>4, <4>5, <4>6, <5>1, ReaderConstants
        <5>3. PICK e \in pending :
                  /\ e.key = t /\ e.ref = c.id /\ e.sql = c.sql /\ e.at = c.at
                  /\ e.valid /\ ~e.ambiguous
                  /\ \A f \in pending : f.ref > e.ref => f.key \in c.later
          BY <5>2 DEF Supported
        <5>4. e \in old
          BY <2>3, <5>3
        <5>5. \A f \in old \cup {added} : f.ref > e.ref => f.key \in d.later
          BY <1>2, <2>2, <4>3, <5>3
        <5>6. e \in pending'
          <6>1. SUFFICES ASSUME e \notin pending' PROVE FALSE
            OBVIOUS
          <6>2. PICK others : others = (old \cup {added}) \ {e}
            OBVIOUS
          <6>3. /\ IsFiniteSet(others) /\ Cardinality(others) >= max_sessions
                /\ \A f \in others : f.ref > e.ref
            BY <2>1, <5>4, <6>1, <6>2
          <6>4. \A f \in others : f.key \in d.later
            BY <5>5, <6>2, <6>3
          <6>5. PICK g \in [others -> d.later] : \A f \in others : g[f] = f.key
            <7>1. [f \in others |-> f.key] \in [others -> d.later]
              BY <6>4
            <7>. QED BY <7>1
          <6>6. Cardinality(others) \in Nat
            BY <6>3, FS_CardinalityType
          <6>7. Cardinality(d.later) < Cardinality(others)
            BY <4>5, <4>6, <6>3, <6>6, ReaderConstants
          <6>8. PICK x, y \in others : x # y /\ g[x] = g[y]
            BY <4>5, <6>3, <6>7, FS_PigeonHole
          <6>9. x.key = y.key /\ x \in old \cup {added} /\ y \in old \cup {added}
            BY <6>2, <6>5, <6>8
          <6>. QED BY <1>2, <2>2, <6>8, <6>9 DEF ReaderInv, PendingInv
        <5>. QED BY <2>1, <4>3, <5>3, <5>5, <5>6 DEF Supported
      <4>. QED BY <4>2, <4>5, <4>6
    <3>3. ASSUME NEW t \in Session, call'[t] # None
          PROVE  /\ IsFiniteSet(call'[t].later)
                 /\ call'[t].whole /\ Cardinality(call'[t].later) < max_sessions =>
                       Supported(call[t], t)'
      BY <1>4, <3>1, <3>2, <3>3
    <3>. QED BY <3>3 DEF WholeInv
  <2>. QED BY <2>4, <2>5, <2>6, <2>7 DEF ReaderInv
<1>6. CASE ~(told /\ s \notin Nameless)
  <2>1. pending' = pending /\ ~new.whole
    BY <1>4, <1>6 DEF Begun
  <2>2. ReaderTypeOK'
    BY <1>3, <2>1 DEF ReaderTypeOK, Begun, ReaderInv
  <2>3. PendingInv'
    BY <1>3, <2>1 DEF ReaderInv, PendingInv, ReaderTypeOK, Start
  <2>4. StartInv'
    <3>1. ASSUME NEW e \in pending'
          PROVE  /\ e.key \notin unheard' => call'[e.key] # None
                 /\ LET c == call'[e.key] IN
                    c # None /\ (e.key \notin unheard' \/ c.sql \in Announced) =>
                       /\ e.ref = c.id /\ e.sql = c.sql /\ e.at = c.at
                       /\ e.valid => e.kind = c.kind
      <4>1. e \in pending /\ e.key \in Session \ Nameless
        BY <2>1 DEF ReaderInv, ReaderTypeOK, PendingInv, Start
      <4>2. CASE e.key = s
        <5>1. s \in unheard
          BY <1>4, <4>1, <4>2 DEF ReaderInv, StartInv
        <5>2. sql \notin Announced
          BY <1>6, <4>1, <4>2
        <5>. QED BY <1>4, <4>2, <5>1, <5>2
      <4>3. CASE e.key # s
        BY <1>4, <4>1, <4>3 DEF ReaderInv, StartInv, Begun
      <4>. QED BY <4>2, <4>3
    <3>. QED BY <3>1 DEF StartInv
  <2>5. WholeInv'
    <3>1. ASSUME NEW t \in Session \ {s}, call'[t] # None
          PROVE  /\ IsFiniteSet(call'[t].later)
                 /\ call'[t].whole /\ Cardinality(call'[t].later) < max_sessions =>
                       Supported(call[t], t)'
      <4>1. PICK c : c = call[t]
        OBVIOUS
      <4>2. PICK d : d = call'[t]
        OBVIOUS
      <4>3. /\ c # None /\ d.id = c.id /\ d.sql = c.sql /\ d.at = c.at
            /\ d.whole = c.whole /\ d.later \in {c.later, c.later \cup {s}}
        BY <3>1, <4>1, <4>2 DEF Begun
      <4>4. /\ IsFiniteSet(c.later)
            /\ c.whole /\ Cardinality(c.later) < max_sessions => Supported(c, t)
        BY <4>1, <4>3 DEF ReaderInv, WholeInv
      <4>5. IsFiniteSet(d.later) /\ Cardinality(d.later) \in Nat
        <5>1. IsFiniteSet(c.later \cup {s})
          BY <4>4, FS_AddElement
        <5>2. IsFiniteSet(d.later)
          BY <4>3, <4>4, <5>1
        <5>. QED BY <5>2, FS_CardinalityType
      <4>6. ASSUME d.whole, Cardinality(d.later) < max_sessions PROVE Supported(d, t)'
        <5>1. Cardinality(c.later) <= Cardinality(d.later) /\ Cardinality(c.later) \in Nat
          <6>1. c.later \in SUBSET d.later
            BY <4>3
          <6>. QED BY <4>4, <4>5, <6>1, FS_Subset, FS_CardinalityType
        <5>2. Supported(c, t)
          BY <4>3, <4>4, <4>5, <4>6, <5>1, ReaderConstants
        <5>. QED BY <2>1, <4>3, <5>2 DEF Supported
      <4>. QED BY <4>2, <4>5, <4>6
    <3>2. IsFiniteSet(new.later)
      BY <1>4, FS_EmptySet
    <3>3. ASSUME NEW t \in Session, call'[t] # None
          PROVE  /\ IsFiniteSet(call'[t].later)
                 /\ call'[t].whole /\ Cardinality(call'[t].later) < max_sessions =>
                       Supported(call[t], t)'
      BY <1>4, <2>1, <3>1, <3>2, <3>3
    <3>. QED BY <3>3 DEF WholeInv
  <2>. QED BY <2>2, <2>3, <2>4, <2>5 DEF ReaderInv
<1>. QED BY <1>5, <1>6

(* So do the other lines: only starts that can support nothing more go. *)
LEMMA ClearedStep ==
    ASSUME ReaderInv,
           NEW s \in Session, Cleared(s)
    PROVE  ReaderInv'
<1>1. /\ call \in [Session -> Call \cup {None}]
      /\ pending \subseteq Start /\ IsFiniteSet(pending) /\ unheard \subseteq Session
      /\ Cardinality(pending) <= max_sessions /\ calls \in 0 .. MaxCalls
  BY DEF ReaderInv, ReaderTypeOK
<1>2. /\ call' \in [Session -> Call \cup {None}] /\ call'[s] = None
      /\ \A t \in Session \ {s} : call'[t] = call[t]
      /\ calls' = calls /\ unheard' = unheard \ {s}
  BY <1>1 DEF Cleared
<1>3. \A e \in pending : e.key \in Session \ Nameless
  BY <1>1 DEF ReaderInv, PendingInv, Start
<1>4. \A e : e \in pending' <=> e \in pending /\ e.key # s
  <2>1. pending' = Without(session(s))
    BY DEF Cleared
  <2>. QED BY <1>3, <2>1, ReaderConstants DEF Without, session
<1>5. ReaderTypeOK'
  <2>1. pending' \in SUBSET pending
    BY <1>4
  <2>2. IsFiniteSet(pending') /\ Cardinality(pending') <= Cardinality(pending)
    BY <1>1, <2>1, FS_Subset
  <2>3. Cardinality(pending') \in Nat /\ Cardinality(pending) \in Nat
    BY <1>1, <2>2, FS_CardinalityType
  <2>4. Cardinality(pending') <= max_sessions
    BY <1>1, <2>2, <2>3, ReaderConstants
  <2>. QED BY <1>1, <1>2, <2>1, <2>2, <2>4 DEF ReaderTypeOK
<1>6. PendingInv'
  BY <1>2, <1>4 DEF ReaderInv, PendingInv
<1>7. StartInv'
  BY <1>2, <1>3, <1>4 DEF ReaderInv, StartInv
<1>8. WholeInv'
  <2>1. ASSUME NEW t \in Session \ {s}, NEW c, Supported(c, t)
        PROVE  Supported(c, t)'
    BY <1>4, <2>1 DEF Supported
  <2>2. ASSUME NEW t \in Session, call'[t] # None
        PROVE  /\ IsFiniteSet(call'[t].later)
               /\ call'[t].whole /\ Cardinality(call'[t].later) < max_sessions =>
                     Supported(call[t], t)'
    <3>1. PICK c : c = call[t]
      OBVIOUS
    <3>2. t # s /\ call'[t] = c /\ c # None
      BY <1>2, <2>2, <3>1
    <3>3. /\ IsFiniteSet(c.later)
          /\ c.whole /\ Cardinality(c.later) < max_sessions => Supported(c, t)
      BY <3>1, <3>2 DEF ReaderInv, WholeInv
    <3>. QED BY <2>1, <3>2, <3>3
  <2>. QED BY <2>2 DEF WholeInv
<1>. QED BY <1>5, <1>6, <1>7, <1>8 DEF ReaderInv

(* A call that ends without a line leaves its start; that the session is   *)
(* unheard is all that is remembered of it.                                *)
LEMMA UnheardStep ==
    ASSUME ReaderInv,
           NEW s \in Session, EndUnheard(s)
    PROVE  ReaderInv'
<1>1. /\ call \in [Session -> Call \cup {None}] /\ unheard \subseteq Session
      /\ call[s] # None
  BY DEF ReaderInv, ReaderTypeOK, EndUnheard
<1>2. /\ call' \in [Session -> Call \cup {None}] /\ call'[s] = None
      /\ \A t \in Session \ {s} : call'[t] = call[t]
      /\ calls' = calls /\ pending' = pending
      /\ unheard' = IF call[s].sql \in Announced THEN unheard \cup {s} ELSE unheard
  BY <1>1 DEF EndUnheard, Over
<1>3. ReaderTypeOK'
  BY <1>1, <1>2 DEF ReaderInv, ReaderTypeOK
<1>4. PendingInv'
  BY <1>2 DEF ReaderInv, PendingInv
<1>5. StartInv'
  <2>1. ASSUME NEW e \in pending, e.key = s PROVE s \in unheard'
    <3>1. CASE s \in unheard
      BY <1>2, <3>1
    <3>2. CASE s \notin unheard
      <4>1. call[s].sql = e.sql
        BY <1>1, <2>1, <3>2 DEF ReaderInv, StartInv
      <4>2. e.sql \in Announced
        BY DEF ReaderInv, PendingInv
      <4>. QED BY <1>2, <4>1, <4>2
    <3>. QED BY <3>1, <3>2
  <2>2. \A e \in pending : e.key \in Session
    BY DEF ReaderInv, ReaderTypeOK, Start
  <2>. QED BY <1>2, <2>1, <2>2 DEF ReaderInv, StartInv
<1>6. WholeInv'
  <2>2. ASSUME NEW t \in Session, call'[t] # None
        PROVE  /\ IsFiniteSet(call'[t].later)
               /\ call'[t].whole /\ Cardinality(call'[t].later) < max_sessions =>
                     Supported(call[t], t)'
    <3>1. PICK c : c = call[t]
      OBVIOUS
    <3>2. t # s /\ call'[t] = c /\ c # None
      BY <1>2, <2>2, <3>1
    <3>3. /\ IsFiniteSet(c.later)
          /\ c.whole /\ Cardinality(c.later) < max_sessions => Supported(c, t)
      BY <3>1, <3>2 DEF ReaderInv, WholeInv
    <3>4. Supported(c, t) => Supported(c, t)'
      BY <1>2 DEF Supported
    <3>. QED BY <3>2, <3>3, <3>4
  <2>. QED BY <2>2 DEF WholeInv
<1>. QED BY <1>3, <1>4, <1>5, <1>6 DEF ReaderInv

(* Of the file before nothing is left that could support a call. *)
LEMMA NextFileStep ==
    ASSUME ReaderInv, NextReader
    PROVE  ReaderInv'
<1>1. /\ pending' = {} /\ unheard' = {} /\ calls' = calls
      /\ call' = [s \in Session |-> IF call[s] = None THEN None
                                    ELSE [call[s] EXCEPT !.whole = FALSE]]
  BY DEF NextReader
<1>2. ASSUME NEW s \in Session
      PROVE  /\ call'[s] \in Call \cup {None}
             /\ call'[s] # None => call[s] # None /\ call'[s].later = call[s].later
                                   /\ ~call'[s].whole
  <2>1. CASE call[s] = None
    BY <1>1, <2>1
  <2>2. CASE call[s] # None
    <3>1. PICK c \in Call : c = call[s]
      BY <2>2 DEF ReaderInv, ReaderTypeOK
    <3>2. call'[s] = [c EXCEPT !.whole = FALSE]
      BY <1>1, <2>2, <3>1
    <3>3. /\ [c EXCEPT !.whole = FALSE] \in Call
          /\ call'[s].later = c.later /\ ~call'[s].whole
      BY <3>2 DEF Call
    <3>. QED BY <2>2, <3>1, <3>2, <3>3
  <2>. QED BY <2>1, <2>2
<1>3. ReaderTypeOK'
  <2>1. call' \in [Session -> Call \cup {None}]
    BY <1>1, <1>2
  <2>2. IsFiniteSet(pending') /\ Cardinality(pending') <= max_sessions
    BY <1>1, FS_EmptySet, ReaderConstants
  <2>. QED BY <1>1, <2>1, <2>2 DEF ReaderTypeOK, ReaderInv
<1>4. PendingInv' /\ StartInv'
  BY <1>1 DEF PendingInv, StartInv
<1>5. WholeInv'
  BY <1>2 DEF ReaderInv, WholeInv
<1>. QED BY <1>3, <1>4, <1>5 DEF ReaderInv

(* What says nothing leaves the invariant alone. *)
LEMMA SameReader ==
    ASSUME ReaderInv, UNCHANGED <<call, calls, pending, unheard>>
    PROVE  ReaderInv'
BY DEF ReaderInv, ReaderTypeOK, PendingInv, StartInv, WholeInv, Supported

(* An association is true because the only start of the session is that of *)
(* the call, and it is made because that start is still there.             *)
LEMMA EndIsExact ==
    ASSUME ReaderInv, NEW s \in Session, End(s)
    PROVE  AssociationIsExact'
<1>0. Moment \subseteq Nat
  BY ReaderConstants
<1>1. PICK when \in Stamp : event' = Timed(call[s], session(s), when)
  BY DEF End
<1>2. PICK c : c = call[s]
  OBVIOUS
<1>3. PICK reason : reason = PairReason(session(s), c.sql, when)
  OBVIOUS
<1>4. PICK start : start = CHOOSE e \in Of(session(s)) : TRUE
  OBVIOUS
<1>5. /\ event'.of = c /\ event'.at = when
      /\ event'.support = IF reason = None THEN start.ref ELSE None
      /\ event'.timing = IF reason = None THEN start.kind ELSE None
  BY <1>1, <1>2, <1>3, <1>4 DEF Timed
<1>6. c \in Call /\ c # None /\ when \in Moment \cup {None} /\ None \notin PairReasons
  BY <1>2, ReaderConstants DEF End, ReaderInv, ReaderTypeOK, Stamp
<1>7. /\ session(s) = None <=> s \in Nameless
      /\ s \notin Nameless => session(s) = s
  BY ReaderConstants DEF session
<1>8. PairedIsTrue'
  <2>1. SUFFICES ASSUME reason = None
                 PROVE  start.ref = c.id /\ start.kind = c.kind /\ c.at <= when
    BY <1>5 DEF PairedIsTrue
  <2>2. /\ session(s) # None /\ Of(session(s)) # {}
        /\ \A e \in Of(session(s)) :
              ~e.ambiguous /\ e.valid /\ e.sql = c.sql /\ ~(e.at > when)
        /\ when # None
    BY <1>3, <1>6, <2>1 DEF PairReason, PairReasons
  <2>3. start \in pending /\ start.key = s /\ start.valid /\ start.sql = c.sql
        /\ ~(start.at > when)
    BY <1>4, <1>7, <2>2 DEF Of
  <2>4. start.sql \in Announced /\ start.at # None /\ start.at \in Moment
    BY <2>3 DEF ReaderInv, PendingInv, ReaderTypeOK, Start, Stamp
  <2>5. start.ref = c.id /\ start.at = c.at /\ start.kind = c.kind
    BY <1>2, <1>6, <2>3, <2>4 DEF ReaderInv, StartInv
  <2>6. when \in Nat /\ c.at \in Nat /\ ~(c.at > when)
    BY <1>0, <1>6, <2>2, <2>3, <2>4, <2>5
  <2>. QED BY <2>5, <2>6
<1>9. WholeIsPaired'
  <2>1. SUFFICES ASSUME c.whole, Cardinality(c.later) < max_sessions, when # None, c.at <= when
                 PROVE  reason = None /\ start.ref # None
    BY <1>5 DEF WholeIsPaired
  <2>2. PICK e \in pending :
          /\ e.key = s /\ e.ref = c.id /\ e.sql = c.sql /\ e.at = c.at
          /\ e.valid /\ ~e.ambiguous
    BY <1>2, <1>6, <2>1 DEF ReaderInv, WholeInv, Supported
  <2>3. s \notin Nameless /\ e.at # None /\ e.at \in Moment
    BY <2>2 DEF ReaderInv, PendingInv, ReaderTypeOK, Start, Stamp
  <2>4. Of(session(s)) = {e}
    BY <1>7, <2>2, <2>3 DEF Of, ReaderInv, PendingInv
  <2>5. start = e
    BY <1>4, <2>4
  <2>6. ~(e.at > when)
    <3>1. when \in Nat /\ e.at \in Nat /\ e.at <= when
      BY <1>0, <1>6, <2>1, <2>2, <2>3
    <3>. QED BY <3>1
  <2>7. reason = None
    BY <1>3, <1>7, <2>1, <2>2, <2>3, <2>4, <2>6, ReaderConstants DEF PairReason
  <2>8. e.ref \in Nat
    BY <2>2 DEF ReaderInv, ReaderTypeOK, Start
  <2>. QED BY <2>5, <2>7, <2>8, ReaderConstants
<1>. QED BY <1>8, <1>9 DEF AssociationIsExact

(* Only an end makes an association. *)
LEMMA EventIsExact ==
    ASSUME ReaderInv, ReaderNext
    PROVE  AssociationIsExact'
<1>1. CASE event' = None
  BY <1>1 DEF AssociationIsExact, PairedIsTrue, WholeIsPaired
<1>2. CASE \E s \in Session : End(s)
  BY <1>2, EndIsExact
<1>3. (\E s \in Session : End(s)) \/ event' = None
  BY DEF ReaderNext, Begin, EndUnheard, Fail, Phase,
     Internal, NextReader
<1>. QED BY <1>1, <1>2, <1>3

(* Every step keeps the invariant, and what it says of its line is exact. *)
LEMMA ReaderStep ==
    ASSUME ReaderInv, AssociationIsExact,
           [ReaderNext]_readerVars
    PROVE  (ReaderInv /\ AssociationIsExact)'
<1>1. CASE ReaderNext
  <2>1. ASSUME NEW s \in Session, NEW sql \in Sql, NEW kind \in Kind,
               Begin(s, sql, kind)
        PROVE  ReaderInv'
    BY <2>1, BeginIs, BegunStep DEF ReaderInv
  <2>2. ReaderInv'
    BY <1>1, <2>1, ReaderSteps, ClearedStep, UnheardStep, SameReader, NextFileStep
       DEF ReaderInv
  <2>. QED BY <1>1, <2>2, EventIsExact
<1>2. CASE UNCHANGED readerVars
  BY <1>2, SameReader DEF readerVars, AssociationIsExact, PairedIsTrue,
     WholeIsPaired
<1>. QED BY <1>1, <1>2

(* In the beginning nothing is remembered. *)
LEMMA ReaderInvInit ==
    ASSUME ReaderInit
    PROVE  ReaderInv /\ AssociationIsExact
<1>1. ReaderTypeOK
  BY ReaderConstants, FS_EmptySet DEF ReaderInit, ReaderTypeOK
<1>2. PendingInv /\ StartInv /\ WholeInv
  BY DEF ReaderInit, PendingInv, StartInv, WholeInv
<1>3. AssociationIsExact
  BY DEF ReaderInit, AssociationIsExact, PairedIsTrue, WholeIsPaired
<1>. QED BY <1>1, <1>2, <1>3 DEF ReaderInv

(* Whatever lines are missing, the reader's associations are true, and     *)
(* they are made where nothing is missing (Interpreter.interpret).         *)
THEOREM AssociationsAreExact == ReaderSpec => []AssociationIsExact
<1>1. ReaderInit => ReaderInv /\ AssociationIsExact
  BY ReaderInvInit
<1>2. ReaderInv /\ AssociationIsExact /\ [ReaderNext]_readerVars
         => (ReaderInv /\ AssociationIsExact)'
  BY ReaderStep
<1>. QED BY <1>1, <1>2, PTL DEF ReaderSpec
=============================================================================
