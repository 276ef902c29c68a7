------------------------------ MODULE Importer ------------------------------
(***************************************************************************)
(* The import of log files of one source in batches                        *)
(* (sql_apm/ingestion/importer.py).                                        *)
(*                                                                         *)
(* A batch is a list of paths, frozen when it is first registered.  Files  *)
(* are known by what is in them: a file id stands for a content, for a mix *)
(* that was read while the file was written (Torn), or for a path that     *)
(* cannot be read.  People write to the paths at any moment.  Imports of a *)
(* cluster follow each other (module ClusterTask); each may be interrupted,*)
(* fail or be killed between any two of its transactions, and what it left *)
(* running is recovered when the next one is admitted.                     *)
(***************************************************************************)
EXTENDS Naturals, Sequences, SequencesExt

CONSTANTS
    Batch,      \* batch ids
    Path,       \* paths of the manifests
    Content,    \* contents of files
    Torn,       \* what is read of a file that is written meanwhile
    Manifests,  \* [Batch -> the lists of paths that it may be given]
    Key,        \* [Path -> origin key, or NoKey]
    NoKey,
    Delivered,  \* what the paths may contain in the beginning
    Overlap,    \* pairs {f, g} of contents with a common edge of records
    MaxEdits,   \* how often people write to the paths
    MaxFaults   \* how often an import is interrupted, fails or is killed

ASSUME ImporterAssumption ==
    /\ Torn \notin Content \cup Path /\ Content \cap Path = {}
    /\ \A b \in Batch : Manifests[b] \subseteq Seq(Path) \ {<<>>}
    /\ Delivered \subseteq [Path -> Content]
    /\ MaxEdits \in Nat /\ MaxFaults \in Nat

VARIABLES
    content,   \* of the paths; a path that cannot be read contains itself
    stamp,     \* of the paths: changes with every write
    frozen,    \* the manifest of a batch, <<>> before it is registered
    batch,     \* import_batch.state
    entry,     \* batch_entry: state of the final attempt, per batch and file
    imported,  \* [Content -> the batch it was imported by, or NoBatch]
    stored,    \* what the records imported for a file id were read from
    keys,      \* the origin keys of the imported files
    pc, cur,   \* the import that runs, and its batch
    members,   \* its successful_members
    seen,      \* its observations of the paths
    at,        \* place in the manifest
    linked,    \* the batch entry points to the attempt that runs
    failure,   \* reason of the attempt that runs
    results,   \* file ids and states of the attempts of this run
    edits, faults

disk  == <<content, stamp, edits>>
done  == <<imported, stored, keys>>
local == <<members, seen, at, linked, failure, results>>
vars  == <<content, stamp, frozen, batch, entry, imported, stored, keys, pc, cur,
           members, seen, at, linked, failure, results, edits, faults>>

NoBatch == "no batch"

ASSUME NoBatchAssumption == NoBatch \notin Batch

File    == Content \cup Path \cup {Torn}
Good    == {"succeeded", "duplicate_skipped"}
States  == Good \cup {"running", "failed", "interrupted", "conflict"}
Changed == "file_changed_during_read"
Reasons == {"none", Changed, "file_unreadable", "origin_content_changed",
            "batch_member_changed"}
Unseen  == [file |-> Torn, failure |-> "none", stamp |-> 0]

Init ==
    /\ content \in Delivered /\ stamp = [p \in Path |-> 0]
    /\ frozen = [b \in Batch |-> <<>>]
    /\ batch = [b \in Batch |-> "none"]
    /\ entry = [b \in Batch |-> [f \in File |-> "none"]]
    /\ imported = [f \in Content |-> NoBatch]
    /\ stored = [f \in Content |-> f]
    /\ keys = [f \in Content |-> {}]
    /\ pc = "idle" /\ cur = NoBatch
    /\ members = {} /\ seen = [p \in Path |-> Unseen] /\ at = 1
    /\ linked = FALSE /\ failure = "none" /\ results = {}
    /\ edits = 0 /\ faults = 0

-----------------------------------------------------------------------------
(* People: a path gets other content, the same anew, or becomes unreadable. *)

Write(p) ==
    /\ edits < MaxEdits /\ edits' = edits + 1
    /\ \E c \in Content \cup {p} : content' = [content EXCEPT ![p] = c]
    /\ stamp' = [stamp EXCEPT ![p] = @ + 1]

Edit ==
    /\ \E p \in Path : Write(p)
    /\ UNCHANGED <<frozen, batch, entry, done, pc, cur, local, faults>>

-----------------------------------------------------------------------------
(* One import.                                                             *)

(* Attempts that a dead import left running, at the next admission. *)
Recovered ==
    [b \in Batch |-> [f \in File |->
        IF entry[b][f] = "running" THEN "interrupted" ELSE entry[b][f]]]

Successful(b) == {f \in File : entry[b][f] \in Good}

Register(b) ==
    /\ pc = "idle"
    /\ \E m \in Manifests[b] :
          /\ frozen[b] \in {<<>>, m}
          /\ frozen' = [frozen EXCEPT ![b] = m]
    /\ entry' = Recovered
    /\ batch' = [batch EXCEPT ![b] = "processing"]
    /\ members' = Successful(b)
    /\ pc' = "observe" /\ cur' = b /\ at' = 1
    /\ UNCHANGED <<disk, done, seen, linked, failure, results, faults>>

(* batch_manifest_changed: the task has recovered, the batch stays as it was. *)
Reject(b) ==
    /\ pc = "idle"
    /\ \E m \in Manifests[b] : frozen[b] \notin {<<>>, m}
    /\ entry' = Recovered
    /\ UNCHANGED <<disk, frozen, batch, done, pc, cur, local, faults>>

Paths == frozen[cur]
This  == Paths[at]

Observed(file, reason, at_stamp) ==
    /\ seen' = [seen EXCEPT ![This] =
                   [file |-> file, failure |-> reason, stamp |-> at_stamp]]
    /\ at' = IF at = Len(Paths) THEN 1 ELSE at + 1
    /\ pc' = IF at = Len(Paths) THEN "file" ELSE "observe"

Observe ==
    /\ pc = "observe"
    /\ \/ /\ Observed(content[This],
                      IF content[This] = This THEN "file_unreadable" ELSE "none",
                      stamp[This])
          /\ UNCHANGED disk
       \/ /\ content[This] # This
          /\ Write(This)
          /\ IF content'[This] = This
             THEN Observed(This, "file_unreadable", stamp'[This])
             ELSE \E f \in {content[This], content'[This], Torn} :
                     Observed(f, Changed, stamp'[This])
    /\ UNCHANGED <<frozen, batch, entry, done, cur, members, linked, failure, results, faults>>

Current == {seen[p].file : p \in ToSet(Paths)}

MembersGone == members \ Current # {}

Fid == seen[This].file

OriginChanged ==
    /\ Key[This] # NoKey
    /\ \E g \in Content \ {Fid} : imported[g] # NoBatch /\ Key[This] \in keys[g]

Reason ==
    IF MembersGone THEN "batch_member_changed"
    ELSE IF OriginChanged THEN "origin_content_changed"
    ELSE IF seen[This].failure # "none" THEN seen[This].failure
    ELSE IF stamp[This] # seen[This].stamp THEN Changed ELSE "none"

Known == Fid \in Content /\ imported[Fid] # NoBatch

(* Mutant: the last attempt counts, whatever it is. *)
LinkedAnyway == ~MembersGone

(* The entry of a file that was successful before is not given up for a    *)
(* failed attempt.                                                         *)
Linked == ~MembersGone /\ ~(Reason # "none" /\ Fid \in members)

NextFile(state) ==
    /\ results' = results \cup {[file |-> Fid, state |-> state]}
    /\ at' = IF at = Len(Paths) THEN 1 ELSE at + 1
    /\ pc' = IF at = Len(Paths) THEN "reconcile" ELSE "file"
    /\ linked' = FALSE /\ failure' = "none"

(* The transaction that begins an attempt, or skips a file that was        *)
(* imported before.                                                        *)
Duplicate ==
    /\ pc = "file" /\ Reason = "none" /\ Known
    /\ entry' = [entry EXCEPT ![cur][Fid] = "duplicate_skipped"]
    /\ keys' = [keys EXCEPT ![Fid] = @ \cup ({Key[This]} \ {NoKey})]
    /\ NextFile("duplicate_skipped")
    /\ UNCHANGED <<disk, frozen, batch, imported, stored, cur, members, seen, faults>>

Attempt ==
    /\ pc = "file" /\ ~(Reason = "none" /\ Known)
    /\ entry' = IF Linked THEN [entry EXCEPT ![cur][Fid] = "running"] ELSE entry
    /\ linked' = Linked
    /\ failure' = Reason
    /\ pc' = "attempt"
    /\ UNCHANGED <<disk, frozen, batch, done, cur, members, seen, at, results, faults>>

(* fail_file *)
Ended(state) ==
    entry' = IF linked THEN [entry EXCEPT ![cur][Fid] = state] ELSE entry

FileFails(state) ==
    /\ Ended(state)
    /\ NextFile(state)
    /\ UNCHANGED <<disk, frozen, batch, done, cur, members, seen, faults>>

FailFile ==
    /\ pc = "attempt" /\ failure # "none"
    /\ FileFails(IF failure \in {"origin_content_changed", "batch_member_changed"}
                 THEN "conflict" ELSE "failed")

(* Mutant: only files of the same batch are compared. *)
OverlapsInBatch == \E g \in Content : imported[g] = cur /\ {Fid, g} \in Overlap /\ g # Fid

Overlaps == \E g \in Content : imported[g] # NoBatch /\ {Fid, g} \in Overlap /\ g # Fid

(* Mutant: what was read is not compared with the checksum. *)
ImportUnchecked ==
    /\ pc = "attempt" /\ failure = "none"
    /\ content[This] # This /\ ~Overlaps
    /\ imported' = [imported EXCEPT ![Fid] = cur]
    /\ stored' = [stored EXCEPT ![Fid] = content[This]]
    /\ keys' = [keys EXCEPT ![Fid] = {Key[This]} \ {NoKey}]
    /\ entry' = [entry EXCEPT ![cur][Fid] = "succeeded"]
    /\ NextFile("succeeded")
    /\ UNCHANGED <<disk, frozen, batch, cur, members, seen, faults>>

(* The transaction of a file: the records are read from the path and kept  *)
(* if they are those of the checksum.                                      *)
Import ==
    /\ pc = "attempt" /\ failure = "none"
    /\ content[This] = Fid /\ ~Overlaps
    /\ imported' = [imported EXCEPT ![Fid] = cur]
    /\ stored' = [stored EXCEPT ![Fid] = content[This]]
    /\ keys' = [keys EXCEPT ![Fid] = {Key[This]} \ {NoKey}]
    /\ entry' = [entry EXCEPT ![cur][Fid] = "succeeded"]
    /\ NextFile("succeeded")
    /\ UNCHANGED <<disk, frozen, batch, cur, members, seen, faults>>

OverlapFails ==
    /\ pc = "attempt" /\ failure = "none"
    /\ content[This] = Fid /\ Overlaps
    /\ FileFails("conflict")

ReadFails ==
    /\ pc = "attempt" /\ failure = "none"
    /\ content[This] # Fid
    /\ FileFails("failed")

(* Mutant: entries of files that were replaced are never dropped. *)
KeptAll == entry[cur]

(* Leftover entries of files that are in no path any more are dropped,     *)
(* unless they were successful.                                            *)
Kept ==
    IF MembersGone THEN entry[cur]
    ELSE [f \in File |-> IF entry[cur][f] \in Good \/ \E r \in results : r.file = f
                         THEN entry[cur][f] ELSE "none"]

Outcome ==
    IF \E r \in results : r.state = "conflict" THEN "conflict"
    ELSE IF \A f \in File : Kept[f] \in Good \cup {"none"}
         THEN IF \A r \in results : r.state \in Good THEN "complete" ELSE "failed"
         ELSE "failed"

RunEnds ==
    /\ pc' = "idle" /\ cur' = NoBatch
    /\ members' = {} /\ seen' = [p \in Path |-> Unseen] /\ at' = 1
    /\ linked' = FALSE /\ failure' = "none" /\ results' = {}

Reconcile ==
    /\ pc = "reconcile"
    /\ entry' = [entry EXCEPT ![cur] = Kept]
    /\ batch' = [batch EXCEPT ![cur] = Outcome]
    /\ RunEnds
    /\ UNCHANGED <<disk, frozen, done, faults>>

-----------------------------------------------------------------------------
(* What can go wrong in the middle.                                        *)

Fault == faults < MaxFaults /\ faults' = faults + 1

(* Any other error while a file is read: the next file is taken. *)
ProcessingFails ==
    /\ Fault
    /\ pc = "attempt" /\ failure = "none"
    /\ Ended("failed") /\ NextFile("failed")
    /\ UNCHANGED <<disk, frozen, batch, done, cur, members, seen>>

Interrupted ==
    /\ Fault
    /\ pc = "attempt" /\ failure = "none"
    /\ Ended("interrupted")
    /\ batch' = [batch EXCEPT ![cur] = "failed"]
    /\ RunEnds
    /\ UNCHANGED <<disk, frozen, done>>

(* An error outside of a file's transaction, or a kill: an attempt stays   *)
(* running, and the batch is failed if that could be written.              *)
Stopped ==
    /\ Fault
    /\ pc # "idle"
    /\ batch' \in {batch, [batch EXCEPT ![cur] = "failed"]}
    /\ RunEnds
    /\ UNCHANGED <<disk, frozen, entry, done>>

-----------------------------------------------------------------------------
Run == \/ Observe \/ Duplicate \/ Attempt \/ FailFile \/ Import \/ OverlapFails
       \/ ReadFails \/ Reconcile

Next ==
    \/ Edit \/ Run
    \/ \E b \in Batch : Register(b) \/ Reject(b)
    \/ ProcessingFails \/ Interrupted \/ Stopped

Spec == Init /\ [][Next]_vars

(* An import that runs goes on; every batch is submitted again and again,  *)
(* as the daily run does with the days that are not imported yet.          *)
FairSpec == Spec /\ WF_vars(Run) /\ \A b \in Batch : SF_vars(Register(b))

-----------------------------------------------------------------------------
(* Properties.                                                             *)

TypeOK ==
    /\ content \in [Path -> Content \cup Path] /\ stamp \in [Path -> 0 .. MaxEdits]
    /\ DOMAIN frozen = Batch
    /\ \A b \in Batch : frozen[b] \in Manifests[b] \cup {<<>>}
    /\ batch \in [Batch -> {"none", "processing", "complete", "failed", "conflict"}]
    /\ entry \in [Batch -> [File -> States \cup {"none"}]]
    /\ imported \in [Content -> Batch \cup {NoBatch}]
    /\ stored \in [Content -> Content \cup Path]
    /\ DOMAIN keys = Content
    /\ \A f \in Content : keys[f] \subseteq {Key[p] : p \in Path} \ {NoKey}
    /\ pc \in {"idle", "observe", "file", "attempt", "reconcile"}
    /\ cur \in Batch \cup {NoBatch} /\ (pc = "idle" <=> cur = NoBatch)
    /\ pc # "idle" => at \in 1 .. Len(Paths)
    /\ members \subseteq Content
    /\ seen \in [Path -> [file : File, failure : Reasons, stamp : 0 .. MaxEdits]]
    /\ linked \in BOOLEAN /\ failure \in Reasons
    /\ \A r \in results : r.file \in File /\ r.state \in States \ {"running"}
    /\ edits \in 0 .. MaxEdits /\ faults \in 0 .. MaxFaults

(* A batch is complete only if everything its frozen list held when it was *)
(* looked at has been imported, as it was looked at; and as long as it is  *)
(* complete, all its entries are imported files: what training selects is  *)
(* whole, whatever is registered, edited or cut short around it.           *)
CompleteIsWhole ==
    [][\A b \in Batch : batch'[b] = "complete" =>
          /\ \A f \in File : entry'[b][f] # "none" =>
                /\ entry'[b][f] \in Good
                /\ f \in Content /\ imported'[f] # NoBatch /\ stored'[f] = f
          /\ batch[b] # "complete" =>
                /\ cur = b
                /\ {f \in File : entry'[b][f] # "none"} = {seen[p].file : p \in ToSet(frozen[b])}
      ]_vars

(* What was successful when a batch was submitted again stays so, whatever *)
(* fails in this run.                                                      *)
MembersStay == \A f \in members : entry[cur][f] \in Good

(* No two imported files bear the same confirmed name or share an edge:    *)
(* nothing is counted twice under two contents.                            *)
ImportedAreDistinct ==
    \A f, g \in {c \in Content : imported[c] # NoBatch} :
        f # g => keys[f] \cap keys[g] = {} /\ {f, g} \notin Overlap

(* A batch that was begun becomes complete or needs a person, if its files *)
(* can be read and are left alone for long enough.                         *)
BatchSettles ==
    \A b \in Batch : (batch[b] # "none") ~>
        (batch[b] \in {"complete", "conflict"} \/ \E p \in Path : content[p] = p)
=============================================================================
