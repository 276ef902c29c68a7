--------------------------- MODULE QueryProjection ---------------------------
(***************************************************************************)
(* Texts, fingerprints and events, and the query tables derived from them  *)
(* (sql_apm/storage/schema.sql, mpp_query_refresh; SqlWriter in            *)
(* storage/ingestion.py; _prepare in storage/training.py).                 *)
(*                                                                         *)
(* An importer has two connections: "file", whose transaction inserts the  *)
(* events of a whole file, and "sql", which commits texts and fingerprints *)
(* page by page meanwhile.  A training command adds the fingerprints of    *)
(* another rule, and people change rows.  Triggers collect what a          *)
(* transaction changes; at its COMMIT the tables are brought up to date    *)
(* under an advisory lock that writers of texts take earlier.              *)
(***************************************************************************)
EXTENDS Integers, Sequences, FiniteSets, FiniteSetsExt

CONSTANTS
    Importer, Trainer, People,  \* who writes
    Pages,      \* of an importer: its file, a sequence of sets of events; the
                \* last one, which may be empty, is always written
    RuleOf,     \* the rule (mpp_normalization) of importers and Trainer
    Value,      \* of a rule and a text: a fingerprint or Unreliable
    Unreliable,
    Sid,        \* identifiers for texts, in the order of the database
    LaterEnd,   \* an end of an event that people may put in
    None,
    MaxFaults   \* bound: transactions that fail and commands that are killed

Event == UNION {UNION {Pages[i][n] : n \in DOMAIN Pages[i]} : i \in Importer}

ASSUME ProjectionAssumption ==
    /\ \A i \in Importer : Pages[i] \in Seq(SUBSET Event) \ {<<>>}
    /\ \A e \in Event : e = [id |-> e.id, text |-> e.text, end |-> e.end]
    /\ Sid \subseteq Nat /\ None \notin Nat /\ LaterEnd \in Nat
    /\ MaxFaults \in Nat

(* An id names a file and a line: an event is on one page of one file. *)
ASSUME EventAssumption ==
    /\ \A i, j \in Importer : \A n \in DOMAIN Pages[i], m \in DOMAIN Pages[j] :
          \A e \in Pages[i][n], f \in Pages[j][m] :
             e.id = f.id => i = j /\ n = m /\ e = f
    /\ \A i \in Importer : \A n \in DOMAIN Pages[i] : IsFiniteSet(Pages[i][n])
    /\ \A e \in Event : e.end \in Nat \cup {None}

Command == Importer \cup {Trainer, People}

(* Nobody is two of these. *)
ASSUME CommandAssumption ==
    Trainer \notin Importer /\ People \notin Importer \cup {Trainer} /\ None \notin Command

Conn     == Command \X {"file", "sql"}
Unlocked == <<None, None>>

VARIABLES
    db,      \* committed: text (mpp_sql_text), fp (mpp_fingerprint) and event
             \* (mpp_occurrence)
    view,    \* committed: the derived tables
    lock,    \* the connection that holds pg_advisory_xact_lock(1835101, 1)
    tx,      \* of a connection: rows its transaction put in and took out, and
             \* the derived tables as its refresh left them
    pc, page,
    fresh,   \* texts that are to be normalized and written
    cache,   \* SqlWriter.cache: rows of texts known to be committed
    faults

vars == <<db, view, lock, tx, pc, page, fresh, cache, faults>>

NoTable == [k \in {} |-> None]
Empty   == [member |-> {}, structure |-> NoTable, record |-> {},
            identity |-> NoTable, text |-> NoTable]
NoTx    == [text |-> {}, fp |-> {}, fpOut |-> {}, event |-> {}, eventOut |-> {},
            view |-> None]

Init ==
    /\ db = [text |-> {}, fp |-> {}, event |-> {}]
    /\ view = Empty
    /\ lock = Unlocked
    /\ tx = [n \in Conn |-> NoTx]
    /\ pc = [c \in Command |-> "idle"] /\ page = [c \in Command |-> 1]
    /\ fresh = [c \in Command |-> {}]
    /\ cache = [c \in Command |-> {}]
    /\ faults = 0

-----------------------------------------------------------------------------
(* mpp_query_refresh, as a function of what its transaction sees.          *)

(* least and greatest pass over nulls. *)
Known(S)    == S \ {None}
Least(S)    == IF Known(S) = {} THEN None ELSE Min(Known(S))
Greatest(S) == IF Known(S) = {} THEN None ELSE Max(Known(S))
Ends(R)     == {r.end : r \in R}

(* d with the changes of a transaction. *)
With(d, t) ==
    [text  |-> d.text \cup t.text,
     fp    |-> (d.fp \ t.fpOut) \cup t.fp,
     event |-> (d.event \ t.eventOut) \cup t.event]

Changed(t)   == <<t.fp, t.fpOut, t.event, t.eventOut, t.text>> # <<{}, {}, {}, {}, {}>>
ChangedFp(t) == {<<f.rule, f.sid>> : f \in t.fp \cup t.fpOut}
ChangedId(t) == {e.id : e \in t.event \cup t.eventOut}

Reliable(F) == {f \in F : f.value # Unreliable}

(* text_count and example_sql_id of the structures that members left or    *)
(* joined; the example is looked for again only if it left.                *)
Structures(old, member, gone, come) ==
    LET Of(M, s) == {m.sid : m \in {x \in M : <<x.rule, x.value>> = s}}
        touched  == {<<m.rule, m.value>> : m \in gone \cup come}
        Row(s)   == IF s \in DOMAIN old THEN old[s] ELSE [count |-> 0, example |-> None]
        Count(s) == Row(s).count + Cardinality(Of(come, s)) - Cardinality(Of(gone, s))
        Example(s) ==
            IF Of(gone, s) # {} /\ Least(Of(gone, s)) = Row(s).example
            THEN Least(Of(member, s))
            ELSE Least({Row(s).example} \cup Of(gone \cup come, s))
    IN [s \in {x \in DOMAIN old \cup touched : x \in touched => Count(x) > 0} |->
          IF s \in touched THEN [count |-> Count(s), example |-> Example(s)] ELSE old[s]]

(* mpp_query_merge_totals, for one of the two tables (key: [record -> its  *)
(* row]): counts move by what came and went; the first and the last end    *)
(* are looked for again only if a removed record had them.                 *)
Totals(old, key, record, gone, come) ==
    LET Of(R, k) == {r \in R : key[r] = k}
        touched  == {key[r] : r \in gone \cup come}
        Row(k)   == IF k \in DOMAIN old THEN old[k]
                    ELSE [count |-> 0, first |-> None, last |-> None]
        Count(k) == Row(k).count + Cardinality(Of(come, k)) - Cardinality(Of(gone, k))
        Edge(Pick(_), was, k) ==
            IF Pick(Ends(Of(gone, k))) # None /\ Pick(Ends(Of(gone, k))) = was
            THEN Pick(Ends(Of(record, k)))
            ELSE Pick({was} \cup Ends(Of(come, k)))
        New(k) == [count |-> Count(k), first |-> Edge(Least, Row(k).first, k),
                   last |-> Edge(Greatest, Row(k).last, k)]
    IN [k \in {x \in DOMAIN old \cup touched : x \in touched => Count(x) > 0} |->
          IF k \in touched THEN New(k) ELSE old[k]]

(* mpp_query_identity: structure, cluster, database and user. *)
Identity(r) == <<r.rule, r.value, r.scope>>
TextKey(r)  == <<r.rule, r.sid, Identity(r)>>

RecordOf(m, e) == [rule |-> m.rule, sid |-> m.sid, value |-> m.value,
                   id |-> e.id, scope |-> e.scope, end |-> e.end]
RecordKey(r)   == <<r.rule, r.id>>

Refreshed(d, old, t) ==
    LET fps     == ChangedFp(t)
        gone    == {m \in old.member : <<m.rule, m.sid>> \in fps}
        come    == {f \in Reliable(d.fp) : <<f.rule, f.sid>> \in fps}
        member  == (old.member \ gone) \cup come
        sources == {x \in member \X d.event :
                      /\ x[1].sid = x[2].sid
                      /\ \/ x[2].id \in ChangedId(t)
                         \/ <<x[1].rule, x[1].sid>> \in fps}
        new     == {RecordOf(x[1], x[2]) : x \in sources}
        before  == {r \in old.record : \/ r.id \in ChangedId(t)
                                       \/ <<r.rule, r.sid>> \in fps}
        removed == before \ new
        added   == new \ before
        keys    == {RecordKey(r) : r \in removed}
        record  == {r \in old.record : RecordKey(r) \notin keys} \cup added
        all     == record \cup removed
    IN [member    |-> member,
        structure |-> Structures(old.structure, member, gone, come),
        record    |-> record,
        identity  |-> Totals(old.identity, [r \in all |-> Identity(r)], record, removed, added),
        text      |-> Totals(old.text, [r \in all |-> TextKey(r)], record, removed, added)]

-----------------------------------------------------------------------------
(* Transactions.                                                           *)

Go(c, to) == pc' = [pc EXCEPT ![c] = to]

(* The trigger at COMMIT: under the lock, it sees what its earlier holders *)
(* committed.                                                              *)
Refresh(n) ==
    IF Changed(tx[n])
    THEN /\ lock \in {Unlocked, n} /\ lock' = n
         /\ tx' = [tx EXCEPT ![n].view = Refreshed(With(db, tx[n]), view, tx[n])]
    ELSE UNCHANGED <<lock, tx>>

Commit(n) ==
    /\ db' = With(db, tx[n])
    /\ view' = IF Changed(tx[n]) THEN tx[n].view ELSE view
    /\ tx' = [tx EXCEPT ![n] = NoTx]
    /\ lock' = IF lock = n THEN Unlocked ELSE lock

-----------------------------------------------------------------------------
(* An importer: pages of a file, each with SqlWriter.resolve.              *)

File(c) == <<c, "file">>
Sql(c)  == <<c, "sql">>
Texts(c) == {e.text : e \in Pages[c][page[c]]}
CachedTexts(c) == {t.text : t \in cache[c]}

StartFile(i) ==
    /\ pc[i] = "idle"
    /\ Go(i, "resolve") /\ page' = [page EXCEPT ![i] = 1]
    /\ UNCHANGED <<db, view, lock, tx, fresh, cache, faults>>

(* What is committed with a reliable fingerprint is not parsed again. *)
Resolve(i) ==
    /\ pc[i] = "resolve"
    /\ LET missing == Texts(i) \ CachedTexts(i)
           found   == {t \in db.text : /\ t.text \in missing
                                       /\ \E f \in Reliable(db.fp) :
                                            f.sid = t.sid /\ f.rule = RuleOf[i]}
       IN /\ fresh' = [fresh EXCEPT ![i] = missing \ {t.text : t \in found}]
          /\ Go(i, IF missing = {} THEN "copy" ELSE "lock")
    /\ UNCHANGED <<db, view, lock, tx, page, cache, faults>>

Lock(c) ==
    /\ pc[c] = "lock" /\ lock = Unlocked
    /\ lock' = Sql(c)
    /\ Go(c, "write")
    /\ UNCHANGED <<db, view, tx, page, fresh, cache, faults>>

(* The texts are looked for once more under the lock. *)
WriteRows(c, existing) ==
    LET missing == fresh[c] \ {t.text : t \in existing}
        Fp(t)   == [sid |-> t.sid, rule |-> RuleOf[c], value |-> Value[RuleOf[c]][t.text]]
        Has(t)  == \E f \in db.fp : f.sid = t.sid /\ f.rule = RuleOf[c]
    IN \E new \in [missing -> Sid \ {t.sid : t \in db.text}] :
         LET texts == {[sid |-> new[a], text |-> a] : a \in missing}
         IN /\ Cardinality({new[a] : a \in missing}) = Cardinality(missing)
            /\ tx' = [tx EXCEPT ![Sql(c)] =
                 [NoTx EXCEPT !.text = texts,
                              !.fp = {Fp(t) : t \in {x \in existing \cup texts : ~Has(x)}}]]

(* Mutant: what was found before the lock is believed. *)
WriteAsFound(c) ==
    /\ pc[c] = "write"
    /\ WriteRows(c, {t \in cache[c] : t.text \in fresh[c]})
    /\ Go(c, "refresh")
    /\ UNCHANGED <<db, view, lock, page, fresh, cache, faults>>

Write(c) ==
    /\ pc[c] = "write"
    /\ WriteRows(c, {t \in db.text : t.text \in fresh[c]})
    /\ Go(c, "refresh")
    /\ UNCHANGED <<db, view, lock, page, fresh, cache, faults>>

RefreshSql(c) ==
    /\ pc[c] = "refresh"
    /\ Refresh(Sql(c))
    /\ Go(c, "commit")
    /\ UNCHANGED <<db, view, page, fresh, cache, faults>>

(* Results are kept for later pages and files once they are committed. *)
CommitSql(c) ==
    /\ pc[c] = "commit"
    /\ Commit(Sql(c))
    /\ IF c = Trainer
       THEN Go(c, "done") /\ UNCHANGED cache
       ELSE /\ Go(c, "copy")
            /\ cache' = [cache EXCEPT ![c] =
                 @ \cup {t \in db'.text : t.text \in Texts(c) \ CachedTexts(c)}]
    /\ UNCHANGED <<page, fresh, faults>>

(* Every event of this module has a complete text: one without has no row  *)
(* in mpp_sql_text (sql_id is null) and is in no derived table.            *)
Copied(i) == {[id |-> e.id, scope |-> i, end |-> e.end,
               sid |-> (CHOOSE t \in cache[i] : t.text = e.text).sid] :
                 e \in Pages[i][page[i]]}

NextPage(i) ==
    IF page[i] = Len(Pages[i])
    THEN Go(i, "refreshFile") /\ UNCHANGED page
    ELSE Go(i, "resolve") /\ page' = [page EXCEPT ![i] = @ + 1]

(* Mutant: events take the lock as texts and fingerprints do. *)
CopyLocked(i) ==
    /\ pc[i] = "copy"
    /\ lock \in {Unlocked, File(i)} /\ lock' = File(i)
    /\ tx' = [tx EXCEPT ![File(i)].event = @ \cup Copied(i)]
    /\ NextPage(i)
    /\ UNCHANGED <<db, view, fresh, cache, faults>>

(* write_records; the events stay in the transaction of the file. *)
Copy(i) ==
    /\ pc[i] = "copy"
    /\ tx' = [tx EXCEPT ![File(i)].event = @ \cup Copied(i)]
    /\ NextPage(i)
    /\ UNCHANGED <<db, view, lock, fresh, cache, faults>>

(* Mutant: the refresh does not wait for the writers of fingerprints. *)
RefreshFileAtOnce(c) ==
    /\ pc[c] = "refreshFile"
    /\ tx' = [tx EXCEPT ![File(c)].view =
          Refreshed(With(db, tx[File(c)]), view, tx[File(c)])]
    /\ Go(c, "commitFile")
    /\ UNCHANGED <<db, view, lock, page, fresh, cache, faults>>

RefreshFile(c) ==
    /\ pc[c] = "refreshFile"
    /\ Refresh(File(c))
    /\ Go(c, "commitFile")
    /\ UNCHANGED <<db, view, page, fresh, cache, faults>>

CommitFile(c) ==
    /\ pc[c] = "commitFile"
    /\ Commit(File(c))
    /\ Go(c, "done")
    /\ UNCHANGED <<page, fresh, cache, faults>>

-----------------------------------------------------------------------------
(* The training command, people, and failures.                             *)

(* The texts of events that have no fingerprint under this rule yet. *)
Select ==
    /\ pc[Trainer] = "idle"
    /\ LET needed == {t \in db.text : /\ \E e \in db.event : e.sid = t.sid
                                      /\ ~\E f \in db.fp : /\ f.sid = t.sid
                                                            /\ f.rule = RuleOf[Trainer]}
       IN /\ fresh' = [fresh EXCEPT ![Trainer] = {t.text : t \in needed}]
          /\ Go(Trainer, IF needed = {} THEN "done" ELSE "lock")
    /\ UNCHANGED <<db, view, lock, tx, page, cache, faults>>

EditEvent ==
    /\ pc[People] = "idle"
    /\ \E e \in db.event : \E to \in {{}, {[e EXCEPT !.end = LaterEnd]}} :
         tx' = [tx EXCEPT ![File(People)] = [NoTx EXCEPT !.eventOut = {e}, !.event = to]]
    /\ Go(People, "refreshFile")
    /\ UNCHANGED <<db, view, lock, page, fresh, cache, faults>>

(* Before a statement on texts or fingerprints a trigger takes the lock. *)
EditFingerprint ==
    /\ pc[People] = "idle" /\ lock = Unlocked
    /\ lock' = File(People)
    /\ \E f \in db.fp : \E to \in {{}, {[f EXCEPT !.value = Unreliable]}} :
         tx' = [tx EXCEPT ![File(People)] = [NoTx EXCEPT !.fpOut = {f}, !.fp = to]]
    /\ Go(People, "refreshFile")
    /\ UNCHANGED <<db, view, page, fresh, cache, faults>>

(* Both connections roll back; a new process has an empty cache. *)
Fail(c) ==
    /\ pc[c] \notin {"idle", "done"} /\ faults < MaxFaults
    /\ faults' = faults + 1
    /\ tx' = [tx EXCEPT ![File(c)] = NoTx, ![Sql(c)] = NoTx]
    /\ lock' = IF lock \in {File(c), Sql(c)} THEN Unlocked ELSE lock
    /\ \E kept \in {cache[c], {}} : cache' = [cache EXCEPT ![c] = kept]
    /\ fresh' = [fresh EXCEPT ![c] = {}]
    /\ Go(c, "idle")
    /\ UNCHANGED <<db, view, page>>

Import(i) ==
    \/ StartFile(i) \/ Resolve(i) \/ Lock(i) \/ Write(i) \/ RefreshSql(i)
    \/ CommitSql(i) \/ Copy(i) \/ RefreshFile(i) \/ CommitFile(i)

Prepare == Select \/ Lock(Trainer) \/ Write(Trainer) \/ RefreshSql(Trainer)
              \/ CommitSql(Trainer)

Maintain == EditEvent \/ EditFingerprint \/ RefreshFile(People) \/ CommitFile(People)

Work == (\E i \in Importer : Import(i)) \/ Prepare \/ Maintain

Next == Work \/ \E c \in Command : Fail(c)

Spec == Init /\ [][Next]_vars

(* As long as some connection can go on, one does. *)
FairSpec == Spec /\ WF_vars(Work)

-----------------------------------------------------------------------------
(* Properties.                                                             *)

(* The derived tables, from the rows alone, as the consistency queries of  *)
(* scripts/db/query_records_consistency.sql derive them.                   *)
Derived(d) ==
    LET member == Reliable(d.fp)
        record == {RecordOf(x[1], x[2]) :
                     x \in {y \in member \X d.event : y[1].sid = y[2].sid}}
        Sids(s) == {m.sid : m \in {x \in member : <<x.rule, x.value>> = s}}
        Total(R) == [count |-> Cardinality(R), first |-> Least(Ends(R)),
                     last |-> Greatest(Ends(R))]
    IN [member    |-> member,
        structure |-> [s \in {<<m.rule, m.value>> : m \in member} |->
                         [count |-> Cardinality(Sids(s)), example |-> Min(Sids(s))]],
        record    |-> record,
        identity  |-> [k \in {Identity(r) : r \in record} |->
                         Total({r \in record : Identity(r) = k})],
        text      |-> [k \in {TextKey(r) : r \in record} |->
                         Total({r \in record : TextKey(r) = k})]]

(* Whatever is committed, in whatever order: the derived tables are those  *)
(* that a computation from nothing would give.                             *)
ProjectionIsExact == view = Derived(db)

(* A text is stored once, and a committed event has the text of its log,   *)
(* as far as that text is complete.                                        *)
TextsAreUnique ==
    /\ \A t, u \in db.text : t.text = u.text => t = u
    /\ \A e \in db.event : \E t \in db.text, o \in Event :
          t.sid = e.sid /\ o.id = e.id /\ t.text = o.text

(* No writer waits for ever, neither for others nor for its own other      *)
(* connection.                                                             *)
WritersEnd == (\E c \in Command : pc[c] # "idle") ~> \A c \in Command : pc[c] \in {"idle","done"}
=============================================================================
