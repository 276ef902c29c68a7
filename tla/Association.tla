----------------------------- MODULE Association -----------------------------
(***************************************************************************)
(* Which start an Execute's duration belongs to (Interpreter in            *)
(* sql_apm/ingestion/mpp/reader.py).                                       *)
(*                                                                         *)
(* Sessions of the MPP master run calls one after the other.  A call may   *)
(* be announced by a line (postgres.c:2764), if log_statement covers its   *)
(* SQL, and its end may leave a duration (postgres.c:2843), an error or    *)
(* nothing, if it is below the threshold.  Files are read line by line in  *)
(* the order in which they were written, so a line is written and          *)
(* interpreted in one step here.                                           *)
(***************************************************************************)
EXTENDS Integers, FiniteSets

CONSTANTS
    Session,
    Nameless,       \* sessions whose lines lack a usable identity
    Sql, Announced, \* texts, and those whose Execute is announced
    Moment,         \* values of a timestamp
    max_sessions,   \* how many starts the reader remembers
    None,
    MaxCalls        \* bound: calls of all sessions

ASSUME AssociationAssumption ==
    /\ Nameless \subseteq Session /\ Announced \subseteq Sql
    /\ Moment \subseteq Nat /\ None \notin Nat /\ None \notin Session
    /\ max_sessions \in Nat \ {0} /\ MaxCalls \in Nat

Kind  == {"execute_first", "execute_fetch"}
Stamp == Moment \cup {None}

VARIABLES
    call,     \* of a session: the call that runs, or None
    calls,    \* how many calls there were
    pending,  \* Interpreter.pending; the starts are as old as their ref says
    event,    \* what interpret returned for the last line
    unheard   \* history: sessions whose last announced call left no trace since

readerVars == <<call, calls, pending, event, unheard>>

(* id, sql and kind of a call; at: the timestamp of its announcement;      *)
(* whole: the announcement is well formed, in this file, and nothing older *)
(* of its session was open; later: sessions that announced a call since.   *)
Call  == [id : 1..MaxCalls, sql : Sql, kind : Kind, at : Stamp, whole : BOOLEAN,
          later : SUBSET Session]
Start == [key : Session, ref : 1..MaxCalls, sql : Sql, at : Stamp, ambiguous : BOOLEAN,
          kind : Kind, valid : BOOLEAN]

PairReasons == {"session_identity_missing", "execute_start_missing", "execute_start_ambiguous",
            "execute_context_mismatch", "execute_order_invalid"}

ASSUME NoneAssumption == None \notin Call \cup PairReasons

ReaderTypeOK ==
    /\ call \in [Session -> Call \cup {None}]
    /\ calls \in 0..MaxCalls
    /\ pending \subseteq Start /\ IsFiniteSet(pending) /\ Cardinality(pending) <= max_sessions
    /\ unheard \subseteq Session

ReaderInit ==
    /\ call = [s \in Session |-> None] /\ calls = 0
    /\ pending = {} /\ event = None
    /\ unheard = {}

-----------------------------------------------------------------------------
(* Interpreter.interpret, for each kind of line.                           *)

session(s) == IF s \in Nameless THEN None ELSE s

Of(key)      == {e \in pending : e.key = key}
Without(key) == {e \in pending : e.key # key}
Oldest(es)   == CHOOSE e \in es : \A f \in es : e.ref <= f.ref

(* postgres.c:2764.  form: the message matches EXECUTE and holds the SQL.  *)
Remembered(key, c, form) ==
    LET entry == [key |-> key, ref |-> c.id, sql |-> c.sql, at |-> c.at,
                  ambiguous |-> Of(key) # {},
                  kind |-> IF form THEN c.kind ELSE "execute_first",
                  valid |-> form /\ c.at # None]
        all   == Without(key) \cup {entry}
    IN IF Cardinality(all) > max_sessions THEN all \ {Oldest(all)} ELSE all

(* Mutant: the SQL of the start is not compared. *)
PairReasonAnyText(key, sql, at) ==
    CASE key = None                       -> "session_identity_missing"
      [] Of(key) = {}                     -> "execute_start_missing"
      [] \E e \in Of(key) : e.ambiguous   -> "execute_start_ambiguous"
      [] \E e \in Of(key) : ~e.valid      -> "execute_context_mismatch"
      [] at = None \/ \E e \in Of(key) : e.at > at -> "execute_order_invalid"
      [] OTHER                            -> None

(* postgres.c:2843: why there is no association, or None. *)
PairReason(key, sql, at) ==
    CASE key = None                       -> "session_identity_missing"
      [] Of(key) = {}                     -> "execute_start_missing"
      [] \E e \in Of(key) : e.ambiguous   -> "execute_start_ambiguous"
      [] \E e \in Of(key) : ~e.valid \/ e.sql # sql -> "execute_context_mismatch"
      [] at = None \/ \E e \in Of(key) : e.at > at  -> "execute_order_invalid"
      [] OTHER                            -> None

Timed(c, key, at) ==
    LET reason == PairReason(key, c.sql, at)
        start  == CHOOSE e \in Of(key) : TRUE
    IN [of |-> c, at |-> at, reason |-> reason,
        support |-> IF reason = None THEN start.ref ELSE None,
        timing  |-> IF reason = None THEN start.kind ELSE None]

-----------------------------------------------------------------------------
(* What sessions do, and the lines that this leaves.                       *)

Over(s) == call' = [call EXCEPT ![s] = None]

(* A call that is announced counts for those that run in other sessions. *)
Begin(s, sql, kind) ==
    /\ call[s] = None /\ calls < MaxCalls
    /\ calls' = calls + 1
    /\ event' = None
    /\ UNCHANGED unheard
    /\ \E at \in Stamp, form \in BOOLEAN :
         LET told == sql \in Announced
             new  == [id |-> calls + 1, sql |-> sql, kind |-> kind, at |-> at,
                      whole |-> told /\ form /\ at # None /\ s \notin Nameless \cup unheard,
                      later |-> {}]
         IN /\ told \/ (at = None /\ ~form)
            /\ call' = [t \in Session |->
                 IF t = s THEN new
                 ELSE IF call[t] = None \/ ~told THEN call[t]
                 ELSE [call[t] EXCEPT !.later = @ \cup {s}]]
            /\ pending' = IF told /\ session(s) # None
                          THEN Remembered(session(s), new, form) ELSE pending

End(s) ==
    /\ call[s] # None
    /\ \E at \in Stamp : event' = Timed(call[s], session(s), at)
    /\ pending' = Without(session(s))
    /\ unheard' = unheard \ {s}
    /\ Over(s)
    /\ UNCHANGED calls

EndUnheard(s) ==
    /\ call[s] # None
    /\ unheard' = IF call[s].sql \in Announced THEN unheard \cup {s} ELSE unheard
    /\ event' = None
    /\ Over(s)
    /\ UNCHANGED <<calls, pending>>

(* ERROR, FATAL or PANIC: an event without timing, and the start is void. *)
Fail(s) ==
    /\ call[s] # None
    /\ pending' = Without(session(s))
    /\ unheard' = unheard \ {s}
    /\ event' = None
    /\ Over(s)
    /\ UNCHANGED calls

(* Durations of requests, Parse and Bind, and messages of other requests. *)
Phase(s) ==
    /\ call[s] = None
    /\ pending' = Without(session(s))
    /\ unheard' = unheard \ {s}
    /\ event' = None
    /\ UNCHANGED <<call, calls>>

(* Lines of the optimizer or of statistics do not end a call. *)
Internal(s) ==
    /\ call[s] # None
    /\ event' = None
    /\ UNCHANGED <<call, calls, pending, unheard>>

(* The next file is read by an Interpreter of its own. *)
NextReader ==
    /\ pending' = {} /\ event' = None /\ unheard' = {}
    /\ call' = [s \in Session |-> IF call[s] = None THEN None
                                  ELSE [call[s] EXCEPT !.whole = FALSE]]
    /\ UNCHANGED calls

ReaderNext ==
    \/ \E s \in Session :
         \/ \E sql \in Sql, kind \in Kind : Begin(s, sql, kind)
         \/ End(s) \/ EndUnheard(s) \/ Fail(s) \/ Phase(s) \/ Internal(s)
    \/ NextReader

ReaderSpec == ReaderInit /\ [][ReaderNext]_readerVars

-----------------------------------------------------------------------------
(* Properties.                                                             *)

(* Whatever lines are missing, an association is true: the start is that   *)
(* of the call whose duration was logged, and so is what it says about the *)
(* call; no start supports two calls.                                      *)
PairedIsTrue ==
    event # None /\ event.support # None =>
        /\ event.support = event.of.id
        /\ event.timing = event.of.kind
        /\ event.of.at <= event.at

(* Being careful costs nothing where nothing is missing: the duration of a *)
(* call whose announcement is in the file and followed the end of the call *)
(* before it is associated, unless the clock went back or as many other    *)
(* sessions as the reader remembers announced calls meanwhile.             *)
WholeIsPaired ==
    event # None /\ event.of.whole /\ Cardinality(event.of.later) < max_sessions
        /\ event.at # None /\ event.of.at <= event.at
        => event.support # None

(* Both: associations are made where they can be made, and are true. *)
AssociationIsExact == PairedIsTrue /\ WholeIsPaired
=============================================================================
