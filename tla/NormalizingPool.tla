-------------------------- MODULE NormalizingPool --------------------------
(***************************************************************************)
(* The parser processes that normalize the statements of a log file        *)
(* (sql_apm/ingestion/normalizing.py).                                     *)
(*                                                                         *)
(* map hands out a list of inputs to a few processes over pipes and        *)
(* collects their answers.  Processes are slow, hang, fail or die at any   *)
(* moment, also between two calls; time passes while map restarts one of   *)
(* them.  An input is known by its place in the list of the call; 0 is one *)
(* of an earlier call.                                                     *)
(***************************************************************************)
EXTENDS Integers, Sequences

CONSTANTS
    Workers,   \* the number of parser processes
    Size,      \* inputs of a call
    CALLS      \* inputs after which a process is replaced

ASSUME PoolAssumption ==
    /\ Workers \in 1 .. 8
    /\ Size \in Nat
    /\ CALLS \in Nat \ {0}

VARIABLES
    process,   \* "none", "up" or "dead" (the parent has not noticed)
    inbox,     \* per worker: what was sent and is not answered yet
    outbox,    \* per worker: answers that were not received yet
    pending,   \* per worker: the index and attempt that map waits for
    late,      \* workers that have had their input for timeout_seconds
    calls,     \* per worker: inputs of the present process
    stage,     \* "idle", "fill" or "check"
    next,      \* next_index
    results,
    ready, check, \* workers found readable, workers left to look at
    sent       \* history: how often an input of this call was accepted

pool == <<process, inbox, outbox, pending, late, calls>>
poolVars == <<process, inbox, outbox, pending, late, calls, stage, next, results,
              ready, check, sent>>

Worker   == 1 .. Workers
Index    == 1 .. Size
Input    == 0 .. Size
Kinds    == {"fine", "refused", "broken", "timeout"}
Answer   == [to : Input, kind : Kinds]
NoInput  == [index |-> 0, attempt |-> 0]
Unknown  == [to |-> 0, kind |-> "none"]

(* Failures that are met with one more attempt in a fresh process. *)
Retried  == {"broken", "timeout"}

PoolInit ==
    /\ process = [w \in Worker |-> "none"]
    /\ inbox = [w \in Worker |-> <<>>] /\ outbox = [w \in Worker |-> <<>>]
    /\ pending = [w \in Worker |-> NoInput]
    /\ late = {}
    /\ calls = [w \in Worker |-> 0]
    /\ stage = "idle" /\ next = 1
    /\ results = [i \in Index |-> Unknown]
    /\ ready = {} /\ check = {}
    /\ sent = [i \in Index |-> 0]

-----------------------------------------------------------------------------
(* The processes, and time.                                                *)

(* An exception of the normalizer is answered as "broken". *)
Reply(w) ==
    /\ process[w] = "up" /\ inbox[w] # <<>>
    /\ \E kind \in {"fine", "refused", "broken"} :
          outbox' = [outbox EXCEPT ![w] =
              Append(@, [to |-> Head(inbox[w]), kind |-> kind, late |-> w \in late])]
    /\ inbox' = [inbox EXCEPT ![w] = Tail(@)]
    /\ UNCHANGED <<process, pending, late, calls, stage, next, results, ready, check, sent>>

(* Killed for its memory or by anyone; what it had answered can be read. *)
Die(w) ==
    /\ process[w] = "up"
    /\ process' = [process EXCEPT ![w] = "dead"]
    /\ inbox' = [inbox EXCEPT ![w] = <<>>]
    /\ UNCHANGED <<outbox, pending, late, calls, stage, next, results, ready, check, sent>>

Late(w) ==
    /\ pending[w] # NoInput /\ w \notin late
    /\ late' = late \cup {w}
    /\ UNCHANGED <<process, inbox, outbox, pending, calls, stage, next, results, ready, check, sent>>

-----------------------------------------------------------------------------
(* map                                                                     *)

Begin ==
    /\ stage = "idle"
    /\ stage' = "fill"
    /\ inbox' = [w \in Worker |-> [k \in DOMAIN inbox[w] |-> 0]]
    /\ outbox' = [w \in Worker |-> [k \in DOMAIN outbox[w] |-> [outbox[w][k] EXCEPT !.to = 0]]]
    /\ UNCHANGED <<process, pending, late, calls, next, results, ready, check, sent>>

(* The call is over, its variables are gone. *)
Over ==
    /\ stage' = "idle"
    /\ next' = 1
    /\ results' = [i \in Index |-> Unknown]
    /\ ready' = {} /\ check' = {}
    /\ sent' = [i \in Index |-> 0]

(* Mutant: the processes live on when map passes on an exception. *)
RaiseOpen ==
    /\ pending' = [w \in Worker |-> NoInput]
    /\ late' = {}
    /\ Over
    /\ UNCHANGED <<process, inbox, outbox, calls>>

(* map passes on an exception after every process is closed. *)
Raise ==
    /\ process' = [w \in Worker |-> "none"]
    /\ inbox' = [w \in Worker |-> <<>>] /\ outbox' = [w \in Worker |-> <<>>]
    /\ pending' = [w \in Worker |-> NoInput]
    /\ late' = {}
    /\ calls' = [w \in Worker |-> 0]
    /\ Over

(* A fresh process gets the input: what the old one had is closed. *)
Start(w, i, attempt) ==
    /\ process' = [process EXCEPT ![w] = "up"]
    /\ inbox' = [inbox EXCEPT ![w] = <<i>>]
    /\ outbox' = [outbox EXCEPT ![w] = <<>>]
    /\ calls' = [calls EXCEPT ![w] = 0]
    /\ pending' = [pending EXCEPT ![w] = [index |-> i, attempt |-> attempt]]
    /\ sent' = [sent EXCEPT ![i] = @ + 1]
    /\ late' = late \ {w}

(* An input for a process that has answered what it was asked before. *)
Send(w, i) ==
    /\ inbox' = [inbox EXCEPT ![w] = Append(@, i)]
    /\ pending' = [pending EXCEPT ![w] = [index |-> i, attempt |-> 1]]
    /\ sent' = [sent EXCEPT ![i] = @ + 1]
    /\ late' = late \ {w}
    /\ UNCHANGED <<process, outbox, calls>>

Free == {w \in Worker : pending[w] = NoInput}
First(w) == w \in Free /\ \A v \in Free : w <= v

Fill ==
    /\ stage = "fill" /\ next <= Size
    /\ \E w \in Worker : First(w) /\
          \/ process[w] = "none" /\ Start(w, next, 1)
          \/ process[w] = "up" /\ Send(w, next)
    /\ next' = next + 1
    /\ UNCHANGED <<stage, results, ready, check>>

(* The start fails, or the process is found dead when it is sent an input. *)
FillFails ==
    /\ stage = "fill" /\ next <= Size
    /\ \E w \in Worker : First(w) /\ process[w] # "up"
    /\ Raise

Readable(w) == outbox[w] # <<>> \/ process[w] = "dead"

Wait ==
    /\ stage = "fill" /\ (next > Size \/ Free = {})
    /\ Free # Worker
    /\ ready' = {w \in Worker \ Free : Readable(w)}
    /\ check' = Worker \ Free
    /\ stage' = "check"
    /\ UNCHANGED <<pool, next, results, sent>>

(* Mutant: only what wait saw counts. *)
AvailableAsSeen(w) == w \in ready

(* Readiness as wait saw it, and asked again before a timeout is declared. *)
Available(w) == w \in ready \/ (w \in late /\ Readable(w))

Skip(w) ==
    /\ ~Available(w) /\ w \notin late
    /\ UNCHANGED <<pool, results, sent>>

(* What map takes for the answer: the reply, the end of the pipe, or a     *)
(* timeout.                                                                *)
Taken(w) ==
    IF ~Available(w) THEN [to |-> pending[w].index, kind |-> "timeout"]
    ELSE IF outbox[w] = <<>> THEN [to |-> pending[w].index, kind |-> "broken"]
    ELSE [to |-> Head(outbox[w]).to, kind |-> Head(outbox[w]).kind]

(* Mutant: without the watchdog. *)
DueOnAnswer(w) == Available(w)

Due(w) == Available(w) \/ w \in late

Retry(w) ==
    /\ Due(w)
    /\ Taken(w).kind \in Retried /\ pending[w].attempt = 1
    /\ Start(w, pending[w].index, 2)
    /\ UNCHANGED results

Closed(w) == w \in late \/ Taken(w).kind # "fine" \/ calls[w] + 1 >= CALLS

Finish(w) ==
    /\ Due(w)
    /\ Taken(w).kind \in Retried => pending[w].attempt # 1
    /\ results' = [results EXCEPT ![pending[w].index] = Taken(w)]
    /\ pending' = [pending EXCEPT ![w] = NoInput]
    /\ late' = late \ {w}
    /\ IF Closed(w)
       THEN /\ process' = [process EXCEPT ![w] = "none"]
            /\ inbox' = [inbox EXCEPT ![w] = <<>>]
            /\ outbox' = [outbox EXCEPT ![w] = <<>>]
            /\ calls' = [calls EXCEPT ![w] = 0]
       ELSE /\ outbox' = [outbox EXCEPT ![w] = Tail(@)]
            /\ calls' = [calls EXCEPT ![w] = @ + 1]
            /\ UNCHANGED <<process, inbox>>
    /\ UNCHANGED sent

Check(w) ==
    /\ stage = "check" /\ w \in check
    /\ Skip(w) \/ Retry(w) \/ Finish(w)
    /\ check' = check \ {w} /\ ready' = ready \ {w}
    /\ stage' = IF check = {w} THEN "fill" ELSE "check"
    /\ UNCHANGED next

(* The fresh process for the second attempt does not start. *)
RetryFails(w) ==
    /\ stage = "check" /\ w \in check
    /\ Due(w)
    /\ Taken(w).kind \in Retried /\ pending[w].attempt = 1
    /\ Raise

Return ==
    /\ stage = "fill" /\ next > Size /\ Free = Worker
    /\ Over
    /\ UNCHANGED pool

(* An interrupt anywhere in map. *)
Interrupt == stage # "idle" /\ Raise

-----------------------------------------------------------------------------
Map == \/ Fill \/ FillFails \/ Wait \/ Return
       \/ \E w \in Worker : Check(w) \/ RetryFails(w)

PoolNext ==
    \/ Begin \/ Map \/ Interrupt
    \/ \E w \in Worker : Reply(w) \/ Die(w) \/ Late(w)

PoolSpec == PoolInit /\ [][PoolNext]_poolVars

(* The parent runs and time passes; no process ever has to answer. *)
PoolFairSpec == PoolSpec /\ WF_poolVars(Map) /\ \A w \in Worker : WF_poolVars(Late(w))

-----------------------------------------------------------------------------
(* Properties.                                                             *)

TypeOK ==
    /\ process \in [Worker -> {"none", "up", "dead"}]
    /\ \A w \in Worker : inbox[w] \in Seq(Input) /\ Len(inbox[w]) <= 1
    /\ \A w \in Worker :
          /\ outbox[w] \in Seq([to : Input, kind : Kinds, late : BOOLEAN])
          /\ Len(inbox[w]) + Len(outbox[w]) <= 1
    /\ pending \in [Worker -> [index : Index, attempt : 1 .. 2] \cup {NoInput}]
    /\ late \subseteq Worker
    /\ calls \in [Worker -> 0 .. CALLS - 1]
    /\ stage \in {"idle", "fill", "check"}
    /\ next \in 1 .. Size + 1
    /\ results \in [Index -> Answer \cup {Unknown}]
    /\ ready \subseteq Worker /\ check \subseteq Worker
    /\ sent \in [Index -> 0 .. 2]

(* A result is that of its own input of this call, whatever process it     *)
(* comes from and whatever an earlier call left behind; an input fails     *)
(* only after two processes had accepted it.                               *)
OwnAnswers ==
    \A i \in Index : results[i] # Unknown =>
        /\ results[i].to = i
        /\ results[i].kind \in Retried => sent[i] = 2

(* An answer given within timeout_seconds is taken, even if map was busy   *)
(* restarting other processes until long after: unless map raises, it is   *)
(* the result, or it is the failure that asks for the second attempt.      *)
InTimeAnswersCount ==
    [][\A w \in Worker :
          (/\ pending[w] # NoInput /\ pending'[w] # pending[w]
           /\ outbox[w] # <<>> /\ ~Head(outbox[w]).late /\ stage' # "idle")
          => \/ results'[pending[w].index].kind = Head(outbox[w]).kind
             \/ Head(outbox[w]).kind = "broken" /\ pending[w].attempt = 1]_poolVars

(* Every call ends, even if no process ever answers. *)
MapEnds == (stage # "idle") ~> (stage = "idle")
=============================================================================
