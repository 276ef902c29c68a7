--------------------------- MODULE SqlWriter_proofs ---------------------------
(***************************************************************************)
(* The safety of what SqlWriter (storage/ingestion.py) stands between: the *)
(* parser processes that it asks, and the rows that it writes, of which    *)
(* triggers derive the query tables.                                       *)
(*                                                                         *)
(* NormalizingPool, for any number of inputs and of calls that a process   *)
(* lives: every input gets its own answer, and an answer that was given in *)
(* time is never taken for a timeout.  The pipes carry no call numbers, so *)
(* an answer is known only by where it is met.  PipeInv is what makes that *)
(* enough: in the pipes of a worker is at most the input it is waited for  *)
(* or the answer to it, and nothing at all once it is not waited for, also *)
(* between two calls.                                                      *)
(*                                                                         *)
(* QueryProjection, for any importers, files, rules and edits: the derived *)
(* tables are exact at every commit, and a text is stored once.  First the *)
(* refresh as a function: from exact tables, and what a transaction put in *)
(* and took out, it makes the exact tables (RefreshIsExact).  Then the     *)
(* invariant Inv: a connection that is about to commit a change holds the  *)
(* lock and has tables that are exact for what the commit will make of the *)
(* rows, and nobody without the lock commits anything.                     *)
(***************************************************************************)
EXTENDS QueryProjection, NormalizingPool, FiniteSetTheorems, TLAPS

-----------------------------------------------------------------------------
(* NormalizingPool: the invariant.                                         *)

Given == [to : Input, kind : {"fine", "refused", "broken"}, late : BOOLEAN]

PipeInv ==
    \A w \in Worker :
        \/ inbox[w] = <<>> /\ outbox[w] = <<>>
        \/ /\ pending[w] # NoInput
           /\ inbox[w] = <<pending[w].index>> /\ outbox[w] = <<>>
        \/ /\ pending[w] # NoInput
           /\ inbox[w] = <<>>
           /\ \E given \in Given : given.to = pending[w].index /\ outbox[w] = <<given>>

(* An input of the call is not handed out yet, waited for from one worker, *)
(* or settled; sent counts its attempts. *)
CallInv ==
    /\ \A w \in Worker : pending[w] # NoInput =>
          /\ stage # "idle"
          /\ pending[w].index < next
          /\ results[pending[w].index] = Unknown
          /\ sent[pending[w].index] = pending[w].attempt
    /\ \A v, w \in Worker :
          pending[v] # NoInput /\ pending[v].index = pending[w].index => v = w
    /\ \A i \in Index : i >= next => results[i] = Unknown /\ sent[i] = 0
    /\ stage = "idle" => next = 1

(* The workers that map has still to look at are waited for. *)
CheckInv ==
    IF stage = "check" THEN \A w \in check : pending[w] # NoInput ELSE check = {}

(* TypeOK, but of the pipes only that every worker has them: PipeInv says  *)
(* more of them than their type. *)
MapType ==
    /\ process \in [Worker -> {"none", "up", "dead"}]
    /\ inbox = [w \in Worker |-> inbox[w]] /\ outbox = [w \in Worker |-> outbox[w]]
    /\ pending \in [Worker -> [index : Index, attempt : 1 .. 2] \cup {NoInput}]
    /\ late \subseteq Worker
    /\ calls \in [Worker -> 0 .. CALLS - 1]
    /\ stage \in {"idle", "fill", "check"}
    /\ next \in 1 .. Size + 1
    /\ results \in [Index -> Answer \cup {Unknown}]
    /\ ready \subseteq Worker /\ check \subseteq Worker
    /\ sent \in [Index -> 0 .. 2]

PoolInv == MapType /\ PipeInv /\ CallInv /\ CheckInv /\ OwnAnswers

-----------------------------------------------------------------------------
(* Facts about the constants, places and pipes.                            *)

(* The constants, one fact each. *)
LEMMA PoolConstants == Size \in Nat /\ CALLS \in Nat /\ CALLS >= 1
<1>1. Size \in Nat /\ CALLS \in Nat \ {0}
  BY PoolAssumption
<1>. QED BY <1>1

(* What a worker is waited for is an input of the call. *)
LEMMA Waited ==
  ASSUME MapType, NEW w \in Worker, pending[w] # NoInput
  PROVE  /\ pending[w] \in [index : Index, attempt : 1 .. 2]
         /\ pending[w].index \in Index /\ pending[w].attempt \in {1, 2}
<1>1. pending[w] \in [index : Index, attempt : 1 .. 2]
  BY DEF MapType
<1>. QED BY <1>1

(* TypeOK is MapType and what the pipes hold. *)
LEMMA Types == MapType /\ PipeInv => TypeOK
<1>. SUFFICES ASSUME MapType, PipeInv PROVE TypeOK
  OBVIOUS
<1>1. ASSUME NEW w \in Worker
      PROVE  /\ inbox[w] \in Seq(Input) /\ Len(inbox[w]) <= 1
             /\ outbox[w] \in Seq([to : Input, kind : Kinds, late : BOOLEAN])
             /\ Len(inbox[w]) + Len(outbox[w]) <= 1
  <2>1. CASE inbox[w] = <<>> /\ outbox[w] = <<>>
    BY <2>1
  <2>2. CASE pending[w] # NoInput /\ inbox[w] = <<pending[w].index>> /\ outbox[w] = <<>>
    <3>1. pending[w].index \in Input
      BY <2>2, Waited, PoolConstants DEF Index, Input
    <3>. QED BY <2>2, <3>1
  <2>3. ASSUME inbox[w] = <<>>, NEW given \in Given, outbox[w] = <<given>>
        PROVE  /\ inbox[w] \in Seq(Input) /\ Len(inbox[w]) <= 1
               /\ outbox[w] \in Seq([to : Input, kind : Kinds, late : BOOLEAN])
               /\ Len(inbox[w]) + Len(outbox[w]) <= 1
    <3>1. given \in [to : Input, kind : Kinds, late : BOOLEAN]
      BY DEF Given, Kinds
    <3>. QED BY <2>3, <3>1
  <2>. QED BY <2>1, <2>2, <2>3 DEF PipeInv
<1>. QED BY <1>1 DEF TypeOK, MapType

(* What map takes for the answer of a worker that it waits for is about    *)
(* the input it waits for; what was answered is never a timeout. *)
LEMMA TakenIsOwn ==
  ASSUME MapType, PipeInv, NEW w \in Worker, pending[w] # NoInput
  PROVE  /\ Taken(w) \in Answer /\ Taken(w).to = pending[w].index
         /\ outbox[w] # <<>> => /\ Head(outbox[w]).kind \in {"fine", "refused", "broken"}
                                /\ Tail(outbox[w]) = <<>> /\ inbox[w] = <<>>
         /\ outbox[w] # <<>> /\ Due(w) =>
               Available(w) /\ Taken(w).kind = Head(outbox[w]).kind
<1>1. pending[w].index \in Index /\ pending[w].index \in Input
  BY Waited, PoolConstants DEF Index, Input
<1>2. CASE outbox[w] = <<>>
  BY <1>1, <1>2 DEF Taken, Answer, Kinds
<1>3. CASE outbox[w] # <<>>
  <2>1. PICK given \in Given : /\ given.to = pending[w].index
                               /\ outbox[w] = <<given>> /\ inbox[w] = <<>>
    BY <1>3 DEF PipeInv
  <2>2. Head(outbox[w]) = given /\ Tail(outbox[w]) = <<>>
    BY <2>1
  <2>3. given.kind \in {"fine", "refused", "broken"}
    BY DEF Given
  <2>4. Due(w) => Available(w)
    BY <1>3 DEF Due, Available, Readable
  <2>5. CASE Available(w)
    <3>1. Taken(w) = [to |-> given.to, kind |-> given.kind]
      BY <1>3, <2>2, <2>5 DEF Taken
    <3>. QED BY <1>1, <2>1, <2>2, <2>3, <2>5, <3>1 DEF Answer, Kinds
  <2>6. CASE ~Available(w)
    <3>1. Taken(w) = [to |-> pending[w].index, kind |-> "timeout"]
      BY <2>6 DEF Taken
    <3>. QED BY <1>1, <2>1, <2>2, <2>3, <2>4, <2>6, <3>1 DEF Answer, Kinds
  <2>. QED BY <2>5, <2>6
<1>. QED BY <1>2, <1>3

-----------------------------------------------------------------------------
(* PoolInv holds initially, and every step keeps each of its parts.        *)

(* No process, no call. *)
LEMMA PoolInvInit == PoolInit => PoolInv
<1>. SUFFICES ASSUME PoolInit PROVE PoolInv
  OBVIOUS
<1>1. MapType
  <2>1. Size + 1 \in Nat /\ 1 \in 1 .. Size + 1 /\ 0 \in 0 .. CALLS - 1
    BY PoolConstants
  <2>. QED BY <2>1, PoolConstants DEF PoolInit, MapType
<1>2. PipeInv /\ CheckInv
  BY DEF PoolInit, PipeInv, CheckInv
<1>3. CallInv /\ OwnAnswers
  BY DEF PoolInit, CallInv, OwnAnswers
<1>. QED BY <1>1, <1>2, <1>3 DEF PoolInv

(* After an exception of map nothing is left over either. *)
LEMMA RaiseStep == ASSUME Raise PROVE PoolInv'
<1>1. MapType'
  <2>1. 1 \in 1 .. Size + 1 /\ 0 \in 0 .. CALLS - 1
    BY PoolConstants
  <2>. QED BY <2>1, PoolConstants DEF Raise, Over, MapType
<1>2. PipeInv' /\ CheckInv'
  BY DEF Raise, Over, PipeInv, CheckInv
<1>3. CallInv' /\ OwnAnswers'
  BY DEF Raise, Over, CallInv, OwnAnswers
<1>. QED BY <1>1, <1>2, <1>3 DEF PoolInv

(* A process that starts gets an input nobody is waited for any more. *)
LEMMA StartStep ==
  ASSUME PoolInv, NEW w \in Worker, NEW i \in Index, NEW attempt \in {1, 2},
         Start(w, i, attempt), UNCHANGED results,
         sent[i] = attempt - 1, results[i] = Unknown, i < next',
         next' \in {next, next + 1}, next' \in 1 .. Size + 1,
         next' = next + 1 => i = next,
         \A v \in Worker \ {w} : pending[v] = NoInput \/ pending[v].index # i,
         stage' = IF check' = {} THEN "fill" ELSE "check",
         check' \subseteq check \ {w}, ready' \subseteq ready
  PROVE  PoolInv'
<1>. USE DEF PoolInv, Start
<1>0. [index |-> i, attempt |-> attempt] # NoInput
  BY PoolConstants DEF NoInput, Index
<1>1. MapType'
  <2>1. pending' \in [Worker -> [index : Index, attempt : 1 .. 2] \cup {NoInput}]
    <3>1. [index |-> i, attempt |-> attempt] \in [index : Index, attempt : 1 .. 2]
      OBVIOUS
    <3>. QED BY <3>1 DEF MapType
  <2>2. sent' \in [Index -> 0 .. 2]
    <3>1. sent[i] + 1 \in 0 .. 2
      OBVIOUS
    <3>. QED BY <3>1 DEF MapType
  <2>3. calls' \in [Worker -> 0 .. CALLS - 1]
    <3>1. 0 \in 0 .. CALLS - 1
      BY PoolConstants
    <3>. QED BY <3>1 DEF MapType
  <2>4. /\ process' \in [Worker -> {"none", "up", "dead"}]
        /\ inbox' = [v \in Worker |-> inbox'[v]] /\ outbox' = [v \in Worker |-> outbox'[v]]
        /\ late' \subseteq Worker
    BY DEF MapType
  <2>. QED BY <2>1, <2>2, <2>3, <2>4 DEF MapType
<1>2. PipeInv'
  BY <1>0 DEF PipeInv, MapType
<1>3. CallInv'
  <2>1. /\ pending'[w] = [index |-> i, attempt |-> attempt]
        /\ \A v \in Worker \ {w} : pending'[v] = pending[v]
        /\ sent'[i] = attempt
        /\ \A j \in Index \ {i} : sent'[j] = sent[j]
    BY DEF MapType
  <2>2. next \in Nat /\ \A j \in Index : j \in Nat
    BY PoolConstants DEF MapType, Index
  <2>3. ASSUME NEW v \in Worker, pending'[v] # NoInput
        PROVE  /\ stage' # "idle"
               /\ pending'[v].index < next'
               /\ results'[pending'[v].index] = Unknown
               /\ sent'[pending'[v].index] = pending'[v].attempt
    <3>1. CASE v = w
      BY <2>1, <3>1
    <3>2. CASE v # w
      <4>1. pending[v] # NoInput /\ pending[v].index \in Index \ {i}
        BY <2>1, <2>3, <3>2, Waited
      <4>. QED BY <2>1, <2>2, <3>2, <4>1 DEF CallInv
    <3>. QED BY <3>1, <3>2
  <2>4. ASSUME NEW v \in Worker, NEW u \in Worker, pending'[v] # NoInput,
               pending'[v].index = pending'[u].index
        PROVE  v = u
    <3>1. NoInput.index \notin Index
      BY PoolConstants DEF NoInput, Index
    <3>2. pending'[u] # NoInput
      BY <2>1, <2>4, <3>1, Waited
    <3>. QED BY <2>1, <2>4, <3>2 DEF CallInv
  <2>5. \A j \in Index : j >= next' => results'[j] = Unknown /\ sent'[j] = 0
    BY <2>1, <2>2 DEF CallInv
  <2>. QED BY <2>3, <2>4, <2>5 DEF CallInv
<1>4. CheckInv'
  BY <1>0 DEF CheckInv, MapType
<1>5. OwnAnswers'
  BY DEF OwnAnswers, MapType
<1>. QED BY <1>1, <1>2, <1>3, <1>4, <1>5

(* A worker whose input is settled is not waited for, and its pipes are    *)
(* empty, whether its process lives on or not. *)
LEMMA FinishStep ==
  ASSUME PoolInv, NEW w \in Worker, pending[w] # NoInput, Finish(w), UNCHANGED next,
         stage' = IF check' = {} THEN "fill" ELSE "check",
         check' = check \ {w}, ready' \subseteq ready
  PROVE  PoolInv'
<1>. DEFINE i == pending[w].index
<1>. USE DEF PoolInv
<1>1. /\ i \in Index /\ i < next /\ results[i] = Unknown /\ sent[i] = pending[w].attempt
      /\ pending[w].attempt \in {1, 2} /\ inbox[w] \in {<<>>, <<i>>}
      /\ \A v \in Worker \ {w} : pending[v].index # i
  BY Waited DEF CallInv, PipeInv
<1>2. /\ Taken(w) \in Answer /\ Taken(w).to = i
      /\ Taken(w).kind \in Retried => sent[i] = 2
  BY <1>1, TakenIsOwn DEF Finish
<1>3. /\ results' = [results EXCEPT ![i] = Taken(w)]
      /\ pending' = [pending EXCEPT ![w] = NoInput]
      /\ late' = late \ {w} /\ sent' = sent
  BY DEF Finish
<1>. HIDE DEF i
<1>4. inbox'[w] = <<>> /\ outbox'[w] = <<>>
  <2>1. CASE Closed(w)
    BY <2>1 DEF Finish, MapType
  <2>2. CASE ~Closed(w)
    <3>1. outbox[w] # <<>>
      BY <2>2 DEF Closed, Taken, Finish, Due, Retried
    <3>2. outbox'[w] = Tail(outbox[w]) /\ inbox'[w] = inbox[w]
      BY <2>2 DEF Finish, MapType
    <3>. QED BY <3>1, <3>2, TakenIsOwn
  <2>. QED BY <2>1, <2>2
<1>5. \A v \in Worker \ {w} : inbox'[v] = inbox[v] /\ outbox'[v] = outbox[v]
  BY DEF Finish, MapType
<1>6. MapType'
  <2>1. /\ process' \in [Worker -> {"none", "up", "dead"}]
        /\ inbox' = [v \in Worker |-> inbox'[v]] /\ outbox' = [v \in Worker |-> outbox'[v]]
    BY DEF Finish, MapType
  <2>2. calls' \in [Worker -> 0 .. CALLS - 1]
    <3>1. CASE Closed(w)
      BY <3>1, PoolConstants DEF Finish, MapType
    <3>2. CASE ~Closed(w)
      <4>1. calls[w] + 1 \in 0 .. CALLS - 1
        BY <3>2, PoolConstants DEF Closed, MapType
      <4>. QED BY <3>2, <4>1 DEF Finish, MapType
    <3>. QED BY <3>1, <3>2
  <2>3. results' \in [Index -> Answer \cup {Unknown}]
    BY <1>1, <1>2, <1>3 DEF MapType
  <2>4. pending' \in [Worker -> [index : Index, attempt : 1 .. 2] \cup {NoInput}]
    BY <1>3 DEF MapType
  <2>. QED BY <1>3, <2>1, <2>2, <2>3, <2>4 DEF MapType
<1>7. pending'[w] = NoInput /\ \A v \in Worker \ {w} : pending'[v] = pending[v]
  BY <1>3 DEF MapType
<1>8. results'[i] = Taken(w) /\ \A j \in Index \ {i} : results'[j] = results[j]
  BY <1>1, <1>3 DEF MapType
<1>9. PipeInv'
  BY <1>4, <1>5, <1>7 DEF PipeInv
<1>10. CallInv'
  <2>1. ASSUME NEW v \in Worker, pending'[v] # NoInput
        PROVE  v # w /\ pending[v] # NoInput /\ pending'[v] = pending[v]
               /\ pending[v].index \in Index \ {i}
    BY <1>1, <1>7, <2>1, Waited
  <2>2. next \in Nat /\ \A j \in Index : j \in Nat
    BY PoolConstants DEF MapType, Index
  <2>3. \A j \in Index : j >= next => j # i
    BY <1>1, <2>2
  <2>4. NoInput.index \notin Index
    BY PoolConstants DEF NoInput, Index
  <2>5. ASSUME NEW v \in Worker, NEW u \in Worker, pending'[v] # NoInput,
               pending'[v].index = pending'[u].index
        PROVE  v = u
    BY <1>7, <2>1, <2>4, <2>5 DEF CallInv
  <2>6. ASSUME NEW v \in Worker, pending'[v] # NoInput
        PROVE  /\ stage' # "idle"
               /\ pending'[v].index < next'
               /\ results'[pending'[v].index] = Unknown
               /\ sent'[pending'[v].index] = pending'[v].attempt
    BY <1>3, <1>8, <2>1, <2>6 DEF CallInv
  <2>7. \A j \in Index : j >= next' => results'[j] = Unknown /\ sent'[j] = 0
    BY <1>3, <1>8, <2>3 DEF CallInv
  <2>. QED BY <2>5, <2>6, <2>7 DEF CallInv
<1>11. CheckInv'
  BY <1>7 DEF CheckInv, MapType
<1>12. OwnAnswers'
  BY <1>2, <1>3, <1>8 DEF OwnAnswers
<1>. QED BY <1>6, <1>9, <1>10, <1>11, <1>12

(* A process that is kept has answered what it was asked before, so the    *)
(* new input is alone in its pipes. *)
LEMMA SendStep ==
  ASSUME PoolInv, NEW w \in Worker, stage = "fill", next <= Size, pending[w] = NoInput,
         Send(w, next), next' = next + 1, UNCHANGED <<stage, results, ready, check>>
  PROVE  PoolInv'
<1>. USE DEF PoolInv
<1>. DEFINE new == [index |-> next, attempt |-> 1]
<1>0. next \in Index /\ next \in Nat /\ Size \in Nat /\ (\A j \in Index : j \in Nat)
  BY PoolConstants DEF MapType, Index
<1>1. new # NoInput /\ new \in [index : Index, attempt : 1 .. 2]
  BY <1>0 DEF NoInput
<1>2. /\ pending' = [pending EXCEPT ![w] = new] /\ sent' = [sent EXCEPT ![next] = @ + 1]
      /\ late' \subseteq late /\ inbox' = [inbox EXCEPT ![w] = Append(@, next)]
      /\ UNCHANGED <<process, outbox, calls>>
  BY DEF Send
<1>3. sent[next] = 0 /\ results[next] = Unknown
  BY <1>0 DEF CallInv
<1>4. new.index = next /\ new.attempt = 1
  OBVIOUS
<1>. HIDE DEF new
<1>5. MapType'
  <2>1. pending' \in [Worker -> [index : Index, attempt : 1 .. 2] \cup {NoInput}]
    BY <1>1, <1>2 DEF MapType
  <2>2. sent' \in [Index -> 0 .. 2]
    BY <1>0, <1>2, <1>3 DEF MapType
  <2>3. next' \in 1 .. Size + 1
    BY <1>0 DEF MapType
  <2>4. inbox' = [v \in Worker |-> inbox'[v]]
    BY <1>2 DEF MapType
  <2>. QED BY <1>2, <2>1, <2>2, <2>3, <2>4 DEF MapType
<1>6. /\ pending'[w] = new
      /\ \A v \in Worker \ {w} : pending'[v] = pending[v]
      /\ sent'[next] = 1
      /\ \A j \in Index \ {next} : sent'[j] = sent[j]
  BY <1>0, <1>2, <1>3 DEF MapType
<1>7. PipeInv'
  <2>1. inbox[w] = <<>> /\ outbox[w] = <<>>
    BY DEF PipeInv
  <2>2. inbox'[w] = <<next>> /\ outbox'[w] = <<>>
    <3>1. inbox'[w] = Append(inbox[w], next)
      BY <1>2 DEF MapType
    <3>. QED BY <1>2, <2>1, <3>1
  <2>3. \A v \in Worker \ {w} : inbox'[v] = inbox[v] /\ outbox'[v] = outbox[v]
    BY <1>2 DEF MapType
  <2>. QED BY <1>1, <1>4, <1>6, <2>2, <2>3 DEF PipeInv
<1>8. CallInv'
  <2>1. ASSUME NEW v \in Worker, pending'[v] # NoInput
        PROVE  /\ stage' # "idle"
               /\ pending'[v].index < next'
               /\ results'[pending'[v].index] = Unknown
               /\ sent'[pending'[v].index] = pending'[v].attempt
    <3>1. CASE v = w
      BY <1>0, <1>3, <1>4, <1>6, <3>1
    <3>2. CASE v # w
      <4>1. /\ pending[v] # NoInput /\ pending[v].index \in Index
            /\ pending[v].index < next /\ results[pending[v].index] = Unknown
            /\ sent[pending[v].index] = pending[v].attempt
        BY <1>6, <2>1, <3>2, Waited DEF CallInv
      <4>2. pending[v].index \in Index \ {next} /\ pending[v].index < next + 1
        <5>1. \A j \in Index : j < next => j # next /\ j < next + 1
          BY <1>0
        <5>. QED BY <4>1, <5>1
      <4>. QED BY <1>6, <3>2, <4>1, <4>2
    <3>. QED BY <3>1, <3>2
  <2>2. ASSUME NEW v \in Worker, NEW u \in Worker, pending'[v] # NoInput,
               pending'[v].index = pending'[u].index
        PROVE  v = u
    <3>1. NoInput.index \notin Index
      BY PoolConstants DEF NoInput, Index
    <3>2. \A x \in Worker : pending[x] # NoInput => pending[x].index \in Index /\ pending[x].index < next
      BY Waited DEF CallInv
    <3>3. \A x \in Worker \ {w} : pending[x].index # next
      BY <1>0, <3>1, <3>2
    <3>. QED BY <1>4, <1>6, <2>2, <3>3 DEF CallInv
  <2>3. \A j \in Index : j >= next' => results'[j] = Unknown /\ sent'[j] = 0
    <3>1. \A j \in Index : j >= next' => j >= next /\ j # next
      BY <1>0
    <3>. QED BY <1>6, <3>1 DEF CallInv
  <2>. QED BY <2>1, <2>2, <2>3 DEF CallInv
<1>9. CheckInv'
  BY DEF CheckInv
<1>10. OwnAnswers'
  BY <1>0, <1>3, <1>6 DEF OwnAnswers
<1>. QED BY <1>5, <1>7, <1>8, <1>9, <1>10

(* map hands out the next input. *)
LEMMA FillStep == ASSUME PoolInv, Fill PROVE PoolInv'
<1>1. PICK w \in Worker : First(w) /\ (Start(w, next, 1) \/ Send(w, next))
  BY DEF Fill
<1>2. pending[w] = NoInput /\ stage = "fill" /\ next <= Size
  BY <1>1 DEF Fill, First, Free
<1>3. next' = next + 1 /\ UNCHANGED <<stage, results, ready, check>>
  BY DEF Fill
<1>4. CASE Send(w, next)
  BY <1>2, <1>3, <1>4, SendStep
<1>5. CASE Start(w, next, 1)
  <2>1. /\ next \in Index /\ next \in Nat /\ next + 1 \in 1 .. Size + 1
        /\ check = {} /\ sent[next] = 0 /\ results[next] = Unknown
    BY <1>2, PoolConstants DEF PoolInv, MapType, Index, CallInv, CheckInv
  <2>2. \A v \in Worker \ {w} : pending[v] = NoInput \/ pending[v].index # next
    <3>1. \A v \in Worker : pending[v] # NoInput => pending[v].index < next
      BY DEF PoolInv, CallInv
    <3>2. ~(next < next)
      BY <2>1
    <3>. QED BY <3>1, <3>2
  <2>. QED BY <1>2, <1>3, <1>5, <2>1, <2>2, StartStep
<1>. QED BY <1>1, <1>4, <1>5

(* map looks at a worker that it waits for. *)
LEMMA CheckStep == ASSUME PoolInv, NEW w \in Worker, Check(w) PROVE PoolInv'
<1>. USE DEF PoolInv
<1>1. stage = "check" /\ w \in check /\ pending[w] # NoInput
  BY DEF Check, CheckInv
<1>2. /\ check' = check \ {w} /\ ready' \subseteq ready /\ next' = next
      /\ stage' = IF check' = {} THEN "fill" ELSE "check"
  <2>1. check = {w} <=> check \ {w} = {}
    BY <1>1
  <2>. QED BY <2>1 DEF Check
<1>3. CASE Skip(w)
  <2>1. UNCHANGED <<process, inbox, outbox, pending, late, calls, results, sent, next>>
    BY <1>2, <1>3 DEF Skip, pool
  <2>2. MapType'
    BY <1>2, <2>1 DEF MapType
  <2>3. PipeInv' /\ OwnAnswers'
    BY <2>1 DEF PipeInv, OwnAnswers
  <2>4. CallInv'
    BY <1>1, <1>2, <2>1 DEF CallInv
  <2>5. CheckInv'
    BY <1>1, <1>2, <2>1 DEF CheckInv
  <2>. QED BY <2>2, <2>3, <2>4, <2>5
<1>4. CASE Retry(w)
  <2>. DEFINE i == pending[w].index
  <2>1. /\ i \in Index /\ sent[i] = 1 /\ results[i] = Unknown /\ i < next
        /\ Start(w, i, 2) /\ UNCHANGED results
    BY <1>1, <1>4, Waited DEF Retry, CallInv
  <2>2. \A v \in Worker \ {w} : pending[v] = NoInput \/ pending[v].index # i
    BY <1>1 DEF CallInv
  <2>3. next \in Nat /\ next \in 1 .. Size + 1
    BY PoolConstants DEF MapType
  <2>. HIDE DEF i
  <2>. QED BY <1>2, <2>1, <2>2, <2>3, StartStep
<1>5. CASE Finish(w)
  BY <1>1, <1>2, <1>5, FinishStep
<1>. QED BY <1>3, <1>4, <1>5 DEF Check

(* A process answers what is in its pipe, or takes it along when it dies. *)
LEMMA WorkerStep ==
  ASSUME PoolInv, NEW w \in Worker, Reply(w) \/ Die(w) \/ Late(w)
  PROVE  PoolInv'
<1>. USE DEF PoolInv
<1>1. UNCHANGED <<pending, calls, stage, next, results, ready, check, sent>>
  BY DEF Reply, Die, Late
<1>2. CallInv' /\ CheckInv' /\ OwnAnswers'
  BY <1>1 DEF CallInv, CheckInv, OwnAnswers
<1>3. MapType'
  BY <1>1 DEF MapType, Reply, Die, Late
<1>4. PipeInv'
  <2>1. CASE Reply(w)
    <3>1. PICK kind \in {"fine", "refused", "broken"} :
             outbox' = [outbox EXCEPT ![w] =
                Append(@, [to |-> Head(inbox[w]), kind |-> kind, late |-> w \in late])]
      BY <2>1 DEF Reply
    <3>. DEFINE given == [to |-> Head(inbox[w]), kind |-> kind, late |-> w \in late]
    <3>2. pending[w] # NoInput /\ inbox[w] = <<pending[w].index>> /\ outbox[w] = <<>>
      BY <2>1 DEF Reply, PipeInv
    <3>3. Head(inbox[w]) = pending[w].index /\ Tail(inbox[w]) = <<>>
      BY <3>2
    <3>4. given \in Given /\ given.to = pending[w].index
      <4>1. pending[w].index \in Input /\ (w \in late) \in BOOLEAN
        BY <3>2, Waited, PoolConstants DEF Index, Input
      <4>. QED BY <3>3, <4>1 DEF Given
    <3>. HIDE DEF given
    <3>5. outbox'[w] = Append(outbox[w], given) /\ inbox'[w] = Tail(inbox[w])
      BY <2>1, <3>1 DEF Reply, MapType, given
    <3>6. outbox'[w] = <<given>> /\ inbox'[w] = <<>>
      BY <3>2, <3>3, <3>5
    <3>7. \A v \in Worker \ {w} : inbox'[v] = inbox[v] /\ outbox'[v] = outbox[v]
      BY <2>1, <3>1 DEF Reply, MapType
    <3>. QED BY <1>1, <3>2, <3>4, <3>6, <3>7 DEF PipeInv
  <2>2. CASE Die(w)
    BY <2>2 DEF Die, PipeInv, MapType
  <2>3. CASE Late(w)
    BY <2>3 DEF Late, PipeInv
  <2>. QED BY <2>1, <2>2, <2>3
<1>. QED BY <1>2, <1>3, <1>4

(* A call begins with empty pipes, whatever ended the one before. *)
LEMMA BeginStep == ASSUME PoolInv, Begin PROVE PoolInv'
<1>. USE DEF PoolInv
<1>1. \A w \in Worker : pending[w] = NoInput /\ inbox[w] = <<>> /\ outbox[w] = <<>>
  BY DEF Begin, CallInv, PipeInv
<1>2. \A w \in Worker : inbox'[w] = <<>> /\ outbox'[w] = <<>>
  <2>1. ASSUME NEW w \in Worker PROVE inbox'[w] = <<>> /\ outbox'[w] = <<>>
    <3>1. inbox'[w] = [k \in DOMAIN inbox[w] |-> 0]
      BY DEF Begin
    <3>2. outbox'[w] = [k \in DOMAIN outbox[w] |-> [outbox[w][k] EXCEPT !.to = 0]]
      BY DEF Begin
    <3>3. DOMAIN inbox[w] = {} /\ DOMAIN outbox[w] = {}
      BY <1>1
    <3>. QED BY <3>1, <3>2, <3>3
  <2>. QED BY <2>1
<1>3. /\ UNCHANGED <<process, pending, late, calls, next, results, ready, check, sent>>
      /\ stage = "idle" /\ stage' = "fill"
  BY DEF Begin
<1>4. PipeInv'
  BY <1>2 DEF PipeInv
<1>5. MapType'
  BY <1>3 DEF Begin, MapType
<1>6. CallInv' /\ CheckInv' /\ OwnAnswers'
  BY <1>1, <1>3 DEF CallInv, CheckInv, OwnAnswers
<1>. QED BY <1>4, <1>5, <1>6

(* What map has to look at after a wait is all that it waits for. *)
LEMMA WaitStep == ASSUME PoolInv, Wait PROVE PoolInv'
<1>. USE DEF PoolInv
<1>1. /\ UNCHANGED <<process, inbox, outbox, pending, late, calls, next, results, sent>>
      /\ ready' \subseteq Worker /\ check' = Worker \ Free /\ stage = "fill" /\ stage' = "check"
  BY DEF Wait, pool
<1>2. MapType'
  BY <1>1 DEF MapType
<1>3. PipeInv' /\ OwnAnswers'
  BY <1>1 DEF PipeInv, OwnAnswers
<1>4. CallInv' /\ CheckInv'
  BY <1>1 DEF CallInv, CheckInv, Free
<1>. QED BY <1>2, <1>3, <1>4

(* map returns when it waits for nobody. *)
LEMMA ReturnStep == ASSUME PoolInv, Return PROVE PoolInv'
<1>. USE DEF PoolInv
<1>1. UNCHANGED <<process, inbox, outbox, pending, late, calls>> /\ Over
  BY DEF Return, pool
<1>2. \A w \in Worker : pending[w] = NoInput
  BY DEF Return, Free
<1>3. MapType'
  <2>1. 1 \in 1 .. Size + 1
    BY PoolConstants
  <2>. QED BY <1>1, <2>1, PoolConstants DEF MapType, Over
<1>4. PipeInv'
  BY <1>1 DEF PipeInv
<1>5. CallInv' /\ CheckInv' /\ OwnAnswers'
  BY <1>1, <1>2 DEF CallInv, CheckInv, OwnAnswers, Over
<1>. QED BY <1>3, <1>4, <1>5

-----------------------------------------------------------------------------
(* The theorems about the pool.                                            *)

(* The invariant holds in every state of every run. *)
THEOREM PoolInvariance == PoolSpec => []PoolInv
<1>1. ASSUME PoolInv, [PoolNext]_poolVars PROVE PoolInv'
  <2>1. CASE UNCHANGED poolVars
    <3>1. MapType' /\ PipeInv'
      BY <1>1, <2>1 DEF poolVars, PoolInv, MapType, PipeInv
    <3>2. CallInv' /\ CheckInv' /\ OwnAnswers'
      BY <1>1, <2>1 DEF poolVars, PoolInv, CallInv, CheckInv, OwnAnswers
    <3>. QED BY <3>1, <3>2 DEF PoolInv
  <2>2. CASE Begin BY <1>1, <2>2, BeginStep
  <2>3. CASE Fill BY <1>1, <2>3, FillStep
  <2>4. CASE Wait BY <1>1, <2>4, WaitStep
  <2>5. CASE Return BY <1>1, <2>5, ReturnStep
  <2>6. ASSUME NEW w \in Worker, Check(w) PROVE PoolInv'
    BY <1>1, <2>6, CheckStep
  <2>7. CASE FillFails \/ Interrupt \/ \E w \in Worker : RetryFails(w)
    <3>1. Raise
      BY <2>7 DEF FillFails, Interrupt, RetryFails
    <3>. QED BY <3>1, RaiseStep
  <2>8. ASSUME NEW w \in Worker, Reply(w) \/ Die(w) \/ Late(w) PROVE PoolInv'
    BY <1>1, <2>8, WorkerStep
  <2>. QED BY <1>1, <2>1, <2>2, <2>3, <2>4, <2>5, <2>6, <2>7, <2>8 DEF PoolNext, Map
<1>2. PoolInv /\ [PoolNext]_poolVars => PoolInv'
  BY <1>1
<1>. QED BY PoolInvInit, <1>2, PTL DEF PoolSpec

(* The types, pipes included: no pipe ever holds more than one message.    *)
THEOREM TypeCorrect == PoolSpec => []TypeOK
<1>1. PoolInv => TypeOK
  BY Types DEF PoolInv
<1>. QED BY PoolInvariance, <1>1, PTL

(* OwnAnswers: every result is the answer to its own input of this call,   *)
(* and an input fails only after two processes had accepted it.            *)
THEOREM AnswersAreOwn == PoolSpec => []OwnAnswers
<1>1. PoolInv => OwnAnswers
  BY DEF PoolInv
<1>. QED BY PoolInvariance, <1>1, PTL

(* InTimeAnswersCount: what a worker answered within its time becomes the  *)
(* result or asks for the second attempt, however long map was busy.       *)
THEOREM AnswersInTimeCount == PoolSpec => InTimeAnswersCount
<1>. DEFINE Counts ==
       \A w \in Worker :
          (/\ pending[w] # NoInput /\ pending'[w] # pending[w]
           /\ outbox[w] # <<>> /\ ~Head(outbox[w]).late /\ stage' # "idle")
          => \/ results'[pending[w].index].kind = Head(outbox[w]).kind
             \/ Head(outbox[w]).kind = "broken" /\ pending[w].attempt = 1
<1>1. ASSUME PoolInv, [PoolNext]_poolVars PROVE Counts
  <2>1. SUFFICES
          ASSUME NEW w \in Worker, pending[w] # NoInput, pending'[w] # pending[w],
                 outbox[w] # <<>>, stage' # "idle"
          PROVE  \/ results'[pending[w].index].kind = Head(outbox[w]).kind
                 \/ Head(outbox[w]).kind = "broken" /\ pending[w].attempt = 1
    OBVIOUS
  <2>2. MapType /\ PipeInv
    BY <1>1 DEF PoolInv
  <2>3. ~UNCHANGED pending
    BY <2>1
  <2>4. CASE Fill
    <3>1. PICK v \in Worker : pending[v] = NoInput /\ \E value : pending' = [pending EXCEPT ![v] = value]
      BY <2>4 DEF Fill, First, Free, Start, Send
    <3>. QED BY <2>1, <2>2, <3>1 DEF MapType
  <2>5. ASSUME NEW v \in Worker, Check(v)
        PROVE  \/ results'[pending[w].index].kind = Head(outbox[w]).kind
               \/ Head(outbox[w]).kind = "broken" /\ pending[w].attempt = 1
    <3>1. v = w
      BY <2>1, <2>2, <2>5 DEF Check, Skip, Retry, Start, Finish, pool, MapType
    <3>2. Retry(w) \/ Finish(w)
      BY <2>3, <2>5, <3>1 DEF Check, Skip, pool
    <3>3. Due(w)
      BY <3>2 DEF Retry, Finish
    <3>4. /\ Taken(w).kind = Head(outbox[w]).kind
          /\ Head(outbox[w]).kind \in {"fine", "refused", "broken"}
      BY <2>1, <2>2, <3>3, TakenIsOwn
    <3>5. CASE Retry(w)
      BY <3>4, <3>5 DEF Retry, Retried
    <3>6. CASE Finish(w)
      <4>1. pending[w].index \in Index
        BY <2>1, <2>2, Waited
      <4>2. results' = [results EXCEPT ![pending[w].index] = Taken(w)]
        BY <3>6 DEF Finish
      <4>3. results'[pending[w].index] = Taken(w)
        BY <2>2, <4>1, <4>2 DEF MapType
      <4>. QED BY <3>4, <4>3
    <3>. QED BY <3>2, <3>5, <3>6
  <2>6. CASE FillFails \/ Interrupt \/ Return \/ \E v \in Worker : RetryFails(v)
    BY <2>1, <2>6 DEF FillFails, Interrupt, Return, RetryFails, Raise, Over
  <2>7. CASE Begin \/ Wait \/ (\E v \in Worker : Reply(v) \/ Die(v) \/ Late(v)) \/ UNCHANGED poolVars
    BY <2>3, <2>7 DEF Begin, Wait, Reply, Die, Late, pool, poolVars
  <2>. QED BY <1>1, <2>4, <2>5, <2>6, <2>7 DEF PoolNext, Map
<1>2. PoolInv /\ [PoolNext]_poolVars => Counts
  BY <1>1
<1>. QED BY PoolInvariance, <1>2, PTL DEF PoolSpec, InTimeAnswersCount

-----------------------------------------------------------------------------
(* QueryProjection: the least and the greatest of ends and of examples.    *)

Smallest(B) == \E T \in B : \A U \in B : U \subseteq T => U = T
Bounded(T)  == \E lo, hi \in T : \A x \in T : lo <= x /\ x <= hi

(* Of some subsets of a finite set one is smallest.                        *)
LEMMA SmallestSubset ==
    ASSUME NEW S, IsFiniteSet(S), NEW B, B \subseteq SUBSET S, B # {}
    PROVE  Smallest(B)
<1>. DEFINE Order == StrictSubsetOrdering(S)
<1>1. B \subseteq FiniteSubsetsOf(S)
  BY FS_FiniteSubsetsOfFinite
<1>2. IsWellFoundedOn(Order, FiniteSubsetsOf(S))
  BY FS_StrictSubsetOrderingWellFounded
<1>3. PICK T \in B : \A U \in B : ~(<<U, T>> \in Order)
  <2>. HIDE DEF Order
  <2>. QED BY <1>1, <1>2, WFMin
<1>4. ASSUME NEW U \in B, U \subseteq T PROVE U = T
  BY <1>3, <1>4 DEF StrictSubsetOrdering
<1>. QED BY <1>3, <1>4 DEF Smallest

(* A finite set of numbers has a least and a greatest one.                 *)
LEMMA Extremes ==
    ASSUME NEW S, S \subseteq Nat, IsFiniteSet(S), S # {}
    PROVE  /\ Min(S) \in S /\ \A x \in S : Min(S) <= x
           /\ Max(S) \in S /\ \A x \in S : x <= Max(S)
<1>1. ASSUME NEW B, B = {T \in SUBSET S : T # {} /\ ~Bounded(T)} PROVE B = {}
  <2>1. SUFFICES ASSUME B # {} PROVE FALSE
    OBVIOUS
  <2>2. B \subseteq SUBSET S
    BY <1>1
  <2>3. PICK T \in B : \A U \in B : U \subseteq T => U = T
    <3>1. Smallest(B)
      BY <2>1, <2>2, SmallestSubset
    <3>. QED BY <3>1 DEF Smallest
  <2>4. T \subseteq Nat /\ T \subseteq S /\ T # {} /\ ~Bounded(T)
    BY <1>1
  <2>5. PICK t \in T : TRUE
    BY <2>4
  <2>6. ASSUME NEW U, U = T \ {t} PROVE U = {} \/ Bounded(U)
    <3>1. U \in SUBSET S /\ U \subseteq T /\ U # T
      BY <2>4, <2>6
    <3>. QED BY <1>1, <2>3, <3>1
  <2>7. CASE T \ {t} = {}
    <3>1. t \in Nat /\ \A x \in T : x = t
      BY <2>4, <2>5, <2>7
    <3>2. Bounded(T)
      BY <2>5, <3>1 DEF Bounded
    <3>. QED BY <2>4, <3>2
  <2>8. CASE Bounded(T \ {t})
    <3>1. PICK a, b \in T \ {t} : \A x \in T \ {t} : a <= x /\ x <= b
      BY <2>8 DEF Bounded
    <3>2. a \in Nat /\ b \in Nat /\ a <= b /\ t \in Nat
      BY <2>4, <3>1
    <3>3. PICK lo \in T : lo <= a /\ lo <= t /\ lo \in Nat
      BY <3>2
    <3>4. PICK hi \in T : b <= hi /\ t <= hi /\ hi \in Nat
      BY <3>2
    <3>5. ASSUME NEW x \in T PROVE lo <= x /\ x <= hi
      <4>1. x \in Nat /\ (x = t \/ (a <= x /\ x <= b))
        BY <2>4, <3>1
      <4>. QED BY <3>2, <3>3, <3>4, <4>1
    <3>6. Bounded(T)
      BY <3>5 DEF Bounded
    <3>. QED BY <2>4, <3>6
  <2>. QED BY <2>6, <2>7, <2>8
<1>2. PICK a, b \in S : \A x \in S : a <= x /\ x <= b
  <2>1. {T \in SUBSET S : T # {} /\ ~Bounded(T)} = {}
    BY <1>1
  <2>2. Bounded(S)
    BY <2>1
  <2>. QED BY <2>2 DEF Bounded
<1>3. Min(S) \in S /\ \A x \in S : Min(S) <= x
  BY <1>2 DEF Min
<1>4. b \in S /\ \A x \in S : b >= x
  BY <1>2
<1>5. Max(S) \in S /\ \A x \in S : Max(S) >= x
  BY <1>4 DEF Max
<1>. QED BY <1>3, <1>5

(* Sets of what an end or an example can be: a number or None.             *)
Maybe(S) == S \subseteq Nat \cup {None} /\ IsFiniteSet(S)

(* Least passes over None.                                                 *)
LEMMA MaybeLeast ==
    ASSUME NEW S, Maybe(S)
    PROVE  \/ Least(S) = None /\ Known(S) = {}
           \/ /\ Least(S) \in Known(S) /\ Least(S) \in Nat
              /\ \A x \in Known(S) : Least(S) <= x
<1>1. Known(S) \subseteq Nat /\ IsFiniteSet(Known(S))
  BY FS_Subset DEF Maybe, Known
<1>. QED BY <1>1, Extremes, ProjectionAssumption DEF ProjectionAssumption, Least

(* Greatest passes over None.                                              *)
LEMMA MaybeGreatest ==
    ASSUME NEW S, Maybe(S)
    PROVE  \/ Greatest(S) = None /\ Known(S) = {}
           \/ /\ Greatest(S) \in Known(S) /\ Greatest(S) \in Nat
              /\ \A x \in Known(S) : x <= Greatest(S)
<1>1. Known(S) \subseteq Nat /\ IsFiniteSet(Known(S))
  BY FS_Subset DEF Maybe, Known
<1>. QED BY <1>1, Extremes, ProjectionAssumption DEF ProjectionAssumption, Greatest

LeastEdge(was, G, C, N) ==
    IF Least(G) # None /\ Least(G) = was THEN Least(N) ELSE Least({was} \cup C)
GreatestEdge(was, G, C, N) ==
    IF Greatest(G) # None /\ Greatest(G) = was THEN Greatest(N) ELSE Greatest({was} \cup C)

(* What mpp_query_merge_totals may do instead of looking through all rows: *)
(* K is kept, G goes and C comes.                                          *)
LEMMA LeastMoves ==
    ASSUME NEW G, NEW K, NEW C, Maybe(G), Maybe(K), Maybe(C)
    PROVE  LeastEdge(Least(K \cup G), G, C, K \cup C) = Least(K \cup C)
<1>. DEFINE was == Least(K \cup G)
<1>1. Maybe(K \cup G) /\ Maybe(K \cup C)
  BY FS_Union DEF Maybe
<1>2. was \in Nat \cup {None}
  BY <1>1, MaybeLeast
<1>3. Maybe({was} \cup C)
  BY <1>2, FS_Union, FS_Singleton DEF Maybe
<1>4. None \notin Nat
  BY ProjectionAssumption DEF ProjectionAssumption
<1>5. SUFFICES ASSUME ~(Least(G) # None /\ Least(G) = was)
               PROVE  Least({was} \cup C) = Least(K \cup C)
  BY DEF LeastEdge
<1>6. was = Least(K \cup G)
  OBVIOUS
<1>. HIDE DEF was
<1>7. CASE was = None
  <2>1. Known(K \cup G) = {}
    BY <1>1, <1>4, <1>7, <1>6, MaybeLeast
  <2>2. Known({was} \cup C) = Known(K \cup C)
    BY <1>7, <2>1 DEF Known
  <2>. QED BY <2>2 DEF Least
<1>8. CASE was # None
  <2>1. was \in Known(K \cup G) /\ was \in Nat /\ \A x \in Known(K \cup G) : was <= x
    BY <1>1, <1>8, <1>6, MaybeLeast
  <2>2. was \in K
    <3>1. SUFFICES ASSUME was \in G PROVE FALSE
      BY <2>1 DEF Known
    <3>2. was \in Known(G)
      BY <2>1, <3>1 DEF Known
    <3>3. Least(G) \in Known(G) /\ Least(G) \in Nat /\ Least(G) <= was
      BY <3>2, MaybeLeast
    <3>4. was <= Least(G)
      BY <2>1, <3>3 DEF Known
    <3>. QED BY <1>4, <1>5, <2>1, <3>3, <3>4
  <2>. DEFINE a == Least({was} \cup C)
              b == Least(K \cup C)
  <2>3. was \in Known({was} \cup C) /\ was \in Known(K \cup C)
    BY <1>8, <2>2 DEF Known
  <2>4. a \in Known({was} \cup C) /\ a \in Nat /\ \A x \in Known({was} \cup C) : a <= x
    BY <1>3, <2>3, MaybeLeast
  <2>5. b \in Known(K \cup C) /\ b \in Nat /\ \A x \in Known(K \cup C) : b <= x
    BY <1>1, <2>3, MaybeLeast
  <2>. HIDE DEF a, b
  <2>6. b <= a
    BY <2>2, <2>4, <2>5 DEF Known
  <2>7. a <= b
    <3>1. CASE b \in C
      BY <2>4, <2>5, <3>1 DEF Known
    <3>2. CASE b \in K
      <4>1. was <= b
        BY <2>1, <2>5, <3>2 DEF Known
      <4>2. a <= was
        BY <2>3, <2>4
      <4>. QED BY <2>1, <2>4, <2>5, <4>1, <4>2
    <3>. QED BY <2>5, <3>1, <3>2 DEF Known
  <2>8. a = b
    BY <2>4, <2>5, <2>6, <2>7
  <2>. QED BY <2>8 DEF a, b
<1>. QED BY <1>7, <1>8

(* The same for the greatest.                                              *)
LEMMA GreatestMoves ==
    ASSUME NEW G, NEW K, NEW C, Maybe(G), Maybe(K), Maybe(C)
    PROVE  GreatestEdge(Greatest(K \cup G), G, C, K \cup C) = Greatest(K \cup C)
<1>. DEFINE was == Greatest(K \cup G)
<1>1. Maybe(K \cup G) /\ Maybe(K \cup C)
  BY FS_Union DEF Maybe
<1>2. was \in Nat \cup {None}
  BY <1>1, MaybeGreatest
<1>3. Maybe({was} \cup C)
  BY <1>2, FS_Union, FS_Singleton DEF Maybe
<1>4. None \notin Nat
  BY ProjectionAssumption DEF ProjectionAssumption
<1>5. SUFFICES ASSUME ~(Greatest(G) # None /\ Greatest(G) = was)
               PROVE  Greatest({was} \cup C) = Greatest(K \cup C)
  BY DEF GreatestEdge
<1>6. was = Greatest(K \cup G)
  OBVIOUS
<1>. HIDE DEF was
<1>7. CASE was = None
  <2>1. Known(K \cup G) = {}
    BY <1>1, <1>4, <1>7, <1>6, MaybeGreatest
  <2>2. Known({was} \cup C) = Known(K \cup C)
    BY <1>7, <2>1 DEF Known
  <2>. QED BY <2>2 DEF Greatest
<1>8. CASE was # None
  <2>1. was \in Known(K \cup G) /\ was \in Nat /\ \A x \in Known(K \cup G) : x <= was
    BY <1>1, <1>8, <1>6, MaybeGreatest
  <2>2. was \in K
    <3>1. SUFFICES ASSUME was \in G PROVE FALSE
      BY <2>1 DEF Known
    <3>2. was \in Known(G)
      BY <2>1, <3>1 DEF Known
    <3>3. Greatest(G) \in Known(G) /\ Greatest(G) \in Nat /\ was <= Greatest(G)
      BY <3>2, MaybeGreatest
    <3>4. Greatest(G) <= was
      BY <2>1, <3>3 DEF Known
    <3>. QED BY <1>4, <1>5, <2>1, <3>3, <3>4
  <2>. DEFINE a == Greatest({was} \cup C)
              b == Greatest(K \cup C)
  <2>3. was \in Known({was} \cup C) /\ was \in Known(K \cup C)
    BY <1>8, <2>2 DEF Known
  <2>4. a \in Known({was} \cup C) /\ a \in Nat /\ \A x \in Known({was} \cup C) : x <= a
    BY <1>3, <2>3, MaybeGreatest
  <2>5. b \in Known(K \cup C) /\ b \in Nat /\ \A x \in Known(K \cup C) : x <= b
    BY <1>1, <2>3, MaybeGreatest
  <2>. HIDE DEF a, b
  <2>6. a <= b
    BY <2>2, <2>4, <2>5 DEF Known
  <2>7. b <= a
    <3>1. CASE b \in C
      BY <2>4, <2>5, <3>1 DEF Known
    <3>2. CASE b \in K
      <4>1. b <= was
        BY <2>1, <2>5, <3>2 DEF Known
      <4>2. was <= a
        BY <2>3, <2>4
      <4>. QED BY <2>1, <2>4, <2>5, <4>1, <4>2
    <3>. QED BY <2>5, <3>1, <3>2 DEF Known
  <2>8. a = b
    BY <2>4, <2>5, <2>6, <2>7
  <2>. QED BY <2>8 DEF a, b
<1>. QED BY <1>7, <1>8

-----------------------------------------------------------------------------
(* Totals of records.                                                      *)

(* The ends of records.                                                    *)
LEMMA EndsAre ==
    ASSUME NEW R, IsFiniteSet(R), \A r \in R : r.end \in Nat \cup {None}
    PROVE  Maybe(Ends(R))
<1>. DEFINE f == [r \in R |-> r.end]
<1>1. f \in Surjection(R, Ends(R))
  BY DEF Ends, Surjection
<1>2. IsFiniteSet(Ends(R))
  <2>. HIDE DEF f
  <2>. QED BY <1>1, FS_Surjection
<1>. QED BY <1>2 DEF Maybe, Ends

(* Counts move by what came and went. *)
LEMMA CountMoves ==
    ASSUME NEW O, NEW G, NEW C, IsFiniteSet(O), IsFiniteSet(C),
           G \subseteq O, (O \ G) \cap C = {}
    PROVE  Cardinality((O \ G) \cup C) = Cardinality(O) + Cardinality(C) - Cardinality(G)
<1>1. IsFiniteSet(O \ G) /\ Cardinality(O \ G) = Cardinality(O) - Cardinality(O \cap G)
  BY FS_Difference
<1>2. O \cap G = G /\ IsFiniteSet(G)
  BY FS_Subset
<1>3. Cardinality((O \ G) \cup C) = Cardinality(O \ G) + Cardinality(C) - Cardinality((O \ G) \cap C)
  BY <1>1, FS_Union
<1>4. Cardinality((O \ G) \cap C) = 0
  BY FS_EmptySet
<1>5. /\ Cardinality(O) \in Nat /\ Cardinality(C) \in Nat /\ Cardinality(G) \in Nat
      /\ Cardinality(O \ G) \in Nat
  BY <1>1, <1>2, FS_CardinalityType
<1>. QED BY <1>1, <1>2, <1>3, <1>4, <1>5

(* A row is kept while it counts something.                                *)
LEMMA NonEmpty ==
    ASSUME NEW S, IsFiniteSet(S)
    PROVE  Cardinality(S) > 0 <=> S # {}
<1>1. Cardinality(S) \in Nat
  BY FS_CardinalityType
<1>2. Cardinality(S) = 0 <=> S = {}
  BY FS_EmptySet
<1>. QED BY <1>1, <1>2

Total(R)      == [count |-> Cardinality(R), first |-> Least(Ends(R)), last |-> Greatest(Ends(R))]
Sums(R, key)  == [k \in {key[r] : r \in R} |-> Total({r \in R : key[r] = k})]

(* The row of one key, of which the records G went and C came. *)
LEMMA RowMoves ==
    ASSUME NEW O, NEW G, NEW C,
           IsFiniteSet(O), IsFiniteSet(C), G \subseteq O, (O \ G) \cap C = {},
           \A r \in O \cup C : r.end \in Nat \cup {None}
    PROVE  [count |-> Total(O).count + Cardinality(C) - Cardinality(G),
            first |-> LeastEdge(Total(O).first, Ends(G), Ends(C), Ends((O \ G) \cup C)),
            last  |-> GreatestEdge(Total(O).last, Ends(G), Ends(C), Ends((O \ G) \cup C))]
           = Total((O \ G) \cup C)
<1>. DEFINE N == (O \ G) \cup C
<1>1. IsFiniteSet(G) /\ IsFiniteSet(O \ G)
  BY FS_Subset
<1>2. Maybe(Ends(O \ G)) /\ Maybe(Ends(G)) /\ Maybe(Ends(C))
  BY <1>1, EndsAre
<1>3. Ends(O) = Ends(O \ G) \cup Ends(G) /\ Ends(N) = Ends(O \ G) \cup Ends(C)
  BY DEF Ends
<1>4. LeastEdge(Total(O).first, Ends(G), Ends(C), Ends(N)) = Least(Ends(N))
  <2>. DEFINE K == Ends(O \ G)
              E == Ends(G)
              F == Ends(C)
  <2>1. LeastEdge(Least(K \cup E), E, F, K \cup F) = Least(K \cup F)
    <3>. HIDE DEF K, E, F
    <3>1. Maybe(E) /\ Maybe(K) /\ Maybe(F)
      BY <1>2 DEF E, K, F
    <3>. QED BY <3>1, LeastMoves
  <2>. QED BY <1>3, <2>1 DEF Total
<1>5. GreatestEdge(Total(O).last, Ends(G), Ends(C), Ends(N)) = Greatest(Ends(N))
  <2>. DEFINE K == Ends(O \ G)
              E == Ends(G)
              F == Ends(C)
  <2>1. GreatestEdge(Greatest(K \cup E), E, F, K \cup F) = Greatest(K \cup F)
    <3>. HIDE DEF K, E, F
    <3>1. Maybe(E) /\ Maybe(K) /\ Maybe(F)
      BY <1>2 DEF E, K, F
    <3>. QED BY <3>1, GreatestMoves
  <2>. QED BY <1>3, <2>1 DEF Total
<1>6. Total(O).count + Cardinality(C) - Cardinality(G) = Cardinality(N)
  BY CountMoves DEF Total
<1>. HIDE DEF N
<1>7. [count |-> Total(O).count + Cardinality(C) - Cardinality(G),
       first |-> LeastEdge(Total(O).first, Ends(G), Ends(C), Ends(N)),
       last  |-> GreatestEdge(Total(O).last, Ends(G), Ends(C), Ends(N))] = Total(N)
  BY <1>4, <1>5, <1>6, Zenon DEF Total
<1>. QED BY <1>7 DEF N

(* mpp_query_merge_totals: from the totals of R, by what went and came,    *)
(* the totals of what is left.                                             *)
LEMMA TotalsAreExact ==
    ASSUME NEW R, NEW gone, NEW come, NEW record, NEW key, NEW old,
           IsFiniteSet(R), IsFiniteSet(come), gone \subseteq R, come \cap R = {},
           \A r \in R \cup come : r.end \in Nat \cup {None},
           record = (R \ gone) \cup come, old = Sums(R, key)
    PROVE  Totals(old, key, record, gone, come) = Sums(record, key)
<1>. DEFINE Of(X, k) == {r \in X : key[r] = k}
            touched  == {key[r] : r \in gone \cup come}
            Row(k)   == IF k \in DOMAIN old THEN old[k]
                        ELSE [count |-> 0, first |-> None, last |-> None]
            Count(k) == Row(k).count + Cardinality(Of(come, k)) - Cardinality(Of(gone, k))
            New(k)   ==
               [count |-> Count(k),
                first |-> LeastEdge(Row(k).first, Ends(Of(gone, k)), Ends(Of(come, k)),
                                    Ends(Of(record, k))),
                last  |-> GreatestEdge(Row(k).last, Ends(Of(gone, k)), Ends(Of(come, k)),
                                       Ends(Of(record, k)))]
            Keys     == {x \in DOMAIN old \cup touched : x \in touched => Count(x) > 0}
<1>1. Totals(old, key, record, gone, come) = [k \in Keys |-> IF k \in touched THEN New(k) ELSE old[k]]
  BY Zenon DEF Totals, LeastEdge, GreatestEdge
<1>2. old = [k \in {key[r] : r \in R} |-> Total(Of(R, k))] /\ DOMAIN old = {key[r] : r \in R}
  BY DEF Sums
<1>3. ASSUME NEW k
      PROVE  /\ Of(gone, k) \subseteq Of(R, k)
             /\ Of(record, k) = (Of(R, k) \ Of(gone, k)) \cup Of(come, k)
             /\ IsFiniteSet(Of(R, k)) /\ IsFiniteSet(Of(come, k)) /\ IsFiniteSet(Of(record, k))
             /\ (Of(R, k) \ Of(gone, k)) \cap Of(come, k) = {}
             /\ \A r \in Of(R, k) \cup Of(come, k) : r.end \in Nat \cup {None}
             /\ k \in DOMAIN old <=> Of(R, k) # {}
             /\ k \in touched <=> Of(gone, k) \cup Of(come, k) # {}
  <2>1. IsFiniteSet(record)
    BY FS_Subset, FS_Union
  <2>2. IsFiniteSet(Of(R, k)) /\ IsFiniteSet(Of(come, k)) /\ IsFiniteSet(Of(record, k))
    BY <2>1, FS_Subset
  <2>. QED BY <1>2, <2>2
<1>4. ASSUME NEW k
      PROVE  Row(k) = Total(Of(R, k))
  <2>1. CASE k \in DOMAIN old
    BY <1>2, <2>1
  <2>2. CASE k \notin DOMAIN old
    <3>1. Of(R, k) = {}
      BY <1>3, <2>2
    <3>2. Ends(Of(R, k)) = {} /\ Cardinality(Of(R, k)) = 0
      BY <3>1, FS_EmptySet DEF Ends
    <3>3. Least({}) = None /\ Greatest({}) = None
      BY DEF Least, Greatest, Known
    <3>. QED BY <2>2, <3>2, <3>3 DEF Total
  <2>. QED BY <2>1, <2>2
<1>. HIDE DEF Of, Row, touched, Keys
<1>5. ASSUME NEW k PROVE New(k) = Total(Of(record, k))
  <2>. DEFINE O == Of(R, k)
              G == Of(gone, k)
              C == Of(come, k)
  <2>1. [count |-> Total(O).count + Cardinality(C) - Cardinality(G),
         first |-> LeastEdge(Total(O).first, Ends(G), Ends(C), Ends((O \ G) \cup C)),
         last  |-> GreatestEdge(Total(O).last, Ends(G), Ends(C), Ends((O \ G) \cup C))]
        = Total((O \ G) \cup C)
    <3>. HIDE DEF O, G, C
    <3>1. IsFiniteSet(O) /\ IsFiniteSet(C) /\ G \subseteq O /\ (O \ G) \cap C = {}
      BY <1>3 DEF O, G, C
    <3>2. \A r \in O \cup C : r.end \in Nat \cup {None}
      BY <1>3 DEF O, C
    <3>. QED BY <3>1, <3>2, RowMoves
  <2>. QED BY <1>3, <1>4, <2>1, Zenon
<1>6. ASSUME NEW k PROVE k \in Keys <=> k \in {key[r] : r \in record}
  <2>1. k \in {key[r] : r \in record} <=> Of(record, k) # {}
    BY DEF Of
  <2>2. CASE k \in touched
    <3>1. Count(k) = Cardinality(Of(record, k))
      BY <1>5 DEF Total
    <3>2. Cardinality(Of(record, k)) > 0 <=> Of(record, k) # {}
      BY <1>3, NonEmpty
    <3>. HIDE DEF Count
    <3>. QED BY <2>1, <2>2, <3>1, <3>2 DEF Keys
  <2>3. CASE k \notin touched
    <3>1. Of(record, k) = Of(R, k)
      BY <1>3, <2>3
    <3>. QED BY <1>3, <2>1, <2>3, <3>1 DEF Keys
  <2>. QED BY <2>2, <2>3
<1>7. ASSUME NEW k \in Keys
      PROVE  (IF k \in touched THEN New(k) ELSE old[k]) = Total(Of(record, k))
  <2>1. CASE k \in touched
    BY <1>5, <2>1
  <2>2. CASE k \notin touched
    <3>1. Of(record, k) = Of(R, k) /\ k \in DOMAIN old
      BY <1>3, <2>2 DEF Keys
    <3>2. old[k] = Total(Of(R, k))
      BY <1>2, <3>1
    <3>. QED BY <2>2, <3>1, <3>2
  <2>. QED BY <2>1, <2>2
<1>8. Keys = {key[r] : r \in record}
  BY <1>6
<1>. HIDE DEF New
<1>9. Totals(old, key, record, gone, come) = [k \in Keys |-> Total(Of(record, k))]
  BY <1>1, <1>7
<1>. QED BY <1>8, <1>9 DEF Sums, Of

-----------------------------------------------------------------------------
(* Structures.                                                             *)

(* Least, where there is no None.                                          *)
LEMMA LeastOfNumbers ==
    ASSUME NEW S, S \subseteq Nat, IsFiniteSet(S)
    PROVE  /\ S = {} => Least(S) = None
           /\ S # {} => /\ Least(S) = Min(S) /\ Least(S) \in S /\ Least(S) # None
                        /\ \A x \in S : Least(S) <= x
<1>1. None \notin Nat
  BY ProjectionAssumption DEF ProjectionAssumption
<1>2. Known(S) = S
  BY <1>1 DEF Known
<1>. QED BY <1>1, <1>2, Extremes DEF Least

(* The example of a structure is looked for again only if it left. *)
Example(was, G, C, N) ==
    IF G # {} /\ Least(G) = was THEN Least(N) ELSE Least({was} \cup C)

(* The example after G left and C joined: K is kept.                       *)
LEMMA ExampleMoves ==
    ASSUME NEW K, NEW G, NEW C, K \cup G \cup C \subseteq Nat,
           IsFiniteSet(K), IsFiniteSet(G), IsFiniteSet(C)
    PROVE  Example(Least(K \cup G), G, G \cup C, K \cup C) = Least(K \cup C)
<1>1. None \notin Nat
  BY ProjectionAssumption DEF ProjectionAssumption
<1>2. /\ IsFiniteSet(K \cup G) /\ K \cup G \subseteq Nat
      /\ IsFiniteSet(K \cup C) /\ K \cup C \subseteq Nat
      /\ IsFiniteSet(G \cup C) /\ G \cup C \subseteq Nat
  BY FS_Union
<1>3. CASE K \cup G = {}
  <2>1. Least(K \cup G) = None
    BY <1>2, <1>3, LeastOfNumbers
  <2>2. Known({None} \cup (G \cup C)) = Known(K \cup C)
    BY <1>3 DEF Known
  <2>. QED BY <1>3, <2>1, <2>2 DEF Example, Least
<1>4. CASE K \cup G # {}
  <2>. DEFINE was == Least(K \cup G)
  <2>1. was \in K \cup G /\ was \in Nat /\ \A x \in K \cup G : was <= x
    BY <1>2, <1>4, LeastOfNumbers
  <2>. HIDE DEF was
  <2>2. SUFFICES ASSUME ~(G # {} /\ Least(G) = was)
                 PROVE  Least({was} \cup (G \cup C)) = Least(K \cup C)
    BY DEF Example, was
  <2>3. was \in K
    <3>1. SUFFICES ASSUME was \in G PROVE FALSE
      BY <2>1
    <3>2. Least(G) \in G /\ Least(G) \in Nat /\ Least(G) <= was
      BY <3>1, LeastOfNumbers
    <3>3. was <= Least(G)
      BY <2>1, <3>2
    <3>. QED BY <2>1, <2>2, <3>1, <3>2, <3>3
  <2>. DEFINE X == {was} \cup (G \cup C)
              a == Least(X)
              b == Least(K \cup C)
  <2>4. IsFiniteSet(X) /\ X \subseteq Nat /\ X # {}
    <3>1. IsFiniteSet((G \cup C) \cup {was})
      BY <1>2, FS_AddElement
    <3>2. X = (G \cup C) \cup {was}
      OBVIOUS
    <3>3. X \subseteq Nat /\ X # {}
      BY <2>1
    <3>. HIDE DEF X
    <3>. QED BY <3>1, <3>2, <3>3
  <2>5. a \in X /\ a \in Nat /\ \A x \in X : a <= x
    <3>. HIDE DEF X
    <3>. QED BY <2>4, LeastOfNumbers
  <2>6. b \in K \cup C /\ b \in Nat /\ \A x \in K \cup C : b <= x
    BY <1>2, <2>3, LeastOfNumbers
  <2>. HIDE DEF a, b
  <2>7. b <= a
    <3>1. b <= was
      BY <2>3, <2>6
    <3>2. CASE a \in G
      <4>1. was <= a
        BY <2>1, <3>2
      <4>. QED BY <2>1, <2>5, <2>6, <3>1, <4>1
    <3>. QED BY <2>5, <2>6, <3>1, <3>2
  <2>8. a <= b
    <3>1. CASE b \in C
      BY <2>5, <3>1
    <3>2. CASE b \in K
      <4>1. was <= b /\ a <= was
        BY <2>1, <2>5, <3>2
      <4>. QED BY <2>1, <2>5, <2>6, <4>1
    <3>. QED BY <2>6, <3>1, <3>2
  <2>9. a = b
    BY <2>5, <2>6, <2>7, <2>8
  <2>. QED BY <2>9 DEF a, b
<1>. QED BY <1>3, <1>4

Group(S)    == [count |-> Cardinality(S), example |-> Least(S)]
SidsOf(M, s) == {m.sid : m \in {x \in M : <<x.rule, x.value>> = s}}
Groups(M)   == [s \in {<<m.rule, m.value>> : m \in M} |-> Group(SidsOf(M, s))]

(* The texts of a structure are finitely many.                             *)
LEMMA SidsAre ==
    ASSUME NEW M, NEW s, IsFiniteSet(M)
    PROVE  IsFiniteSet(SidsOf(M, s))
<1>. DEFINE X == {x \in M : <<x.rule, x.value>> = s}
            f == [m \in X |-> m.sid]
<1>1. f \in Surjection(X, SidsOf(M, s))
  BY DEF SidsOf, Surjection
<1>2. IsFiniteSet(X)
  BY FS_Subset
<1>. HIDE DEF f, X
<1>. QED BY <1>1, <1>2, FS_Surjection

(* The row of one structure, which G left and C joined.                    *)
LEMMA GroupMoves ==
    ASSUME NEW O, NEW G, NEW C, O \cup C \subseteq Nat, G \subseteq O,
           IsFiniteSet(O), IsFiniteSet(C), (O \ G) \cap C = {}
    PROVE  [count   |-> Group(O).count + Cardinality(C) - Cardinality(G),
            example |-> Example(Group(O).example, G, G \cup C, (O \ G) \cup C)]
           = Group((O \ G) \cup C)
<1>. DEFINE N == (O \ G) \cup C
            K == O \ G
<1>1. IsFiniteSet(G) /\ IsFiniteSet(K) /\ K \cup G = O
  BY FS_Subset
<1>2. Example(Least(K \cup G), G, G \cup C, K \cup C) = Least(K \cup C)
  <2>1. K \cup G \cup C \subseteq Nat
    OBVIOUS
  <2>. HIDE DEF K
  <2>. QED BY <1>1, <2>1, ExampleMoves
<1>3. Group(O).count + Cardinality(C) - Cardinality(G) = Cardinality(N)
  BY CountMoves DEF Group
<1>4. Example(Group(O).example, G, G \cup C, N) = Least(N)
  BY <1>1, <1>2 DEF Group
<1>. HIDE DEF N
<1>5. [count   |-> Group(O).count + Cardinality(C) - Cardinality(G),
       example |-> Example(Group(O).example, G, G \cup C, N)] = Group(N)
  BY <1>3, <1>4, Zenon DEF Group
<1>. QED BY <1>5 DEF N

(* mpp_query_refresh on structures: from the rows of all members, by       *)
(* what left and joined, the rows of all members.                          *)
LEMMA StructuresAreExact ==
    ASSUME NEW M, NEW gone, NEW come, NEW member, NEW old,
           IsFiniteSet(M), IsFiniteSet(come), gone \subseteq M,
           \A m \in M \cup come : m.sid \in Nat,
           \A m \in M \ gone, f \in gone \cup come : m.rule = f.rule => m.sid # f.sid,
           member = (M \ gone) \cup come, old = Groups(M)
    PROVE  Structures(old, member, gone, come) = Groups(member)
<1>. DEFINE touched == {<<m.rule, m.value>> : m \in gone \cup come}
            Row(s)   == IF s \in DOMAIN old THEN old[s] ELSE [count |-> 0, example |-> None]
            Count(s) == Row(s).count + Cardinality(SidsOf(come, s)) - Cardinality(SidsOf(gone, s))
            New(s)   ==
               [count   |-> Count(s),
                example |-> Example(Row(s).example, SidsOf(gone, s), SidsOf(gone \cup come, s),
                                    SidsOf(member, s))]
            Keys     == {x \in DOMAIN old \cup touched : x \in touched => Count(x) > 0}
<1>1. Structures(old, member, gone, come) = [s \in Keys |-> IF s \in touched THEN New(s) ELSE old[s]]
  BY Zenon DEF Structures, Example, SidsOf
<1>2. old = [s \in {<<m.rule, m.value>> : m \in M} |-> Group(SidsOf(M, s))]
      /\ DOMAIN old = {<<m.rule, m.value>> : m \in M}
  BY DEF Groups
<1>3. ASSUME NEW s
      PROVE  /\ SidsOf(gone, s) \subseteq SidsOf(M, s)
             /\ SidsOf(member, s) = (SidsOf(M, s) \ SidsOf(gone, s)) \cup SidsOf(come, s)
             /\ SidsOf(gone \cup come, s) = SidsOf(gone, s) \cup SidsOf(come, s)
             /\ (SidsOf(M, s) \ SidsOf(gone, s)) \cap SidsOf(come, s) = {}
             /\ SidsOf(M, s) \cup SidsOf(come, s) \subseteq Nat
             /\ s \in DOMAIN old <=> SidsOf(M, s) # {}
             /\ s \in touched <=> SidsOf(gone, s) \cup SidsOf(come, s) # {}
  <2>1. SidsOf(gone, s) \subseteq SidsOf(M, s)
    BY DEF SidsOf
  <2>2. SidsOf(gone \cup come, s) = SidsOf(gone, s) \cup SidsOf(come, s)
    BY DEF SidsOf
  <2>3. SidsOf(M, s) = SidsOf(M \ gone, s) \cup SidsOf(gone, s)
    BY DEF SidsOf
  <2>4. SidsOf(member, s) = SidsOf(M \ gone, s) \cup SidsOf(come, s)
    BY DEF SidsOf
  <2>5. SidsOf(M \ gone, s) \cap (SidsOf(gone, s) \cup SidsOf(come, s)) = {}
    <3>1. SUFFICES ASSUME NEW x, x \in SidsOf(M \ gone, s), x \in SidsOf(gone \cup come, s)
                   PROVE  FALSE
      BY <2>2
    <3>2. PICK m \in M \ gone : m.sid = x /\ <<m.rule, m.value>> = s
      BY <3>1 DEF SidsOf
    <3>3. PICK f \in gone \cup come : f.sid = x /\ <<f.rule, f.value>> = s
      BY <3>1 DEF SidsOf
    <3>. QED BY <3>2, <3>3
  <2>6. SidsOf(M, s) \cup SidsOf(come, s) \subseteq Nat
    BY DEF SidsOf
  <2>7. s \in DOMAIN old <=> SidsOf(M, s) # {}
    BY <1>2 DEF SidsOf
  <2>8. s \in touched <=> SidsOf(gone, s) \cup SidsOf(come, s) # {}
    BY DEF SidsOf
  <2>. QED BY <2>1, <2>2, <2>3, <2>4, <2>5, <2>6, <2>7, <2>8
<1>4. ASSUME NEW s
      PROVE  /\ IsFiniteSet(SidsOf(M, s)) /\ IsFiniteSet(SidsOf(come, s))
             /\ IsFiniteSet(SidsOf(member, s))
  <2>1. IsFiniteSet(member)
    BY FS_Subset, FS_Union
  <2>. QED BY <2>1, SidsAre
<1>5. ASSUME NEW s
      PROVE  Row(s) = Group(SidsOf(M, s))
  <2>1. CASE s \in DOMAIN old
    BY <1>2, <2>1
  <2>2. CASE s \notin DOMAIN old
    <3>1. SidsOf(M, s) = {}
      BY <1>3, <2>2
    <3>2. Least({}) = None /\ Cardinality({}) = 0
      BY FS_EmptySet DEF Least, Known
    <3>. QED BY <2>2, <3>1, <3>2 DEF Group
  <2>. QED BY <2>1, <2>2
<1>. HIDE DEF Row, touched, Keys
<1>6. ASSUME NEW s PROVE New(s) = Group(SidsOf(member, s))
  <2>. DEFINE O == SidsOf(M, s)
              G == SidsOf(gone, s)
              C == SidsOf(come, s)
  <2>1. [count   |-> Group(O).count + Cardinality(C) - Cardinality(G),
         example |-> Example(Group(O).example, G, G \cup C, (O \ G) \cup C)]
        = Group((O \ G) \cup C)
    <3>. HIDE DEF O, G, C
    <3>1. IsFiniteSet(O) /\ IsFiniteSet(C) /\ G \subseteq O /\ (O \ G) \cap C = {}
          /\ O \cup C \subseteq Nat
      BY <1>3, <1>4 DEF O, G, C
    <3>. QED BY <3>1, GroupMoves
  <2>. QED BY <1>3, <1>5, <2>1, Zenon
<1>7. ASSUME NEW s PROVE s \in Keys <=> s \in {<<m.rule, m.value>> : m \in member}
  <2>1. s \in {<<m.rule, m.value>> : m \in member} <=> SidsOf(member, s) # {}
    BY DEF SidsOf
  <2>2. CASE s \in touched
    <3>1. Count(s) = Cardinality(SidsOf(member, s))
      BY <1>6 DEF Group
    <3>2. Cardinality(SidsOf(member, s)) > 0 <=> SidsOf(member, s) # {}
      BY <1>4, NonEmpty
    <3>. HIDE DEF Count
    <3>. QED BY <2>1, <2>2, <3>1, <3>2 DEF Keys
  <2>3. CASE s \notin touched
    <3>1. SidsOf(member, s) = SidsOf(M, s)
      BY <1>3, <2>3
    <3>. QED BY <1>3, <2>1, <2>3, <3>1 DEF Keys
  <2>. QED BY <2>2, <2>3
<1>8. ASSUME NEW s \in Keys
      PROVE  (IF s \in touched THEN New(s) ELSE old[s]) = Group(SidsOf(member, s))
  <2>1. CASE s \in touched
    BY <1>6, <2>1
  <2>2. CASE s \notin touched
    <3>1. SidsOf(member, s) = SidsOf(M, s) /\ s \in DOMAIN old
      BY <1>3, <2>2 DEF Keys
    <3>2. old[s] = Group(SidsOf(M, s))
      BY <1>2, <3>1
    <3>. QED BY <2>2, <3>1, <3>2
  <2>. QED BY <2>1, <2>2
<1>9. Keys = {<<m.rule, m.value>> : m \in member}
  BY <1>7
<1>. HIDE DEF New
<1>10. Structures(old, member, gone, come) = [s \in Keys |-> Group(SidsOf(member, s))]
  BY <1>1, <1>8
<1>. QED BY <1>9, <1>10 DEF Groups

-----------------------------------------------------------------------------
(* The refresh as a function.                                              *)

(* The keys and types of the rows that the derived tables rely on.         *)
Sound(d) ==
    /\ IsFiniteSet(d.fp) /\ IsFiniteSet(d.event)
    /\ \A f \in d.fp : f.sid \in Nat
    /\ \A e \in d.event : e.end \in Nat \cup {None}
    /\ \A f, g \in d.fp : f.rule = g.rule /\ f.sid = g.sid => f = g
    /\ \A e, g \in d.event : e.id = g.id => e = g

Pairs(M, E)   == {y \in M \X E : y[1].sid = y[2].sid}
Records(M, E) == {RecordOf(x[1], x[2]) : x \in Pairs(M, E)}
RecordsOf(d)  == Records(Reliable(d.fp), d.event)
ByIdentity(R) == [k \in {Identity(r) : r \in R} |-> Total({r \in R : Identity(r) = k})]
ByText(R)     == [k \in {TextKey(r) : r \in R} |-> Total({r \in R : TextKey(r) = k})]

(* What a record is made from.                                             *)
LEMMA RecordsHave ==
    ASSUME NEW M, NEW E, NEW r
    PROVE  r \in Records(M, E) <=> \E m \in M, e \in E : m.sid = e.sid /\ r = RecordOf(m, e)
<1>1. ASSUME r \in Records(M, E)
      PROVE  \E m \in M, e \in E : m.sid = e.sid /\ r = RecordOf(m, e)
  <2>1. PICK x \in Pairs(M, E) : r = RecordOf(x[1], x[2])
    BY <1>1 DEF Records
  <2>. QED BY <2>1 DEF Pairs
<1>2. ASSUME NEW m \in M, NEW e \in E, m.sid = e.sid, r = RecordOf(m, e)
      PROVE  r \in Records(M, E)
  <2>1. <<m, e>> \in Pairs(M, E)
    BY <1>2 DEF Pairs
  <2>2. r = RecordOf(<<m, e>>[1], <<m, e>>[2])
    BY <1>2
  <2>. QED BY <2>1, <2>2 DEF Records
<1>. QED BY <1>1, <1>2

(* Finitely many members and events make finitely many records.            *)
LEMMA RecordsFinite ==
    ASSUME NEW M, NEW E, IsFiniteSet(M), IsFiniteSet(E)
    PROVE  IsFiniteSet(Records(M, E))
<1>. DEFINE f == [x \in Pairs(M, E) |-> RecordOf(x[1], x[2])]
<1>1. f \in Surjection(Pairs(M, E), Records(M, E))
  BY DEF Records, Surjection
<1>2. IsFiniteSet(Pairs(M, E))
  <2>1. IsFiniteSet(M \X E)
    BY FS_Product
  <2>2. Pairs(M, E) \in SUBSET (M \X E)
    BY DEF Pairs
  <2>. QED BY <2>1, <2>2, FS_Subset
<1>. HIDE DEF f
<1>. QED BY <1>1, <1>2, FS_Surjection

(* Derived in the terms of this module.                                    *)
LEMMA DerivedIs ==
    ASSUME NEW d, Sound(d)
    PROVE  Derived(d) = [member    |-> Reliable(d.fp),
                         structure |-> Groups(Reliable(d.fp)),
                         record    |-> RecordsOf(d),
                         identity  |-> ByIdentity(RecordsOf(d)),
                         text      |-> ByText(RecordsOf(d))]
<1>. DEFINE M == Reliable(d.fp)
            Keys == {<<m.rule, m.value>> : m \in M}
            Sids(s) == {m.sid : m \in {x \in M : <<x.rule, x.value>> = s}}
            R == {RecordOf(x[1], x[2]) : x \in {y \in M \X d.event : y[1].sid = y[2].sid}}
            Whole(S) == [count |-> Cardinality(S), first |-> Least(Ends(S)), last |-> Greatest(Ends(S))]
<1>1. Derived(d) =
        [member    |-> M,
         structure |-> [s \in Keys |-> [count |-> Cardinality(Sids(s)), example |-> Min(Sids(s))]],
         record    |-> R,
         identity  |-> [k \in {Identity(r) : r \in R} |-> Whole({r \in R : Identity(r) = k})],
         text      |-> [k \in {TextKey(r) : r \in R} |-> Whole({r \in R : TextKey(r) = k})]]
  BY Zenon DEF Derived
<1>2. R = RecordsOf(d)
  BY DEF RecordsOf, Records, Pairs
<1>3. ASSUME NEW s \in Keys
      PROVE  [count |-> Cardinality(Sids(s)), example |-> Min(Sids(s))] = Group(SidsOf(M, s))
  <2>1. Sids(s) = SidsOf(M, s)
    BY DEF SidsOf
  <2>2. Sids(s) # {} /\ Sids(s) \subseteq Nat
    BY DEF Reliable, Sound
  <2>3. IsFiniteSet(M)
    BY FS_Subset DEF Sound, Reliable
  <2>4. IsFiniteSet(Sids(s))
    BY <2>1, <2>3, SidsAre
  <2>5. Min(Sids(s)) = Least(Sids(s))
    <3>. HIDE DEF Sids
    <3>. QED BY <2>2, <2>4, LeastOfNumbers
  <2>. HIDE DEF Sids
  <2>. QED BY <2>1, <2>5 DEF Group
<1>4. [s \in Keys |-> [count |-> Cardinality(Sids(s)), example |-> Min(Sids(s))]]
        = [s \in Keys |-> Group(SidsOf(M, s))]
  BY <1>3
<1>. HIDE DEF R, Sids
<1>. QED BY <1>1, <1>2, <1>4, Zenon DEF Groups, ByIdentity, ByText, Total

(* The step that a refresh must get right: from exact tables and what the  *)
(* transaction changed, the exact tables.                                  *)
THEOREM RefreshIsExact ==
    ASSUME NEW d, NEW t, Sound(d), Sound(With(d, t))
    PROVE  Refreshed(With(d, t), Derived(d), t) = Derived(With(d, t))
<1>. DEFINE dn      == With(d, t)
            old     == Derived(d)
            fps     == ChangedFp(t)
            gone    == {m \in old.member : <<m.rule, m.sid>> \in fps}
            come    == {f \in Reliable(dn.fp) : <<f.rule, f.sid>> \in fps}
            member  == (old.member \ gone) \cup come
            sources == {x \in member \X dn.event :
                          /\ x[1].sid = x[2].sid
                          /\ \/ x[2].id \in ChangedId(t)
                             \/ <<x[1].rule, x[1].sid>> \in fps}
            new     == {RecordOf(x[1], x[2]) : x \in sources}
            before  == {r \in old.record : \/ r.id \in ChangedId(t)
                                           \/ <<r.rule, r.sid>> \in fps}
            removed == before \ new
            added   == new \ before
            keys    == {RecordKey(r) : r \in removed}
            record  == {r \in old.record : RecordKey(r) \notin keys} \cup added
            all     == record \cup removed
            M       == Reliable(d.fp)
            R       == RecordsOf(d)
<1>1. Refreshed(dn, old, t) =
        [member    |-> member,
         structure |-> Structures(old.structure, member, gone, come),
         record    |-> record,
         identity  |-> Totals(old.identity, [r \in all |-> Identity(r)], record, removed, added),
         text      |-> Totals(old.text, [r \in all |-> TextKey(r)], record, removed, added)]
  BY Zenon DEF Refreshed
<1>2. /\ old.member = M /\ old.structure = Groups(M) /\ old.record = R
      /\ old.identity = ByIdentity(R) /\ old.text = ByText(R)
  <2>. HIDE DEF M, R
  <2>. QED BY DerivedIs DEF M, R
<1>3. Derived(dn) = [member    |-> Reliable(dn.fp),
                     structure |-> Groups(Reliable(dn.fp)),
                     record    |-> RecordsOf(dn),
                     identity  |-> ByIdentity(RecordsOf(dn)),
                     text      |-> ByText(RecordsOf(dn))]
  BY DerivedIs
<1>4. \A f : <<f.rule, f.sid>> \notin fps => (f \in dn.fp <=> f \in d.fp)
  BY DEF ChangedFp, With
<1>5. \A e : e.id \notin ChangedId(t) => (e \in dn.event <=> e \in d.event)
  BY DEF ChangedId, With
<1>6. gone \subseteq M /\ gone = {m \in M : <<m.rule, m.sid>> \in fps}
  BY <1>2
<1>7. member = Reliable(dn.fp) /\ member = (M \ gone) \cup come
  <2>1. ASSUME NEW f PROVE f \in (M \ gone) \cup come <=> f \in Reliable(dn.fp)
    BY <1>4, <1>6 DEF Reliable
  <2>. QED BY <1>2, <2>1
<1>8. IsFiniteSet(M) /\ IsFiniteSet(come) /\ IsFiniteSet(Reliable(dn.fp))
  BY FS_Subset DEF Sound, Reliable
<1>9. /\ \A f, g \in M : f.rule = g.rule /\ f.sid = g.sid => f = g
      /\ \A f, g \in Reliable(dn.fp) : f.rule = g.rule /\ f.sid = g.sid => f = g
      /\ \A m \in M \cup come : m.sid \in Nat
  BY DEF Sound, Reliable
<1>10. Structures(old.structure, member, gone, come) = Groups(Reliable(dn.fp))
  <2>1. \A m \in M \ gone, f \in gone \cup come : m.rule = f.rule => m.sid # f.sid
    BY <1>6
  <2>2. old.structure = Groups(M)
    BY <1>2
  <2>. HIDE DEF old, gone, come, M, member
  <2>3. Structures(old.structure, member, gone, come) = Groups(member)
    <3>1. gone \subseteq M /\ IsFiniteSet(M) /\ IsFiniteSet(come)
          /\ (\A m \in M \cup come : m.sid \in Nat)
      BY <1>6, <1>8, <1>9
    <3>2. ASSUME NEW o, NEW n, o = Groups(M), n = (M \ gone) \cup come
          PROVE  Structures(o, n, gone, come) = Groups(n)
      BY <2>1, <3>1, <3>2, StructuresAreExact
    <3>. QED BY <1>7, <2>2, <3>2
  <2>. QED BY <1>7, <2>3
<1>. HIDE DEF M, member, gone, come, dn, old
(* Records: those that nothing touched stay, the others are made anew.     *)
<1>. DEFINE Touched(r) == r.id \in ChangedId(t) \/ <<r.rule, r.sid>> \in fps
            N == RecordsOf(dn)
<1>11. before = {r \in R : Touched(r)}
  BY <1>2
<1>12. \A r : r \in R <=> \E m \in M, e \in d.event : m.sid = e.sid /\ r = RecordOf(m, e)
  BY RecordsHave DEF RecordsOf, M
<1>13. \A r : r \in N <=> \E m \in Reliable(dn.fp), e \in dn.event :
                            m.sid = e.sid /\ r = RecordOf(m, e)
  BY RecordsHave DEF RecordsOf
<1>14. \A m, e : /\ RecordOf(m, e).rule = m.rule /\ RecordOf(m, e).sid = m.sid
                  /\ RecordOf(m, e).id = e.id /\ RecordOf(m, e).end = e.end
  BY DEF RecordOf
<1>15. new = {r \in N : Touched(r)}
  <2>1. ASSUME NEW r \in new PROVE r \in N /\ Touched(r)
    <3>1. PICK x \in sources : r = RecordOf(x[1], x[2])
      OBVIOUS
    <3>2. x[1] \in member /\ x[2] \in dn.event /\ x[1].sid = x[2].sid
          /\ (x[2].id \in ChangedId(t) \/ <<x[1].rule, x[1].sid>> \in fps)
      OBVIOUS
    <3>. QED BY <1>7, <1>13, <1>14, <3>1, <3>2
  <2>2. ASSUME NEW r \in N, Touched(r) PROVE r \in new
    <3>1. PICK m \in member, e \in dn.event : m.sid = e.sid /\ r = RecordOf(m, e)
      BY <1>7, <1>13
    <3>2. e.id \in ChangedId(t) \/ <<m.rule, m.sid>> \in fps
      BY <1>14, <2>2, <3>1
    <3>3. <<m, e>> \in sources
      BY <3>1, <3>2
    <3>4. r = RecordOf(<<m, e>>[1], <<m, e>>[2])
      BY <3>1
    <3>. QED BY <3>3, <3>4
  <2>. QED BY <2>1, <2>2
<1>16. ASSUME NEW r, ~Touched(r) PROVE r \in R <=> r \in N
  <2>1. ASSUME NEW m, NEW e, r = RecordOf(m, e)
        PROVE  m \in M /\ e \in d.event <=> m \in Reliable(dn.fp) /\ e \in dn.event
    <3>1. e.id \notin ChangedId(t) /\ <<m.rule, m.sid>> \notin fps
      BY <1>14, <1>16, <2>1
    <3>2. m \in d.fp <=> m \in dn.fp
      BY <1>4, <3>1
    <3>3. e \in d.event <=> e \in dn.event
      BY <1>5, <3>1
    <3>. QED BY <3>2, <3>3 DEF M, Reliable
  <2>2. ASSUME r \in R PROVE r \in N
    BY <1>12, <1>13, <2>1, <2>2
  <2>3. ASSUME r \in N PROVE r \in R
    BY <1>12, <1>13, <2>1, <2>3
  <2>. QED BY <2>2, <2>3
<1>17. \A r, q \in R : RecordKey(r) = RecordKey(q) => r = q
  <2>1. SUFFICES ASSUME NEW r \in R, NEW q \in R, RecordKey(r) = RecordKey(q) PROVE r = q
    OBVIOUS
  <2>2. PICK m \in M, e \in d.event : m.sid = e.sid /\ r = RecordOf(m, e)
    BY <1>12
  <2>3. PICK f \in M, g \in d.event : f.sid = g.sid /\ q = RecordOf(f, g)
    BY <1>12
  <2>4. m.rule = f.rule /\ e.id = g.id
    BY <1>14, <2>1, <2>2, <2>3 DEF RecordKey
  <2>5. e = g
    BY <2>4 DEF Sound
  <2>6. m = f
    BY <1>9, <2>2, <2>3, <2>4, <2>5
  <2>. QED BY <2>2, <2>3, <2>5, <2>6
<1>. HIDE DEF R, N, new, before, fps
<1>18. record = (R \ removed) \cup added
  <2>1. removed \subseteq R
    BY <1>11
  <2>2. {r \in R : RecordKey(r) \notin keys} = R \ removed
    BY <1>17, <2>1
  <2>. QED BY <1>2, <2>2
<1>. DEFINE T(r) == Touched(r)
<1>. HIDE DEF T, Touched
<1>19. /\ (R \ removed) \cup added = N
       /\ removed \subseteq R /\ added \cap R = {}
  BY <1>11, <1>15, <1>16
<1>20. \A r \in R \cup added : r.end \in Nat \cup {None}
  <2>1. \A r \in R : r.end \in Nat \cup {None}
    BY <1>12, <1>14 DEF Sound
  <2>2. \A r \in N : r.end \in Nat \cup {None}
    BY <1>13, <1>14 DEF Sound, dn
  <2>. QED BY <1>19, <2>1, <2>2
<1>21. IsFiniteSet(R) /\ IsFiniteSet(added)
  <2>1. IsFiniteSet(R)
    BY <1>8, RecordsFinite DEF RecordsOf, R, M, Sound
  <2>2. IsFiniteSet(N)
    BY <1>8, RecordsFinite DEF RecordsOf, N, dn, Sound
  <2>3. added \subseteq N
    BY <1>15
  <2>. QED BY <2>1, <2>2, <2>3, FS_Subset
<1>. HIDE DEF removed, added, record
<1>22. ASSUME NEW key, DOMAIN key = all
       PROVE  Totals(Sums(R, key), key, record, removed, added) = Sums(record, key)
  BY <1>18, <1>19, <1>20, <1>21, TotalsAreExact
<1>23. record = N /\ R \subseteq all /\ N \subseteq all
  BY <1>18, <1>19
<1>24. Totals(old.identity, [r \in all |-> Identity(r)], record, removed, added) = ByIdentity(N)
  <2>. DEFINE key == [r \in all |-> Identity(r)]
  <2>1. \A r \in all : key[r] = Identity(r)
    OBVIOUS
  <2>2. DOMAIN key = all
    OBVIOUS
  <2>. HIDE DEF key, all
  <2>3. Sums(R, key) = ByIdentity(R) /\ Sums(N, key) = ByIdentity(N)
    <3>1. ASSUME NEW S, S \subseteq all PROVE Sums(S, key) = ByIdentity(S)
      <4>1. {key[r] : r \in S} = {Identity(r) : r \in S}
        BY <2>1, <3>1
      <4>2. \A k : {r \in S : key[r] = k} = {r \in S : Identity(r) = k}
        BY <2>1, <3>1
      <4>. QED BY <4>1, <4>2 DEF Sums, ByIdentity
    <3>. QED BY <1>23, <3>1
  <2>4. Totals(old.identity, key, record, removed, added) = ByIdentity(N)
    BY <1>2, <1>22, <1>23, <2>2, <2>3
  <2>. QED BY <2>4 DEF key
<1>25. Totals(old.text, [r \in all |-> TextKey(r)], record, removed, added) = ByText(N)
  <2>. DEFINE key == [r \in all |-> TextKey(r)]
  <2>1. \A r \in all : key[r] = TextKey(r)
    OBVIOUS
  <2>2. DOMAIN key = all
    OBVIOUS
  <2>. HIDE DEF key, all
  <2>3. Sums(R, key) = ByText(R) /\ Sums(N, key) = ByText(N)
    <3>1. ASSUME NEW S, S \subseteq all PROVE Sums(S, key) = ByText(S)
      <4>1. {key[r] : r \in S} = {TextKey(r) : r \in S}
        BY <2>1, <3>1
      <4>2. \A k : {r \in S : key[r] = k} = {r \in S : TextKey(r) = k}
        BY <2>1, <3>1
      <4>. QED BY <4>1, <4>2 DEF Sums, ByText
    <3>. QED BY <1>23, <3>1
  <2>4. Totals(old.text, key, record, removed, added) = ByText(N)
    BY <1>2, <1>22, <1>23, <2>2, <2>3
  <2>. QED BY <2>4 DEF key
<1>. HIDE DEF all
<1>26. Refreshed(dn, old, t) = Derived(dn)
  BY <1>1, <1>3, <1>7, <1>10, <1>23, <1>24, <1>25, Zenon DEF N
<1>. QED BY <1>26 DEF dn, old

-----------------------------------------------------------------------------
(* The invariant.                                                          *)

Owns(i, o) == \E n \in DOMAIN Pages[i] : o \in Pages[i][n]

(* What holds of the rows at every commit. *)
Rows(d) ==
    /\ d = [text |-> d.text, fp |-> d.fp, event |-> d.event]
    /\ Sound(d) /\ IsFiniteSet(d.text)
    /\ \A t \in d.text : t.sid \in Sid
    /\ \A t, u \in d.text : t.text = u.text \/ t.sid = u.sid => t = u
    /\ \A f \in d.fp : f = [sid |-> f.sid, rule |-> f.rule, value |-> f.value]
    /\ \A e \in d.event :
          /\ e = [id |-> e.id, scope |-> e.scope, end |-> e.end, sid |-> e.sid]
          /\ \E t \in d.text, o \in Event : t.sid = e.sid /\ o.id = e.id /\ t.text = o.text

TxRecord(t) == DOMAIN t = {"text", "fp", "fpOut", "event", "eventOut", "view"}

TypeInv ==
    /\ DOMAIN tx = Conn /\ \A n \in Conn : TxRecord(tx[n])
    /\ DOMAIN pc = Command
    /\ DOMAIN page = Command /\ \A i \in Importer : page[i] \in DOMAIN Pages[i]
    /\ DOMAIN fresh = Command /\ \A c \in Command : IsFiniteSet(fresh[c])
    /\ DOMAIN cache = Command
    /\ lock \in Conn \cup {Unlocked}

DbInv ==
    /\ Rows(db) /\ view = Derived(db)
    /\ \A e \in db.event : \E i \in Importer :
          pc[i] = "done" /\ \E o \in Event : Owns(i, o) /\ o.id = e.id

(* What a connection put in is exact for as long as it holds the lock.     *)
SqlInv(c) ==
    /\ pc[c] \in {"write", "refresh", "commit"} => lock = Sql(c)
    /\ pc[c] \notin {"refresh", "commit"} => tx[Sql(c)] = NoTx
    /\ pc[c] \in {"refresh", "commit"} =>
          /\ tx[Sql(c)].fpOut = {} /\ tx[Sql(c)].event = {} /\ tx[Sql(c)].eventOut = {}
          /\ Rows(With(db, tx[Sql(c)]))
    /\ pc[c] = "commit" /\ Changed(tx[Sql(c)]) =>
          tx[Sql(c)].view = Derived(With(db, tx[Sql(c)]))

TextsIn(T) == {t.text : t \in T}

CacheInv(i) ==
    /\ cache[i] \subseteq db.text
    /\ pc[i] \in {"lock", "write"} =>
          Texts(i) \ CachedTexts(i) \subseteq fresh[i] \cup TextsIn(db.text)
    /\ pc[i] \in {"refresh", "commit"} =>
          Texts(i) \ CachedTexts(i) \subseteq TextsIn(With(db, tx[Sql(i)]).text)
    /\ pc[i] = "copy" => Texts(i) \subseteq CachedTexts(i)

(* The events of a file, while its transaction is open. *)
Filed(i) ==
    /\ tx[File(i)].text = {} /\ tx[File(i)].fp = {}
    /\ tx[File(i)].fpOut = {} /\ tx[File(i)].eventOut = {}
    /\ IsFiniteSet(tx[File(i)].event)
    /\ \A e, g \in tx[File(i)].event : e.id = g.id => e = g
    /\ \A e \in tx[File(i)].event :
          /\ e = [id |-> e.id, scope |-> e.scope, end |-> e.end, sid |-> e.sid]
          /\ e.end \in Nat \cup {None}
          /\ \E n \in DOMAIN Pages[i] : \E o \in Pages[i][n], t \in db.text :
                /\ o.id = e.id /\ t.sid = e.sid /\ t.text = o.text
                /\ n < page[i] \/ pc[i] \in {"refreshFile", "commitFile"}

(* What people changed. *)
EditedEvent(t) ==
    /\ t.text = {} /\ t.fp = {} /\ t.fpOut = {}
    /\ \E e \in db.event : t.eventOut = {e} /\ t.event \subseteq {[e EXCEPT !.end = LaterEnd]}

EditedFingerprint(t) ==
    /\ t.text = {} /\ t.event = {} /\ t.eventOut = {}
    /\ lock = File(People)
    /\ \E f \in db.fp : t.fpOut = {f} /\ t.fp \subseteq {[f EXCEPT !.value = Unreliable]}

FileInv(c) ==
    /\ pc[c] \in {"idle", "done"} \/ c = Trainer => tx[File(c)] = NoTx
    /\ pc[c] = "commitFile" /\ Changed(tx[File(c)]) =>
          lock = File(c) /\ tx[File(c)].view = Derived(With(db, tx[File(c)]))
    /\ c \in Importer => Filed(c)
    /\ c = People /\ pc[c] \in {"refreshFile", "commitFile"} =>
          EditedEvent(tx[File(c)]) \/ EditedFingerprint(tx[File(c)])

Inv ==
    /\ TypeInv /\ DbInv
    /\ \A c \in Command : SqlInv(c) /\ FileInv(c)
    /\ \A i \in Importer : CacheInv(i)

-----------------------------------------------------------------------------
(* What transactions make of the rows.                                     *)

(* The assumptions, one fact each.                                         *)
LEMMA Constants ==
    /\ Sid \subseteq Nat /\ None \notin Nat /\ LaterEnd \in Nat
    /\ \A i \in Importer : \A n \in DOMAIN Pages[i] :
          IsFiniteSet(Pages[i][n]) /\ Pages[i][n] \subseteq Event
    /\ \A i \in Importer : 1 \in DOMAIN Pages[i] /\ DOMAIN Pages[i] = 1..Len(Pages[i])
                           /\ Len(Pages[i]) \in Nat
    /\ \A o \in Event : \E i \in Importer : Owns(i, o)
    /\ \A i, j \in Importer, o, p \in Event :
          Owns(i, o) /\ Owns(j, p) /\ o.id = p.id => i = j /\ o = p
    /\ \A i \in Importer : \A n, m \in DOMAIN Pages[i] : \A e \in Pages[i][n], f \in Pages[i][m] :
          e.id = f.id => n = m /\ e = f
    /\ \A o \in Event : o.end \in Nat \cup {None}
    /\ Trainer \in Command /\ People \in Command /\ Importer \subseteq Command
    /\ Trainer \notin Importer /\ People \notin Importer /\ People # Trainer
    /\ Unlocked \notin Conn
<1>1. \A i \in Importer : \A n \in DOMAIN Pages[i] : Pages[i][n] \subseteq Event
  BY DEF Event
<1>2. \A i \in Importer : 1 \in DOMAIN Pages[i] /\ DOMAIN Pages[i] = 1..Len(Pages[i])
                          /\ Len(Pages[i]) \in Nat
  <2>1. \A i \in Importer : Pages[i] \in Seq(SUBSET Event) /\ Pages[i] # <<>>
    BY ProjectionAssumption DEF ProjectionAssumption
  <2>. HIDE DEF Event
  <2>. QED BY <2>1
<1>3. \A o \in Event : \E i \in Importer : Owns(i, o)
  BY DEF Event, Owns
<1>4. \A i, j \in Importer, o, p \in Event :
          Owns(i, o) /\ Owns(j, p) /\ o.id = p.id => i = j /\ o = p
  BY EventAssumption DEF EventAssumption, Owns
<1>5. \A i \in Importer : \A n, m \in DOMAIN Pages[i] : \A e \in Pages[i][n], f \in Pages[i][m] :
          e.id = f.id => n = m /\ e = f
  BY EventAssumption DEF EventAssumption
<1>6. Unlocked \notin Conn
  BY CommandAssumption DEF CommandAssumption, Unlocked, Conn, Command
<1>7. /\ Trainer \in Command /\ People \in Command /\ Importer \subseteq Command
      /\ Trainer \notin Importer /\ People \notin Importer /\ People # Trainer
  BY CommandAssumption DEF CommandAssumption, Command
<1>8. \A i \in Importer : \A n \in DOMAIN Pages[i] : IsFiniteSet(Pages[i][n])
  BY EventAssumption DEF EventAssumption
<1>9. \A o \in Event : o.end \in Nat \cup {None}
  BY EventAssumption DEF EventAssumption
<1>10. Sid \subseteq Nat /\ None \notin Nat /\ LaterEnd \in Nat
  BY ProjectionAssumption DEF ProjectionAssumption
<1>. QED BY <1>1, <1>2, <1>3, <1>4, <1>5, <1>6, <1>7, <1>8, <1>9, <1>10

(* Every command has two connections of its own.                           *)
LEMMA Connections ==
    /\ \A c \in Command : File(c) \in Conn /\ Sql(c) \in Conn
    /\ \A c, d \in Command : /\ File(c) = File(d) => c = d
                             /\ Sql(c) = Sql(d) => c = d
                             /\ File(c) # Sql(d)
    /\ \A n \in Conn : \E c \in Command : n \in {File(c), Sql(c)}
BY DEF File, Sql, Conn

(* A transaction that changed nothing leaves the rows as they are.         *)
LEMMA NothingChanged ==
    ASSUME NEW d, NEW t, Rows(d), ~Changed(t)
    PROVE  With(d, t) = d
BY DEF Changed, With, Rows

(* An empty transaction.                                                   *)
LEMMA NoTxIs ==
    /\ TxRecord(NoTx) /\ ~Changed(NoTx)
    /\ NoTx.text = {} /\ NoTx.fp = {} /\ NoTx.fpOut = {} /\ NoTx.event = {} /\ NoTx.eventOut = {}
BY DEF NoTx, TxRecord, Changed

(* A file whose events are committed, and changes of people, leave sound rows. *)
LEMMA FiledRows ==
    ASSUME NEW i \in Importer, DbInv, Filed(i), pc[i] # "done"
    PROVE  Rows(With(db, tx[File(i)]))
<1>. DEFINE t == tx[File(i)]
            d == With(db, t)
<1>1. d = [text |-> db.text, fp |-> db.fp, event |-> db.event \cup t.event]
  BY DEF With, Filed
<1>2. \A e \in t.event : \E o \in Event, u \in db.text :
         Owns(i, o) /\ o.id = e.id /\ u.sid = e.sid /\ u.text = o.text
  BY Constants DEF Filed, Owns
<1>3. \A e \in db.event, g \in t.event : e.id # g.id
  <2>1. SUFFICES ASSUME NEW e \in db.event, NEW g \in t.event, e.id = g.id PROVE FALSE
    OBVIOUS
  <2>2. PICK j \in Importer : pc[j] = "done" /\ \E o \in Event : Owns(j, o) /\ o.id = e.id
    BY DEF DbInv
  <2>3. PICK o \in Event : Owns(i, o) /\ o.id = g.id
    BY <1>2
  <2>. QED BY <2>1, <2>2, <2>3, Constants
<1>4. \A e, g \in d.event : e.id = g.id => e = g
  BY <1>1, <1>3 DEF Filed, DbInv, Rows, Sound
<1>5. IsFiniteSet(d.event) /\ \A e \in d.event : e.end \in Nat \cup {None}
  <2>1. IsFiniteSet(db.event) /\ IsFiniteSet(t.event)
    BY DEF Filed, DbInv, Rows, Sound
  <2>2. IsFiniteSet(db.event \cup t.event)
    BY <2>1, FS_Union
  <2>3. \A e \in db.event \cup t.event : e.end \in Nat \cup {None}
    BY DEF Filed, DbInv, Rows, Sound
  <2>. QED BY <1>1, <2>2, <2>3
<1>6. Sound(d)
  BY <1>1, <1>4, <1>5 DEF DbInv, Rows, Sound
<1>7. \A e \in d.event : e = [id |-> e.id, scope |-> e.scope, end |-> e.end, sid |-> e.sid]
  BY <1>1 DEF Filed, DbInv, Rows
<1>8. \A e \in d.event : \E u \in d.text, o \in Event : u.sid = e.sid /\ o.id = e.id /\ u.text = o.text
  BY <1>1, <1>2 DEF DbInv, Rows
<1>. HIDE DEF d
<1>9. Rows(d)
  BY <1>1, <1>6, <1>7, <1>8 DEF DbInv, Rows
<1>. QED BY <1>9 DEF d

(* So do people who take out an event or put in another end.               *)
LEMMA EditedEventRows ==
    ASSUME NEW t, Rows(db), EditedEvent(t)
    PROVE  Rows(With(db, t))
<1>. DEFINE d == With(db, t)
<1>1. PICK e \in db.event : t.eventOut = {e} /\ t.event \subseteq {[e EXCEPT !.end = LaterEnd]}
  BY DEF EditedEvent
<1>. DEFINE x == [e EXCEPT !.end = LaterEnd]
<1>2. d = [text |-> db.text, fp |-> db.fp, event |-> (db.event \ {e}) \cup t.event]
  BY <1>1 DEF With, EditedEvent
<1>3. x = [id |-> e.id, scope |-> e.scope, end |-> LaterEnd, sid |-> e.sid]
  BY DEF Rows
<1>4. x.id = e.id /\ x.sid = e.sid /\ x.end = LaterEnd /\ LaterEnd \in Nat
      /\ x = [id |-> x.id, scope |-> x.scope, end |-> x.end, sid |-> x.sid]
  BY <1>3, Constants
<1>. HIDE DEF x, d
<1>5. \A g \in d.event : g = x \/ (g \in db.event /\ g # e)
  BY <1>1, <1>2 DEF x
<1>6. \A g, h \in d.event : g.id = h.id => g = h
  BY <1>4, <1>5 DEF Rows, Sound
<1>7. IsFiniteSet(d.event)
  <2>1. t.event \subseteq {x}
    BY <1>1 DEF x
  <2>2. IsFiniteSet(t.event)
    BY <2>1, FS_Singleton, FS_Subset
  <2>3. IsFiniteSet(db.event \ {e})
    BY FS_Subset DEF Rows, Sound
  <2>. QED BY <1>2, <2>2, <2>3, FS_Union
<1>8. \A g \in d.event : g.end \in Nat \cup {None}
  BY <1>4, <1>5 DEF Rows, Sound
<1>9. Sound(d)
  BY <1>2, <1>6, <1>7, <1>8 DEF Rows, Sound
<1>10. \A g \in d.event : /\ g = [id |-> g.id, scope |-> g.scope, end |-> g.end, sid |-> g.sid]
                          /\ \E u \in d.text, o \in Event :
                                u.sid = g.sid /\ o.id = g.id /\ u.text = o.text
  BY <1>2, <1>4, <1>5 DEF Rows
<1>11. Rows(d)
  BY <1>2, <1>9, <1>10 DEF Rows
<1>. QED BY <1>11 DEF d

(* And those who take out a fingerprint or make it unreliable.             *)
LEMMA EditedFingerprintRows ==
    ASSUME NEW t, Rows(db), EditedFingerprint(t)
    PROVE  Rows(With(db, t))
<1>. DEFINE d == With(db, t)
<1>1. PICK f \in db.fp : t.fpOut = {f} /\ t.fp \subseteq {[f EXCEPT !.value = Unreliable]}
  BY DEF EditedFingerprint
<1>. DEFINE x == [f EXCEPT !.value = Unreliable]
<1>2. d = [text |-> db.text, fp |-> (db.fp \ {f}) \cup t.fp, event |-> db.event]
  BY <1>1 DEF With, EditedFingerprint
<1>3. x = [sid |-> f.sid, rule |-> f.rule, value |-> Unreliable]
  BY DEF Rows
<1>4. x.sid = f.sid /\ x.rule = f.rule /\ x = [sid |-> x.sid, rule |-> x.rule, value |-> x.value]
  BY <1>3
<1>. HIDE DEF x, d
<1>5. \A g \in d.fp : g = x \/ (g \in db.fp /\ g # f)
  BY <1>1, <1>2 DEF x
<1>6. \A g, h \in d.fp : g.rule = h.rule /\ g.sid = h.sid => g = h
  BY <1>4, <1>5 DEF Rows, Sound
<1>7. IsFiniteSet(d.fp)
  <2>1. t.fp \subseteq {x}
    BY <1>1 DEF x
  <2>2. IsFiniteSet(t.fp)
    BY <2>1, FS_Singleton, FS_Subset
  <2>3. IsFiniteSet(db.fp \ {f})
    BY FS_Subset DEF Rows, Sound
  <2>. QED BY <1>2, <2>2, <2>3, FS_Union
<1>8. \A g \in d.fp : g.sid \in Nat /\ g = [sid |-> g.sid, rule |-> g.rule, value |-> g.value]
  BY <1>4, <1>5 DEF Rows, Sound
<1>9. Sound(d)
  BY <1>2, <1>6, <1>7, <1>8 DEF Rows, Sound
<1>10. Rows(d)
  BY <1>2, <1>8, <1>9 DEF Rows
<1>. QED BY <1>10 DEF d

(* Under the lock, texts are looked for once more and rows have new keys.  *)
LEMMA WrittenRows ==
    ASSUME TypeInv, Rows(db), NEW c \in Command,
           WriteRows(c, {t \in db.text : t.text \in fresh[c]})
    PROVE  \E t : /\ tx' = [tx EXCEPT ![Sql(c)] = t] /\ TxRecord(t)
                  /\ t.fpOut = {} /\ t.event = {} /\ t.eventOut = {}
                  /\ Rows(With(db, t)) /\ fresh[c] \subseteq TextsIn(With(db, t).text)
<1>. DEFINE existing == {t \in db.text : t.text \in fresh[c]}
            missing  == fresh[c] \ {t.text : t \in existing}
            Fp(t)    == [sid |-> t.sid, rule |-> RuleOf[c], value |-> Value[RuleOf[c]][t.text]]
            Has(t)   == \E f \in db.fp : f.sid = t.sid /\ f.rule = RuleOf[c]
            Row(a, new) == [sid |-> new[a], text |-> a]
            used     == {t.sid : t \in db.text}
<1>1. PICK new \in [missing -> Sid \ used] :
         LET texts == {[sid |-> new[a], text |-> a] : a \in missing}
         IN /\ Cardinality({new[a] : a \in missing}) = Cardinality(missing)
            /\ tx' = [tx EXCEPT ![Sql(c)] =
                 [NoTx EXCEPT !.text = texts,
                              !.fp = {Fp(t) : t \in {x \in existing \cup texts : ~Has(x)}}]]
  BY Zenon DEF WriteRows
<1>. DEFINE texts == {[sid |-> new[a], text |-> a] : a \in missing}
            fps   == {Fp(t) : t \in {x \in existing \cup texts : ~Has(x)}}
            t     == [NoTx EXCEPT !.text = texts, !.fp = fps]
            d     == With(db, t)
<1>2. Cardinality({new[a] : a \in missing}) = Cardinality(missing) /\ tx' = [tx EXCEPT ![Sql(c)] = t]
  BY <1>1, Zenon
<1>3. /\ t.text = texts /\ t.fp = fps /\ t.fpOut = {} /\ t.event = {} /\ t.eventOut = {}
      /\ TxRecord(t)
  <2>. HIDE DEF texts, fps
  <2>. QED BY DEF NoTx, TxRecord
<1>4. d = [text |-> db.text \cup texts, fp |-> db.fp \cup fps, event |-> db.event]
  BY <1>3 DEF With
<1>5. IsFiniteSet(missing)
  BY FS_Subset DEF TypeInv
<1>6. \A a, b \in missing : new[a] = new[b] => a = b
  <2>. DEFINE im == {new[a] : a \in missing}
  <2>1. new \in Surjection(missing, im)
    BY <1>1 DEF Surjection
  <2>2. Cardinality(im) = Cardinality(missing)
    BY <1>2
  <2>. HIDE DEF im, missing
  <2>3. new \in Injection(missing, im)
    BY <1>5, <2>1, <2>2, FS_Surjection
  <2>4. new \in [missing -> im] /\ IsInjective(new)
    BY <2>3 DEF Injection
  <2>5. DOMAIN new = missing
    BY <2>4
  <2>. QED BY <2>4, <2>5 DEF IsInjective
<1>7. ASSUME NEW u \in texts
      PROVE  u.text \in missing /\ u.sid = new[u.text] /\ u.sid \in Sid \ used
             /\ u = [sid |-> u.sid, text |-> u.text]
  BY <1>1, <1>7
<1>8. IsFiniteSet(texts)
  <2>. DEFINE f == [a \in missing |-> [sid |-> new[a], text |-> a]]
  <2>1. f \in Surjection(missing, texts)
    BY DEF Surjection
  <2>. HIDE DEF f, texts, missing
  <2>. QED BY <1>5, <2>1, FS_Surjection
<1>9. ASSUME NEW a \in missing, NEW u \in db.text, u.text = a PROVE FALSE
  <2>1. u \in existing
    BY <1>9
  <2>. QED BY <1>9, <2>1
<1>10. \A u \in db.text : u.sid \in used
  OBVIOUS
<1>11. ASSUME NEW a \in missing PROVE \E u \in texts : u.text = a
  <2>1. Row(a, new) \in texts /\ Row(a, new).text = a
    OBVIOUS
  <2>. QED BY <2>1
<1>12. ASSUME NEW a \in fresh[c], a \notin missing PROVE \E u \in db.text : u.text = a
  <2>1. a \in {u.text : u \in existing}
    BY <1>12
  <2>. QED BY <2>1
<1>13. existing \subseteq db.text
  OBVIOUS
<1>. HIDE DEF texts, missing, used, existing
<1>14. \A u, v \in db.text \cup texts : u.text = v.text \/ u.sid = v.sid => u = v
  <2>1. SUFFICES ASSUME NEW u \in db.text \cup texts, NEW v \in db.text \cup texts,
                        u.text = v.text \/ u.sid = v.sid
                 PROVE  u = v
    OBVIOUS
  <2>2. CASE u \in db.text /\ v \in db.text
    BY <2>1, <2>2 DEF Rows
  <2>3. CASE u \in texts /\ v \in texts
    BY <1>6, <1>7, <2>1, <2>3
  <2>4. CASE u \in db.text /\ v \in texts
    BY <1>7, <1>9, <1>10, <2>1, <2>4
  <2>5. CASE u \in texts /\ v \in db.text
    BY <1>7, <1>9, <1>10, <2>1, <2>5
  <2>. QED BY <2>2, <2>3, <2>4, <2>5
<1>15. \A f \in fps : \E u \in existing \cup texts : ~Has(u) /\ f = Fp(u)
  OBVIOUS
<1>16. IsFiniteSet(fps)
  <2>. DEFINE X == {x \in existing \cup texts : ~Has(x)}
              f == [x \in X |-> Fp(x)]
  <2>1. f \in Surjection(X, fps)
    BY DEF Surjection
  <2>2. IsFiniteSet(existing \cup texts)
    BY <1>8, <1>13, FS_Subset, FS_Union DEF Rows
  <2>3. IsFiniteSet(X)
    BY <2>2, FS_Subset
  <2>. HIDE DEF f, X, fps
  <2>. QED BY <2>1, <2>3, FS_Surjection
<1>. HIDE DEF fps
<1>17. ASSUME NEW f \in fps
       PROVE  /\ f = [sid |-> f.sid, rule |-> f.rule, value |-> f.value]
              /\ f.rule = RuleOf[c] /\ f.sid \in Nat
              /\ \A g \in db.fp : ~(g.rule = f.rule /\ g.sid = f.sid)
              /\ \A g \in fps : g.sid = f.sid => g = f
  <2>1. PICK u \in existing \cup texts : ~Has(u) /\ f = Fp(u)
    BY <1>15
  <2>2. u.sid \in Nat
    BY <1>7, <1>13, Constants DEF Rows
  <2>3. \A g \in fps : g.sid = f.sid => g = f
    <3>1. SUFFICES ASSUME NEW g \in fps, g.sid = f.sid PROVE g = f
      OBVIOUS
    <3>2. PICK v \in existing \cup texts : ~Has(v) /\ g = Fp(v)
      BY <1>15
    <3>3. u = v
      BY <1>13, <1>14, <2>1, <3>1, <3>2
    <3>. QED BY <2>1, <3>2, <3>3
  <2>. QED BY <2>1, <2>2, <2>3
<1>. HIDE DEF t, d
<1>18. Sound(d)
  <2>1. \A f, g \in d.fp : f.rule = g.rule /\ f.sid = g.sid => f = g
    BY <1>4, <1>17 DEF Rows, Sound
  <2>2. IsFiniteSet(d.fp)
    BY <1>4, <1>16, FS_Union DEF Rows, Sound
  <2>. QED BY <1>4, <1>17, <2>1, <2>2 DEF Rows, Sound
<1>19. Rows(d)
  <2>1. IsFiniteSet(d.text)
    BY <1>4, <1>8, FS_Union DEF Rows
  <2>2. \A u \in d.text : u.sid \in Sid
    BY <1>4, <1>7 DEF Rows
  <2>3. \A f \in d.fp : f = [sid |-> f.sid, rule |-> f.rule, value |-> f.value]
    BY <1>4, <1>17 DEF Rows
  <2>4. \A e \in d.event :
          /\ e = [id |-> e.id, scope |-> e.scope, end |-> e.end, sid |-> e.sid]
          /\ \E u \in d.text, o \in Event : u.sid = e.sid /\ o.id = e.id /\ u.text = o.text
    BY <1>4 DEF Rows
  <2>. QED BY <1>4, <1>14, <1>18, <2>1, <2>2, <2>3, <2>4 DEF Rows
<1>20. fresh[c] \subseteq TextsIn(d.text)
  BY <1>4, <1>11, <1>12 DEF TextsIn
<1>21. TxRecord(t) /\ t.fpOut = {} /\ t.event = {} /\ t.eventOut = {}
  BY <1>3
<1>. QED BY <1>2, <1>19, <1>20, <1>21 DEF d

(* What a step of command c leaves to the others. *)
Frame(c) ==
    /\ \A d \in Command \ {c} :
          /\ pc'[d] = pc[d] /\ page'[d] = page[d] /\ fresh'[d] = fresh[d] /\ cache'[d] = cache[d]
          /\ tx'[Sql(d)] = tx[Sql(d)] /\ tx'[File(d)] = tx[File(d)]
    /\ \/ db' = db /\ lock' = lock
       \/ db' = db /\ lock \in {Unlocked, Sql(c), File(c)}
       \/ /\ lock \in {Sql(c), File(c)}
          /\ db.text \subseteq db'.text
          /\ c # People => db.event \subseteq db'.event

(* What holds of a command holds still when another one goes on.           *)
LEMMA OthersKeep ==
    ASSUME Inv, NEW c \in Command, Frame(c), NEW d \in Command, d # c
    PROVE  SqlInv(d)' /\ FileInv(d)' /\ (d \in Importer => CacheInv(d)')
<1>1. /\ pc'[d] = pc[d] /\ page'[d] = page[d] /\ fresh'[d] = fresh[d] /\ cache'[d] = cache[d]
      /\ tx'[Sql(d)] = tx[Sql(d)] /\ tx'[File(d)] = tx[File(d)]
  BY DEF Frame
<1>2. SqlInv(d) /\ FileInv(d) /\ (d \in Importer => CacheInv(d))
  BY DEF Inv
<1>3. CASE db' = db /\ lock' = lock
  <2>1. SqlInv(d)'
    BY <1>1, <1>2, <1>3 DEF SqlInv
  <2>2. FileInv(d)'
    BY <1>1, <1>2, <1>3 DEF FileInv, Filed, EditedEvent, EditedFingerprint
  <2>3. d \in Importer => CacheInv(d)'
    BY <1>1, <1>2, <1>3 DEF CacheInv, Texts, CachedTexts
  <2>. QED BY <2>1, <2>2, <2>3
<1>4. ASSUME lock \in {Unlocked, Sql(c), File(c)}, db.text \subseteq db'.text,
             d = People => db.event \subseteq db'.event
      PROVE  SqlInv(d)' /\ FileInv(d)' /\ (d \in Importer => CacheInv(d)')
  <2>1. lock # Sql(d) /\ lock # File(d)
    BY <1>4, Connections, Constants
  <2>2. pc[d] \notin {"write", "refresh", "commit"} /\ ~(pc[d] = "commitFile" /\ Changed(tx[File(d)]))
    BY <1>2, <2>1 DEF SqlInv, FileInv
  <2>3. SqlInv(d)'
    BY <1>1, <1>2, <2>2 DEF SqlInv
  <2>4. d \in Importer => Filed(d)'
    BY <1>1, <1>2, <1>4 DEF FileInv, Filed
  <2>5. d = People /\ pc[d] \in {"refreshFile", "commitFile"} => EditedEvent(tx[File(d)])'
    BY <1>1, <1>2, <1>4, <2>1 DEF FileInv, EditedEvent, EditedFingerprint
  <2>6. FileInv(d)'
    BY <1>1, <1>2, <2>2, <2>4, <2>5 DEF FileInv
  <2>7. d \in Importer => CacheInv(d)'
    BY <1>1, <1>2, <1>4, <2>2 DEF CacheInv, Texts, CachedTexts, TextsIn
  <2>. QED BY <2>3, <2>6, <2>7
<1>. QED BY <1>3, <1>4 DEF Frame

-----------------------------------------------------------------------------
(* Every step keeps Inv.                                                   *)

(* The parts of Inv that a step of c can disturb.                          *)
LEMMA Assemble ==
    ASSUME Inv, NEW c \in Command, Frame(c), TypeInv', DbInv', SqlInv(c)', FileInv(c)',
           c \in Importer => CacheInv(c)'
    PROVE  Inv'
<1>1. ASSUME NEW d \in Command PROVE SqlInv(d)' /\ FileInv(d)' /\ (d \in Importer => CacheInv(d)')
  <2>1. CASE d = c
    BY <2>1
  <2>2. CASE d # c
    BY <2>2, OthersKeep
  <2>. QED BY <2>1, <2>2
<1>. QED BY <1>1, Constants DEF Inv

(* Without a commit the committed rows stay as they are.                   *)
LEMMA DbKeeps ==
    ASSUME DbInv, db' = db, view' = view, \A i \in Importer : pc[i] = "done" => pc'[i] = "done"
    PROVE  DbInv'
BY DEF DbInv

(* A commit: what was exact for the transaction is now exact for all.      *)
LEMMA CommitKeeps ==
    ASSUME Inv, NEW n \in Conn, Commit(n), Rows(With(db, tx[n])),
           Changed(tx[n]) => lock = n /\ tx[n].view = Derived(With(db, tx[n]))
    PROVE  /\ Rows(db)' /\ (view = Derived(db))'
           /\ db' = With(db, tx[n]) /\ db.text \subseteq db'.text
           /\ tx' = [tx EXCEPT ![n] = NoTx]
           /\ DOMAIN tx' = Conn /\ (\A m \in Conn : TxRecord(tx'[m])) /\ lock' \in Conn \cup {Unlocked}
           /\ \/ db' = db /\ (lock' = lock \/ lock = n)
              \/ lock = n
<1>1. db' = With(db, tx[n]) /\ tx' = [tx EXCEPT ![n] = NoTx]
      /\ lock' = (IF lock = n THEN Unlocked ELSE lock)
      /\ view' = IF Changed(tx[n]) THEN tx[n].view ELSE view
  BY DEF Commit
<1>2. ASSUME Changed(tx[n]) PROVE (view = Derived(db))' /\ lock = n
  BY <1>1, <1>2
<1>3. ASSUME ~Changed(tx[n]) PROVE (view = Derived(db))' /\ db' = db
  <2>1. db' = db /\ view' = view
    BY <1>1, <1>3, NothingChanged DEF Inv, DbInv
  <2>. QED BY <2>1 DEF Inv, DbInv
<1>4. (view = Derived(db))' /\ (db' = db \/ lock = n)
  BY <1>2, <1>3
<1>5. DOMAIN tx' = Conn /\ \A m \in Conn : TxRecord(tx'[m])
  BY <1>1, NoTxIs DEF Inv, TypeInv
<1>6. db.text \subseteq db'.text
  BY <1>1 DEF With
<1>7. Rows(db)' /\ lock' \in Conn \cup {Unlocked}
  BY <1>1 DEF Inv, TypeInv
<1>. QED BY <1>1, <1>4, <1>5, <1>6, <1>7

(* A refresh at COMMIT: exact for the transaction, under the lock.         *)
LEMMA RefreshKeeps ==
    ASSUME Inv, NEW n \in Conn, Refresh(n), Rows(With(db, tx[n]))
    PROVE  /\ DOMAIN tx' = Conn /\ (\A m \in Conn : TxRecord(tx'[m])) /\ lock' \in Conn \cup {Unlocked}
           /\ \A m \in Conn : m # n => tx'[m] = tx[m]
           /\ With(db, tx'[n]) = With(db, tx[n]) /\ (Changed(tx'[n]) <=> Changed(tx[n]))
           /\ tx'[n].text = tx[n].text /\ tx'[n].fp = tx[n].fp /\ tx'[n].fpOut = tx[n].fpOut
           /\ tx'[n].event = tx[n].event /\ tx'[n].eventOut = tx[n].eventOut
           /\ Changed(tx'[n]) => lock' = n /\ tx'[n].view = Derived(With(db, tx'[n]))
           /\ lock' = lock \/ lock \in {Unlocked, n}
           /\ (tx[n] = NoTx => tx'[n] = NoTx)
           /\ (lock = n => lock' = n)
<1>1. CASE ~Changed(tx[n])
  BY <1>1 DEF Refresh, Inv, TypeInv
<1>2. CASE Changed(tx[n])
  <2>1. /\ lock \in {Unlocked, n} /\ lock' = n
        /\ tx' = [tx EXCEPT ![n].view = Refreshed(With(db, tx[n]), view, tx[n])]
    BY <1>2 DEF Refresh
  <2>2. Refreshed(With(db, tx[n]), view, tx[n]) = Derived(With(db, tx[n]))
    BY RefreshIsExact DEF Inv, DbInv, Rows
  <2>3. tx' = [tx EXCEPT ![n].view = Derived(With(db, tx[n]))]
    BY <2>1, <2>2
  <2>4. /\ DOMAIN tx' = Conn /\ \A m \in Conn : TxRecord(tx'[m])
        /\ \A m \in Conn : m # n => tx'[m] = tx[m]
        /\ tx'[n].text = tx[n].text /\ tx'[n].fp = tx[n].fp /\ tx'[n].fpOut = tx[n].fpOut
        /\ tx'[n].event = tx[n].event /\ tx'[n].eventOut = tx[n].eventOut
        /\ tx'[n].view = Derived(With(db, tx[n]))
    BY <2>3 DEF Inv, TypeInv, TxRecord
  <2>5. With(db, tx'[n]) = With(db, tx[n]) /\ Changed(tx'[n])
    BY <1>2, <2>4 DEF With, Changed
  <2>6. tx[n] # NoTx
    BY <1>2, NoTxIs
  <2>. QED BY <1>2, <2>1, <2>4, <2>5, <2>6
<1>. QED BY <1>1, <1>2

(* The beginning of a file.                                                *)
LEMMA StartFileStep ==
    ASSUME Inv, NEW i \in Importer, StartFile(i)
    PROVE  Inv'
<1>1. i \in Command
  BY Constants
<1>2. /\ pc[i] = "idle" /\ pc' = [pc EXCEPT ![i] = "resolve"] /\ page' = [page EXCEPT ![i] = 1]
      /\ UNCHANGED <<db, view, lock, tx, fresh, cache, faults>>
  BY DEF StartFile, Go
<1>3. TypeInv'
  BY <1>1, <1>2, Constants DEF Inv, TypeInv
<1>4. DbInv'
  BY <1>1, <1>2, DbKeeps DEF Inv, TypeInv
<1>5. Frame(i)
  BY <1>1, <1>2 DEF Frame, Inv, TypeInv
<1>6. pc'[i] = "resolve" /\ SqlInv(i) /\ FileInv(i) /\ CacheInv(i)
  BY <1>1, <1>2 DEF Inv, TypeInv
<1>7. SqlInv(i)'
  BY <1>2, <1>6 DEF SqlInv
<1>8. FileInv(i)'
  BY <1>2, <1>6, NoTxIs, Constants DEF FileInv, Filed
<1>9. CacheInv(i)'
  BY <1>2, <1>6 DEF CacheInv
<1>. QED BY <1>1, <1>3, <1>4, <1>5, <1>7, <1>8, <1>9, Assemble

(* The texts of a page are finitely many.                                  *)
LEMMA TextsFinite ==
    ASSUME NEW i \in Importer, TypeInv
    PROVE  IsFiniteSet(Texts(i))
<1>. DEFINE P == Pages[i][page[i]]
            f == [e \in P |-> e.text]
<1>1. IsFiniteSet(P)
  BY Constants DEF TypeInv
<1>2. f \in Surjection(P, Texts(i))
  BY DEF Surjection, Texts
<1>. HIDE DEF f, P
<1>. QED BY <1>1, <1>2, FS_Surjection

(* What is neither in the cache nor committed is to be written.            *)
LEMMA ResolveStep ==
    ASSUME Inv, NEW i \in Importer, Resolve(i)
    PROVE  Inv'
<1>1. i \in Command
  BY Constants
<1>. DEFINE missing == Texts(i) \ CachedTexts(i)
            found   == {t \in db.text : /\ t.text \in missing
                                        /\ \E f \in Reliable(db.fp) :
                                             f.sid = t.sid /\ f.rule = RuleOf[i]}
            new     == missing \ {t.text : t \in found}
<1>2. /\ pc[i] = "resolve" /\ fresh' = [fresh EXCEPT ![i] = new]
      /\ pc' = [pc EXCEPT ![i] = IF missing = {} THEN "copy" ELSE "lock"]
      /\ UNCHANGED <<db, view, lock, tx, page, cache, faults>>
  BY DEF Resolve, Go
<1>3. missing \subseteq new \cup TextsIn(db.text)
  BY DEF TextsIn
<1>4. IsFiniteSet(new)
  BY TextsFinite, FS_Subset DEF Inv
<1>5. missing = {} => Texts(i) \subseteq CachedTexts(i)
  OBVIOUS
<1>6. (Texts(i))' = Texts(i) /\ (CachedTexts(i))' = CachedTexts(i)
  BY <1>2 DEF Texts, CachedTexts
<1>7. missing = Texts(i) \ CachedTexts(i)
  OBVIOUS
<1>. HIDE DEF missing, new
<1>8. TypeInv'
  BY <1>1, <1>2, <1>4 DEF Inv, TypeInv
<1>9. DbInv'
  BY <1>1, <1>2, DbKeeps DEF Inv, TypeInv
<1>10. Frame(i)
  BY <1>1, <1>2 DEF Frame, Inv, TypeInv
<1>11. pc'[i] = (IF missing = {} THEN "copy" ELSE "lock") /\ fresh'[i] = new
       /\ SqlInv(i) /\ FileInv(i) /\ CacheInv(i)
  BY <1>1, <1>2 DEF Inv, TypeInv
<1>12. SqlInv(i)'
  BY <1>2, <1>11 DEF SqlInv
<1>13. FileInv(i)'
  BY <1>2, <1>11, Constants DEF FileInv, Filed
<1>14. CacheInv(i)'
  BY <1>2, <1>3, <1>5, <1>6, <1>7, <1>11 DEF CacheInv
<1>. QED BY <1>1, <1>8, <1>9, <1>10, <1>12, <1>13, <1>14, Assemble

(* A writer of texts takes the lock.                                       *)
LEMMA LockStep ==
    ASSUME Inv, NEW c \in Importer \cup {Trainer}, Lock(c)
    PROVE  Inv'
<1>1. c \in Command /\ c # People
  BY Constants
<1>2. /\ pc[c] = "lock" /\ lock = Unlocked /\ lock' = Sql(c)
      /\ pc' = [pc EXCEPT ![c] = "write"]
      /\ UNCHANGED <<db, view, tx, page, fresh, cache, faults>>
  BY DEF Lock, Go
<1>3. TypeInv'
  BY <1>1, <1>2, Connections DEF Inv, TypeInv
<1>4. DbInv'
  BY <1>1, <1>2, DbKeeps DEF Inv, TypeInv
<1>5. Frame(c)
  BY <1>1, <1>2 DEF Frame, Inv, TypeInv
<1>6. pc'[c] = "write" /\ SqlInv(c) /\ FileInv(c) /\ (c \in Importer => CacheInv(c))
  BY <1>1, <1>2 DEF Inv, TypeInv
<1>7. SqlInv(c)'
  BY <1>2, <1>6 DEF SqlInv
<1>8. FileInv(c)'
  BY <1>1, <1>2, <1>6, Constants DEF FileInv, Filed
<1>9. c \in Importer => CacheInv(c)'
  BY <1>2, <1>6 DEF CacheInv, Texts, CachedTexts
<1>. QED BY <1>1, <1>3, <1>4, <1>5, <1>7, <1>8, <1>9, Assemble

(* Texts and fingerprints.                                                 *)
LEMMA WriteStep ==
    ASSUME Inv, NEW c \in Importer \cup {Trainer}, Write(c)
    PROVE  Inv'
<1>1. c \in Command /\ c # People
  BY Constants
<1>2. /\ pc[c] = "write" /\ WriteRows(c, {t \in db.text : t.text \in fresh[c]})
      /\ pc' = [pc EXCEPT ![c] = "refresh"]
      /\ UNCHANGED <<db, view, lock, page, fresh, cache, faults>>
  BY DEF Write, Go
<1>3. PICK t : /\ tx' = [tx EXCEPT ![Sql(c)] = t] /\ TxRecord(t)
               /\ t.fpOut = {} /\ t.event = {} /\ t.eventOut = {}
               /\ Rows(With(db, t)) /\ fresh[c] \subseteq TextsIn(With(db, t).text)
  BY <1>1, <1>2, WrittenRows DEF Inv, DbInv
<1>4. /\ tx'[Sql(c)] = t /\ DOMAIN tx' = Conn /\ \A n \in Conn : TxRecord(tx'[n])
      /\ \A n \in Conn : n # Sql(c) => tx'[n] = tx[n]
  BY <1>1, <1>3, Connections DEF Inv, TypeInv
<1>5. TypeInv'
  BY <1>1, <1>2, <1>4 DEF Inv, TypeInv
<1>6. DbInv'
  BY <1>1, <1>2, DbKeeps DEF Inv, TypeInv
<1>7. Frame(c)
  BY <1>1, <1>2, <1>4, Connections DEF Frame, Inv, TypeInv
<1>8. /\ pc'[c] = "refresh" /\ SqlInv(c) /\ FileInv(c) /\ (c \in Importer => CacheInv(c))
      /\ tx'[File(c)] = tx[File(c)]
  BY <1>1, <1>2, <1>4, Connections DEF Inv, TypeInv
<1>9. SqlInv(c)'
  BY <1>2, <1>3, <1>4, <1>8 DEF SqlInv
<1>10. FileInv(c)'
  BY <1>1, <1>2, <1>8, Constants DEF FileInv, Filed
<1>11. c \in Importer => CacheInv(c)'
  <2>1. TextsIn(db.text) \subseteq TextsIn(With(db, t).text)
    BY DEF TextsIn, With
  <2>. QED BY <1>2, <1>3, <1>4, <1>8, <2>1 DEF CacheInv, Texts, CachedTexts
<1>. QED BY <1>1, <1>5, <1>6, <1>7, <1>9, <1>10, <1>11, Assemble

(* The refresh of a writer of texts, which has the lock since before it    *)
(* looked for what is there.                                               *)
LEMMA RefreshSqlStep ==
    ASSUME Inv, NEW c \in Importer \cup {Trainer}, RefreshSql(c)
    PROVE  Inv'
<1>1. c \in Command /\ c # People
  BY Constants
<1>2. /\ pc[c] = "refresh" /\ Refresh(Sql(c)) /\ pc' = [pc EXCEPT ![c] = "commit"]
      /\ UNCHANGED <<db, view, page, fresh, cache, faults>>
  BY DEF RefreshSql, Go
<1>3. SqlInv(c) /\ FileInv(c) /\ (c \in Importer => CacheInv(c)) /\ pc'[c] = "commit"
  BY <1>1, <1>2 DEF Inv, TypeInv
<1>4. lock = Sql(c) /\ Rows(With(db, tx[Sql(c)]))
  BY <1>2, <1>3 DEF SqlInv
<1>. DEFINE n == Sql(c)
<1>5. n \in Conn /\ File(c) \in Conn /\ File(c) # n
  BY <1>1, Connections
<1>6. /\ DOMAIN tx' = Conn /\ (\A m \in Conn : TxRecord(tx'[m])) /\ lock' \in Conn \cup {Unlocked}
      /\ \A m \in Conn : m # n => tx'[m] = tx[m]
      /\ With(db, tx'[n]) = With(db, tx[n])
      /\ tx'[n].fpOut = tx[n].fpOut /\ tx'[n].event = tx[n].event
      /\ tx'[n].eventOut = tx[n].eventOut
      /\ Changed(tx'[n]) => tx'[n].view = Derived(With(db, tx'[n]))
      /\ lock' = n
  BY <1>2, <1>4, <1>5, RefreshKeeps
<1>7. TypeInv'
  BY <1>1, <1>2, <1>6 DEF Inv, TypeInv
<1>8. DbInv'
  BY <1>1, <1>2, DbKeeps DEF Inv, TypeInv
<1>9. Frame(c)
  BY <1>1, <1>2, <1>4, <1>6, Connections DEF Frame, Inv, TypeInv
<1>10. SqlInv(c)'
  BY <1>2, <1>3, <1>4, <1>6 DEF SqlInv
<1>11. FileInv(c)'
  BY <1>1, <1>2, <1>3, <1>5, <1>6, Constants DEF FileInv, Filed
<1>12. c \in Importer => CacheInv(c)'
  BY <1>2, <1>3, <1>6 DEF CacheInv, Texts, CachedTexts
<1>. QED BY <1>1, <1>7, <1>8, <1>9, <1>10, <1>11, <1>12, Assemble

(* Its commit; then all texts of the page are in the cache.                *)
LEMMA CommitSqlStep ==
    ASSUME Inv, NEW c \in Importer \cup {Trainer}, CommitSql(c)
    PROVE  Inv'
<1>1. c \in Command /\ c # People
  BY Constants
<1>2. /\ pc[c] = "commit" /\ Commit(Sql(c)) /\ UNCHANGED <<page, fresh, faults>>
      /\ pc' = [pc EXCEPT ![c] = IF c = Trainer THEN "done" ELSE "copy"]
      /\ IF c = Trainer THEN UNCHANGED cache
         ELSE cache' = [cache EXCEPT ![c] =
                 @ \cup {t \in db'.text : t.text \in Texts(c) \ CachedTexts(c)}]
  BY DEF CommitSql, Go
<1>3. /\ SqlInv(c) /\ FileInv(c) /\ (c \in Importer => CacheInv(c))
      /\ pc'[c] = (IF c = Trainer THEN "done" ELSE "copy")
  BY <1>1, <1>2 DEF Inv, TypeInv
<1>. DEFINE n == Sql(c)
<1>4. lock = n /\ Rows(With(db, tx[n])) /\ tx[n].event = {} /\ tx[n].eventOut = {}
      /\ (Changed(tx[n]) => tx[n].view = Derived(With(db, tx[n])))
  BY <1>2, <1>3 DEF SqlInv
<1>5. n \in Conn /\ File(c) \in Conn /\ File(c) # n
  BY <1>1, Connections
<1>6. /\ Rows(db)' /\ (view = Derived(db))'
      /\ db' = With(db, tx[n]) /\ db.text \subseteq db'.text
      /\ tx' = [tx EXCEPT ![n] = NoTx]
      /\ DOMAIN tx' = Conn /\ (\A m \in Conn : TxRecord(tx'[m])) /\ lock' \in Conn \cup {Unlocked}
  BY <1>2, <1>4, <1>5, CommitKeeps
<1>7. db'.event = db.event
  BY <1>4, <1>6 DEF With
<1>8. tx'[n] = NoTx /\ tx'[File(c)] = tx[File(c)] /\ \A m \in Conn : m # n => tx'[m] = tx[m]
  BY <1>5, <1>6 DEF Inv, TypeInv
<1>9. TypeInv'
  BY <1>1, <1>2, <1>6 DEF Inv, TypeInv
<1>10. DbInv'
  BY <1>1, <1>2, <1>6, <1>7 DEF DbInv, Inv, TypeInv
<1>11. Frame(c)
  <2>1. \A d \in Command \ {c} : /\ pc'[d] = pc[d] /\ page'[d] = page[d] /\ fresh'[d] = fresh[d]
                                 /\ cache'[d] = cache[d]
    BY <1>1, <1>2 DEF Inv, TypeInv
  <2>2. \A d \in Command \ {c} : tx'[Sql(d)] = tx[Sql(d)] /\ tx'[File(d)] = tx[File(d)]
    BY <1>1, <1>8, Connections
  <2>. QED BY <1>4, <1>6, <1>7, <2>1, <2>2 DEF Frame
<1>12. SqlInv(c)'
  BY <1>3, <1>8 DEF SqlInv
<1>13. FileInv(c)'
  <2>1. c \in Importer => Filed(c)'
    BY <1>2, <1>3, <1>6, <1>8 DEF FileInv, Filed
  <2>2. c = Trainer \/ pc'[c] = "done" => tx[File(c)] = NoTx
    BY <1>3 DEF FileInv
  <2>. QED BY <1>1, <1>3, <1>8, <2>1, <2>2 DEF FileInv
<1>14. c \in Importer => CacheInv(c)'
  <2>1. SUFFICES ASSUME c \in Importer PROVE CacheInv(c)'
    OBVIOUS
  <2>2. cache'[c] = cache[c] \cup {t \in db'.text : t.text \in Texts(c) \ CachedTexts(c)}
    BY <1>1, <1>2, <2>1, Constants DEF Inv, TypeInv
  <2>3. cache'[c] \subseteq db'.text
    BY <1>3, <1>6, <2>1, <2>2 DEF CacheInv
  <2>4. Texts(c)' = Texts(c)
    BY <1>2 DEF Texts
  <2>5. Texts(c) \ CachedTexts(c) \subseteq TextsIn(db'.text)
    BY <1>2, <1>3, <1>6, <2>1 DEF CacheInv
  <2>6. ASSUME NEW a \in Texts(c) PROVE a \in CachedTexts(c)'
    <3>1. CASE a \in CachedTexts(c)
      BY <2>2, <3>1 DEF CachedTexts
    <3>2. CASE a \notin CachedTexts(c)
      <4>1. PICK t \in db'.text : t.text = a
        BY <2>5, <3>2 DEF TextsIn
      <4>2. t \in cache'[c]
        BY <2>2, <3>2, <4>1
      <4>. QED BY <4>1, <4>2 DEF CachedTexts
    <3>. QED BY <3>1, <3>2
  <2>7. pc'[c] = "copy"
    BY <1>3, <2>1, Constants
  <2>. QED BY <2>3, <2>4, <2>6, <2>7 DEF CacheInv
<1>. QED BY <1>1, <1>9, <1>10, <1>11, <1>12, <1>13, <1>14, Assemble

(* The refresh of a file, or of what people changed, takes the lock only   *)
(* now.                                                                    *)
LEMMA RefreshFileStep ==
    ASSUME Inv, NEW c \in Importer \cup {People}, RefreshFile(c)
    PROVE  Inv'
<1>1. c \in Command /\ c # Trainer
  BY Constants
<1>2. /\ pc[c] = "refreshFile" /\ Refresh(File(c)) /\ pc' = [pc EXCEPT ![c] = "commitFile"]
      /\ UNCHANGED <<db, view, page, fresh, cache, faults>>
  BY DEF RefreshFile, Go
<1>3. SqlInv(c) /\ FileInv(c) /\ (c \in Importer => CacheInv(c)) /\ pc'[c] = "commitFile"
  BY <1>1, <1>2 DEF Inv, TypeInv
<1>. DEFINE n == File(c)
<1>4. n \in Conn /\ Sql(c) \in Conn /\ Sql(c) # n
  BY <1>1, Connections
<1>5. Rows(With(db, tx[n]))
  <2>1. CASE c \in Importer
    BY <1>2, <1>3, <2>1, FiledRows DEF Inv, FileInv
  <2>2. CASE c = People
    BY <1>2, <1>3, <2>2, EditedEventRows, EditedFingerprintRows DEF Inv, DbInv, FileInv
  <2>. QED BY <2>1, <2>2
<1>6. /\ DOMAIN tx' = Conn /\ (\A m \in Conn : TxRecord(tx'[m])) /\ lock' \in Conn \cup {Unlocked}
      /\ \A m \in Conn : m # n => tx'[m] = tx[m]
      /\ tx'[n].text = tx[n].text /\ tx'[n].fp = tx[n].fp /\ tx'[n].fpOut = tx[n].fpOut
      /\ tx'[n].event = tx[n].event /\ tx'[n].eventOut = tx[n].eventOut
      /\ Changed(tx'[n]) => lock' = n /\ tx'[n].view = Derived(With(db, tx'[n]))
      /\ lock' = lock \/ lock \in {Unlocked, n}
      /\ (lock = n => lock' = n)
  BY <1>2, <1>4, <1>5, RefreshKeeps
<1>7. TypeInv'
  BY <1>1, <1>2, <1>6 DEF Inv, TypeInv
<1>8. DbInv'
  BY <1>1, <1>2, DbKeeps DEF Inv, TypeInv
<1>9. Frame(c)
  BY <1>1, <1>2, <1>6, Connections DEF Frame, Inv, TypeInv
<1>10. SqlInv(c)'
  BY <1>2, <1>3, <1>4, <1>6 DEF SqlInv
<1>11. FileInv(c)'
  <2>1. c \in Importer => Filed(c)'
    BY <1>2, <1>3, <1>6 DEF FileInv, Filed
  <2>2. c = People => (EditedEvent(tx[n]) \/ EditedFingerprint(tx[n]))'
    BY <1>2, <1>3, <1>6 DEF FileInv, EditedEvent, EditedFingerprint
  <2>. QED BY <1>1, <1>2, <1>3, <1>6, <2>1, <2>2 DEF FileInv
<1>12. c \in Importer => CacheInv(c)'
  BY <1>2, <1>3 DEF CacheInv
<1>. QED BY <1>1, <1>7, <1>8, <1>9, <1>10, <1>11, <1>12, Assemble

(* The commit of a file, or of what people changed.                        *)
LEMMA CommitFileStep ==
    ASSUME Inv, NEW c \in Importer \cup {People}, CommitFile(c)
    PROVE  Inv'
<1>1. c \in Command /\ c # Trainer
  BY Constants
<1>2. /\ pc[c] = "commitFile" /\ Commit(File(c)) /\ UNCHANGED <<page, fresh, cache, faults>>
      /\ pc' = [pc EXCEPT ![c] = "done"]
  BY DEF CommitFile, Go
<1>3. SqlInv(c) /\ FileInv(c) /\ (c \in Importer => CacheInv(c)) /\ pc'[c] = "done"
  BY <1>1, <1>2 DEF Inv, TypeInv
<1>. DEFINE n == File(c)
<1>4. n \in Conn /\ Sql(c) \in Conn /\ Sql(c) # n
  BY <1>1, Connections
<1>5. Rows(With(db, tx[n]))
  <2>1. CASE c \in Importer
    BY <1>2, <1>3, <2>1, FiledRows DEF Inv, FileInv
  <2>2. CASE c = People
    BY <1>2, <1>3, <2>2, EditedEventRows, EditedFingerprintRows DEF Inv, DbInv, FileInv
  <2>. QED BY <2>1, <2>2
<1>6. Changed(tx[n]) => lock = n /\ tx[n].view = Derived(With(db, tx[n]))
  BY <1>2, <1>3 DEF FileInv
<1>7. /\ Rows(db)' /\ (view = Derived(db))'
      /\ db' = With(db, tx[n]) /\ db.text \subseteq db'.text
      /\ tx' = [tx EXCEPT ![n] = NoTx]
      /\ DOMAIN tx' = Conn /\ (\A m \in Conn : TxRecord(tx'[m])) /\ lock' \in Conn \cup {Unlocked}
      /\ \/ db' = db /\ (lock' = lock \/ lock = n)
         \/ lock = n
  BY <1>2, <1>4, <1>5, <1>6, CommitKeeps
<1>8. tx'[n] = NoTx /\ tx'[Sql(c)] = tx[Sql(c)] /\ \A m \in Conn : m # n => tx'[m] = tx[m]
  BY <1>4, <1>7 DEF Inv, TypeInv
<1>9. TypeInv'
  BY <1>1, <1>2, <1>7 DEF Inv, TypeInv
<1>10. \A i \in Importer : pc[i] = "done" => pc'[i] = "done"
  BY <1>1, <1>2, Constants DEF Inv, TypeInv
<1>11. c # People => db.event \subseteq db'.event
  BY <1>3, <1>7 DEF With, FileInv, Filed
<1>12. \A e \in db'.event : \E i \in Importer :
          pc'[i] = "done" /\ \E o \in Event : Owns(i, o) /\ o.id = e.id
  <2>1. SUFFICES ASSUME NEW e \in db'.event
                 PROVE  \E i \in Importer :
                           pc'[i] = "done" /\ \E o \in Event : Owns(i, o) /\ o.id = e.id
    OBVIOUS
  <2>2. \/ \E g \in db.event : g.id = e.id
        \/ c \in Importer /\ e \in tx[n].event
    <3>1. CASE e \in db.event
      BY <3>1
    <3>2. CASE e \notin db.event
      <4>1. e \in tx[n].event
        BY <1>7, <2>1, <3>2 DEF With
      <4>2. CASE c = People
        <5>1. EditedEvent(tx[n])
          BY <1>2, <1>3, <4>1, <4>2 DEF FileInv, EditedFingerprint
        <5>2. PICK g \in db.event : tx[n].event \subseteq {[g EXCEPT !.end = LaterEnd]}
          BY <5>1 DEF EditedEvent
        <5>3. g = [id |-> g.id, scope |-> g.scope, end |-> g.end, sid |-> g.sid]
          BY DEF Inv, DbInv, Rows
        <5>4. [g EXCEPT !.end = LaterEnd].id = g.id
          BY <5>3
        <5>. QED BY <4>1, <5>2, <5>4
      <4>. QED BY <4>1, <4>2
    <3>. QED BY <3>1, <3>2
  <2>3. CASE \E g \in db.event : g.id = e.id
    BY <1>10, <2>3 DEF Inv, DbInv
  <2>4. CASE c \in Importer /\ e \in tx[n].event
    <3>1. \E o \in Event : Owns(c, o) /\ o.id = e.id
      BY <1>3, <2>4, Constants DEF FileInv, Filed, Owns
    <3>. QED BY <1>3, <2>4, <3>1
  <2>. QED BY <2>2, <2>3, <2>4
<1>13. DbInv'
  BY <1>7, <1>12 DEF DbInv
<1>14. Frame(c)
  <2>1. \A d \in Command \ {c} : /\ pc'[d] = pc[d] /\ page'[d] = page[d] /\ fresh'[d] = fresh[d]
                                 /\ cache'[d] = cache[d]
    BY <1>1, <1>2 DEF Inv, TypeInv
  <2>2. \A d \in Command \ {c} : tx'[Sql(d)] = tx[Sql(d)] /\ tx'[File(d)] = tx[File(d)]
    BY <1>1, <1>8, Connections
  <2>. QED BY <1>7, <1>11, <2>1, <2>2 DEF Frame
<1>15. SqlInv(c)'
  BY <1>2, <1>3, <1>8 DEF SqlInv
<1>16. FileInv(c)'
  BY <1>3, <1>8, NoTxIs, FS_EmptySet DEF FileInv, Filed
<1>17. c \in Importer => CacheInv(c)'
  BY <1>2, <1>3, <1>7 DEF CacheInv
<1>. QED BY <1>1, <1>9, <1>13, <1>14, <1>15, <1>16, <1>17, Assemble

(* The rows that a page adds to the file: each has the row of its text. *)
LEMMA CopiedRows ==
    ASSUME Inv, NEW i \in Importer, pc[i] = "copy"
    PROVE  /\ IsFiniteSet(Copied(i))
           /\ \A e \in Copied(i) :
                 /\ e = [id |-> e.id, scope |-> e.scope, end |-> e.end, sid |-> e.sid]
                 /\ e.end \in Nat \cup {None}
                 /\ \E o \in Pages[i][page[i]], t \in db.text :
                       o.id = e.id /\ t.sid = e.sid /\ t.text = o.text
           /\ \A e, g \in Copied(i) : e.id = g.id => e = g
<1>. DEFINE P      == Pages[i][page[i]]
            Row(o) == [id |-> o.id, scope |-> i, end |-> o.end,
                       sid |-> (CHOOSE t \in cache[i] : t.text = o.text).sid]
<1>1. Copied(i) = {Row(o) : o \in P}
  BY DEF Copied
<1>2. page[i] \in DOMAIN Pages[i] /\ IsFiniteSet(P) /\ P \subseteq Event
  BY Constants DEF Inv, TypeInv
<1>3. cache[i] \subseteq db.text /\ Texts(i) \subseteq CachedTexts(i)
  BY DEF Inv, CacheInv
<1>4. \A o, p \in P : o.id = p.id => o = p
  BY <1>2, Constants
<1>5. \A o \in P : o.end \in Nat \cup {None}
  BY <1>2, Constants
<1>6. \A o \in P : o.text \in CachedTexts(i)
  BY <1>3 DEF Texts
<1>. HIDE DEF P
<1>7. IsFiniteSet(Copied(i))
  <2>. DEFINE f == [o \in P |-> Row(o)]
  <2>1. f \in Surjection(P, Copied(i))
    BY <1>1 DEF Surjection
  <2>. HIDE DEF f
  <2>. QED BY <1>2, <2>1, FS_Surjection
<1>8. \A e \in Copied(i) : \E o \in P : e = Row(o)
  BY <1>1
<1>9. ASSUME NEW o \in P
      PROVE  \E t \in db.text : t.sid = Row(o).sid /\ t.text = o.text
  <2>1. \E t \in cache[i] : t.text = o.text
    BY <1>6 DEF CachedTexts
  <2>. DEFINE u == CHOOSE t \in cache[i] : t.text = o.text
  <2>2. u \in cache[i] /\ u.text = o.text
    BY <2>1
  <2>3. Row(o).sid = u.sid
    OBVIOUS
  <2>. HIDE DEF u, Row
  <2>. QED BY <1>3, <2>2, <2>3
<1>10. \A o \in P : /\ Row(o).id = o.id /\ Row(o).end = o.end
                    /\ Row(o) = [id |-> Row(o).id, scope |-> Row(o).scope, end |-> Row(o).end,
                                 sid |-> Row(o).sid]
  OBVIOUS
<1>. HIDE DEF Row
<1>11. ASSUME NEW e \in Copied(i)
       PROVE  /\ e = [id |-> e.id, scope |-> e.scope, end |-> e.end, sid |-> e.sid]
              /\ e.end \in Nat \cup {None}
              /\ \E o \in P, t \in db.text : o.id = e.id /\ t.sid = e.sid /\ t.text = o.text
  <2>1. PICK o \in P : e = Row(o)
    BY <1>8
  <2>2. PICK t \in db.text : t.sid = Row(o).sid /\ t.text = o.text
    BY <1>9
  <2>3. e = [id |-> e.id, scope |-> e.scope, end |-> e.end, sid |-> e.sid]
    BY <1>10, <2>1, Zenon
  <2>4. e.end \in Nat \cup {None} /\ o.id = e.id /\ t.sid = e.sid
    BY <1>5, <1>10, <2>1, <2>2
  <2>. QED BY <2>2, <2>3, <2>4
<1>12. \A e, g \in Copied(i) : e.id = g.id => e = g
  BY <1>4, <1>8, <1>10
<1>. QED BY <1>7, <1>11, <1>12 DEF P

(* The events of a page.                                                   *)
LEMMA CopyStep ==
    ASSUME Inv, NEW i \in Importer, Copy(i)
    PROVE  Inv'
<1>1. i \in Command /\ i # People /\ i # Trainer
  BY Constants
<1>. DEFINE n == File(i)
<1>2. /\ pc[i] = "copy"
      /\ tx' = [tx EXCEPT ![n].event = @ \cup Copied(i)]
      /\ UNCHANGED <<db, view, lock, fresh, cache, faults>>
      /\ \/ page[i] = Len(Pages[i]) /\ pc' = [pc EXCEPT ![i] = "refreshFile"] /\ page' = page
         \/ /\ page[i] # Len(Pages[i]) /\ pc' = [pc EXCEPT ![i] = "resolve"]
            /\ page' = [page EXCEPT ![i] = @ + 1]
  BY DEF Copy, NextPage, Go
<1>3. n \in Conn /\ Sql(i) \in Conn /\ Sql(i) # n
  BY <1>1, Connections
<1>4. /\ SqlInv(i) /\ FileInv(i) /\ CacheInv(i) /\ Filed(i)
      /\ pc'[i] \in {"refreshFile", "resolve"}
  BY <1>1, <1>2 DEF Inv, TypeInv, FileInv
<1>5. /\ DOMAIN tx' = Conn /\ (\A m \in Conn : TxRecord(tx'[m]))
      /\ (\A m \in Conn : m # n => tx'[m] = tx[m])
      /\ tx'[n].text = tx[n].text /\ tx'[n].fp = tx[n].fp /\ tx'[n].fpOut = tx[n].fpOut
      /\ tx'[n].event = tx[n].event \cup Copied(i) /\ tx'[n].eventOut = tx[n].eventOut
  BY <1>2, <1>3 DEF Inv, TypeInv, TxRecord
<1>6. /\ page[i] \in 1..Len(Pages[i]) /\ DOMAIN Pages[i] = 1..Len(Pages[i])
      /\ Len(Pages[i]) \in Nat
  BY Constants DEF Inv, TypeInv
<1>7. /\ DOMAIN page' = Command /\ \A j \in Importer : j # i => page'[j] = page[j]
      /\ page'[i] \in DOMAIN Pages[i]
      /\ \A k \in DOMAIN Pages[i] :
            k <= page[i] => k < page'[i] \/ pc'[i] \in {"refreshFile", "commitFile"}
  <2>1. DOMAIN page = Command /\ DOMAIN pc = Command
    BY DEF Inv, TypeInv
  <2>2. CASE page[i] = Len(Pages[i])
    BY <1>1, <1>2, <1>6, <2>1, <2>2
  <2>3. CASE page[i] # Len(Pages[i])
    <3>1. page' = [page EXCEPT ![i] = page[i] + 1]
      BY <1>2, <2>3
    <3>2. DOMAIN page' = Command /\ page'[i] = page[i] + 1
          /\ \A j \in Importer : j # i => page'[j] = page[j]
      BY <1>1, <2>1, <3>1
    <3>. QED BY <1>6, <2>3, <3>2
  <2>. QED BY <2>2, <2>3
<1>8. DOMAIN pc' = Command /\ \A j \in Command : j # i => pc'[j] = pc[j]
  BY <1>2 DEF Inv, TypeInv
<1>9. TypeInv'
  BY <1>1, <1>2, <1>5, <1>7, <1>8 DEF Inv, TypeInv
<1>10. DbInv'
  BY <1>2, <1>8, Constants, DbKeeps DEF Inv
<1>11. Frame(i)
  <2>1. \A d \in Command \ {i} : /\ pc'[d] = pc[d] /\ page'[d] = page[d] /\ fresh'[d] = fresh[d]
                                 /\ cache'[d] = cache[d]
    BY <1>1, <1>2 DEF Inv, TypeInv
  <2>2. \A d \in Command \ {i} : tx'[Sql(d)] = tx[Sql(d)] /\ tx'[File(d)] = tx[File(d)]
    BY <1>1, <1>5, Connections
  <2>. QED BY <1>2, <2>1, <2>2 DEF Frame
<1>12. SqlInv(i)'
  BY <1>2, <1>3, <1>4, <1>5 DEF SqlInv
<1>. DEFINE Of(k, e) == \E o \in Pages[i][k], t \in db.text :
                           o.id = e.id /\ t.sid = e.sid /\ t.text = o.text
<1>13. \A e \in Copied(i) : Of(page[i], e)
  BY <1>2, CopiedRows
<1>14. \A e \in tx[n].event : \E k \in DOMAIN Pages[i] : k < page[i] /\ Of(k, e)
  BY <1>2, <1>4 DEF Filed
<1>15. \A e \in tx'[n].event : \E k \in DOMAIN Pages[i] : k <= page[i] /\ Of(k, e)
  BY <1>5, <1>6, <1>13, <1>14
<1>16. \A k, m \in DOMAIN Pages[i] : \A e, g : Of(k, e) /\ Of(m, g) /\ e.id = g.id => k = m
  BY Constants
<1>17. \A e, g \in tx'[n].event : e.id = g.id => e = g
  <2>1. SUFFICES ASSUME NEW e \in tx'[n].event, NEW g \in tx'[n].event, e.id = g.id PROVE e = g
    OBVIOUS
  <2>. HIDE DEF Of
  <2>2. CASE e \in tx[n].event /\ g \in tx[n].event
    BY <1>4, <2>1, <2>2 DEF Filed
  <2>3. CASE e \in Copied(i) /\ g \in Copied(i)
    BY <1>2, <2>1, <2>3, CopiedRows
  <2>4. ASSUME NEW x \in tx[n].event, NEW y \in Copied(i), x.id = y.id PROVE FALSE
    <3>1. PICK k \in DOMAIN Pages[i] : k < page[i] /\ Of(k, x)
      BY <1>14
    <3>2. k = page[i]
      BY <1>6, <1>13, <1>16, <2>4, <3>1
    <3>. QED BY <1>6, <3>1, <3>2
  <2>. QED BY <1>5, <2>1, <2>2, <2>3, <2>4
<1>18. IsFiniteSet(tx'[n].event)
  <2>1. IsFiniteSet(Copied(i)) /\ IsFiniteSet(tx[n].event)
    BY <1>2, <1>4, CopiedRows DEF Filed
  <2>2. tx'[n].event = tx[n].event \cup Copied(i)
    BY <1>5
  <2>. DEFINE before == tx[n].event
              these  == Copied(i)
  <2>3. IsFiniteSet(before \cup these)
    <3>1. IsFiniteSet(before) /\ IsFiniteSet(these)
      BY <2>1
    <3>. HIDE DEF before, these
    <3>. QED BY <3>1, FS_Union
  <2>. QED BY <2>2, <2>3, Zenon
<1>19. \A e \in tx'[n].event :
          /\ e = [id |-> e.id, scope |-> e.scope, end |-> e.end, sid |-> e.sid]
          /\ e.end \in Nat \cup {None}
  <2>1. \A e \in tx[n].event :
          /\ e = [id |-> e.id, scope |-> e.scope, end |-> e.end, sid |-> e.sid]
          /\ e.end \in Nat \cup {None}
    BY <1>4 DEF Filed
  <2>2. \A e \in Copied(i) :
          /\ e = [id |-> e.id, scope |-> e.scope, end |-> e.end, sid |-> e.sid]
          /\ e.end \in Nat \cup {None}
    BY <1>2, CopiedRows
  <2>. QED BY <1>5, <2>1, <2>2
<1>20. ASSUME NEW e \in tx'[n].event
       PROVE  \E k \in DOMAIN Pages[i] : \E o \in Pages[i][k], t \in db.text :
                 /\ o.id = e.id /\ t.sid = e.sid /\ t.text = o.text
                 /\ k < page'[i] \/ pc'[i] \in {"refreshFile", "commitFile"}
  <2>1. PICK k \in DOMAIN Pages[i] : k <= page[i] /\ Of(k, e)
    BY <1>15
  <2>2. k < page'[i] \/ pc'[i] \in {"refreshFile", "commitFile"}
    BY <1>7, <2>1
  <2>. QED BY <2>1, <2>2
<1>. HIDE DEF Of
<1>21. Filed(i)'
  <2>1. db' = db
    BY <1>2
  <2>2. tx'[n].text = {} /\ tx'[n].fp = {} /\ tx'[n].fpOut = {} /\ tx'[n].eventOut = {}
    BY <1>4, <1>5 DEF Filed
  <2>. QED BY <1>17, <1>18, <1>19, <1>20, <2>1, <2>2 DEF Filed
<1>22. FileInv(i)'
  BY <1>1, <1>4, <1>21 DEF FileInv
<1>23. CacheInv(i)'
  BY <1>2, <1>4 DEF CacheInv
<1>. QED BY <1>1, <1>9, <1>10, <1>11, <1>12, <1>22, <1>23, Assemble

(* The training command.                                                   *)
LEMMA SelectStep ==
    ASSUME Inv, Select
    PROVE  Inv'
<1>1. Trainer \in Command /\ Trainer # People /\ Trainer \notin Importer
  BY Constants
<1>. DEFINE c == Trainer
            needed == {t \in db.text : /\ \E e \in db.event : e.sid = t.sid
                                       /\ ~\E f \in db.fp : /\ f.sid = t.sid
                                                             /\ f.rule = RuleOf[Trainer]}
            new == {t.text : t \in needed}
<1>2. /\ pc[c] = "idle" /\ fresh' = [fresh EXCEPT ![c] = new]
      /\ pc' = [pc EXCEPT ![c] = IF needed = {} THEN "done" ELSE "lock"]
      /\ UNCHANGED <<db, view, lock, tx, page, cache, faults>>
  BY DEF Select, Go
<1>3. IsFiniteSet(new)
  <2>. DEFINE f == [t \in needed |-> t.text]
  <2>1. f \in Surjection(needed, new)
    BY DEF Surjection
  <2>2. IsFiniteSet(needed)
    BY FS_Subset DEF Inv, DbInv, Rows
  <2>. HIDE DEF f, needed, new
  <2>. QED BY <2>1, <2>2, FS_Surjection
<1>. HIDE DEF needed, new
<1>4. TypeInv'
  BY <1>1, <1>2, <1>3 DEF Inv, TypeInv
<1>5. DbInv'
  BY <1>1, <1>2, DbKeeps DEF Inv, TypeInv
<1>6. Frame(c)
  BY <1>1, <1>2 DEF Frame, Inv, TypeInv
<1>7. SqlInv(c) /\ FileInv(c) /\ pc'[c] \in {"done", "lock"}
  BY <1>1, <1>2 DEF Inv, TypeInv
<1>8. SqlInv(c)'
  BY <1>2, <1>7 DEF SqlInv
<1>9. FileInv(c)'
  BY <1>1, <1>2, <1>7 DEF FileInv
<1>. QED BY <1>1, <1>4, <1>5, <1>6, <1>8, <1>9, Assemble

(* What people change: one row goes, or another takes its place. *)
LEMMA EditStep ==
    ASSUME Inv, pc[People] = "idle", NEW t, TxRecord(t),
           tx' = [tx EXCEPT ![File(People)] = t],
           pc' = [pc EXCEPT ![People] = "refreshFile"],
           lock' = lock \/ (lock = Unlocked /\ lock' = File(People)),
           EditedEvent(t) \/ (EditedFingerprint(t))',
           UNCHANGED <<db, view, page, fresh, cache, faults>>
    PROVE  Inv'
<1>1. People \in Command /\ People # Trainer /\ People \notin Importer
  BY Constants
<1>. DEFINE c == People
            n == File(c)
<1>2. n \in Conn /\ Sql(c) \in Conn /\ Sql(c) # n
  BY <1>1, Connections
<1>3. /\ DOMAIN tx' = Conn /\ (\A m \in Conn : TxRecord(tx'[m])) /\ tx'[n] = t
      /\ \A m \in Conn : m # n => tx'[m] = tx[m]
  BY <1>2 DEF Inv, TypeInv
<1>4. TypeInv'
  BY <1>1, <1>2, <1>3 DEF Inv, TypeInv
<1>5. DbInv'
  BY <1>1, DbKeeps DEF Inv, TypeInv
<1>6. Frame(c)
  <2>1. \A d \in Command \ {c} : /\ pc'[d] = pc[d] /\ page'[d] = page[d] /\ fresh'[d] = fresh[d]
                                 /\ cache'[d] = cache[d]
    BY <1>1 DEF Inv, TypeInv
  <2>2. \A d \in Command \ {c} : tx'[Sql(d)] = tx[Sql(d)] /\ tx'[File(d)] = tx[File(d)]
    BY <1>1, <1>3, Connections
  <2>. QED BY <2>1, <2>2 DEF Frame
<1>7. SqlInv(c) /\ pc'[c] = "refreshFile"
  BY <1>1 DEF Inv, TypeInv
<1>8. SqlInv(c)'
  BY <1>2, <1>3, <1>7 DEF SqlInv
<1>9. FileInv(c)'
  BY <1>1, <1>3, <1>7 DEF FileInv, EditedEvent, EditedFingerprint
<1>. QED BY <1>1, <1>4, <1>5, <1>6, <1>8, <1>9, Assemble

(* People change an event.                                                 *)
LEMMA EditEventStep ==
    ASSUME Inv, EditEvent
    PROVE  Inv'
<1>1. PICK e \in db.event : \E to \in {{}, {[e EXCEPT !.end = LaterEnd]}} :
         tx' = [tx EXCEPT ![File(People)] = [NoTx EXCEPT !.eventOut = {e}, !.event = to]]
  BY DEF EditEvent
<1>2. PICK to \in {{}, {[e EXCEPT !.end = LaterEnd]}} :
         tx' = [tx EXCEPT ![File(People)] = [NoTx EXCEPT !.eventOut = {e}, !.event = to]]
  BY <1>1
<1>. DEFINE t == [NoTx EXCEPT !.eventOut = {e}, !.event = to]
<1>3. /\ TxRecord(t) /\ t.text = {} /\ t.fp = {} /\ t.fpOut = {}
      /\ t.eventOut = {e} /\ t.event = to
  BY DEF TxRecord, NoTx
<1>4. to \subseteq {[e EXCEPT !.end = LaterEnd]}
  OBVIOUS
<1>5. tx' = [tx EXCEPT ![File(People)] = t]
  BY <1>2
<1>. HIDE DEF t
<1>6. EditedEvent(t)
  BY <1>3, <1>4 DEF EditedEvent
<1>. QED BY <1>3, <1>5, <1>6, EditStep DEF EditEvent, Go

(* People change a fingerprint.                                            *)
LEMMA EditFingerprintStep ==
    ASSUME Inv, EditFingerprint
    PROVE  Inv'
<1>1. PICK f \in db.fp : \E to \in {{}, {[f EXCEPT !.value = Unreliable]}} :
         tx' = [tx EXCEPT ![File(People)] = [NoTx EXCEPT !.fpOut = {f}, !.fp = to]]
  BY DEF EditFingerprint
<1>2. PICK to \in {{}, {[f EXCEPT !.value = Unreliable]}} :
         tx' = [tx EXCEPT ![File(People)] = [NoTx EXCEPT !.fpOut = {f}, !.fp = to]]
  BY <1>1
<1>. DEFINE t == [NoTx EXCEPT !.fpOut = {f}, !.fp = to]
<1>3. /\ TxRecord(t) /\ t.text = {} /\ t.event = {} /\ t.eventOut = {}
      /\ t.fpOut = {f} /\ t.fp = to
  BY DEF TxRecord, NoTx
<1>4. to \subseteq {[f EXCEPT !.value = Unreliable]}
  OBVIOUS
<1>5. tx' = [tx EXCEPT ![File(People)] = t]
  BY <1>2
<1>. HIDE DEF t
<1>6. /\ pc[People] = "idle" /\ lock = Unlocked /\ lock' = File(People)
      /\ pc' = [pc EXCEPT ![People] = "refreshFile"]
      /\ UNCHANGED <<db, view, page, fresh, cache, faults>>
  BY DEF EditFingerprint, Go
<1>7. (EditedFingerprint(t))'
  BY <1>3, <1>4, <1>6 DEF EditedFingerprint
<1>. QED BY <1>3, <1>5, <1>6, <1>7, EditStep

(* Both transactions are rolled back.                                      *)
LEMMA FailStep ==
    ASSUME Inv, NEW c \in Command, Fail(c)
    PROVE  Inv'
<1>1. /\ pc[c] \notin {"idle", "done"} /\ pc' = [pc EXCEPT ![c] = "idle"]
      /\ tx' = [tx EXCEPT ![File(c)] = NoTx, ![Sql(c)] = NoTx]
      /\ lock' = (IF lock \in {File(c), Sql(c)} THEN Unlocked ELSE lock)
      /\ (\E kept \in {cache[c], {}} : cache' = [cache EXCEPT ![c] = kept])
      /\ fresh' = [fresh EXCEPT ![c] = {}]
      /\ UNCHANGED <<db, view, page>>
  BY DEF Fail, Go
<1>2. File(c) \in Conn /\ Sql(c) \in Conn /\ Sql(c) # File(c)
  BY Connections
<1>3. /\ DOMAIN tx' = Conn /\ (\A m \in Conn : TxRecord(tx'[m]))
      /\ tx'[File(c)] = NoTx /\ tx'[Sql(c)] = NoTx
      /\ \A m \in Conn : m \notin {File(c), Sql(c)} => tx'[m] = tx[m]
  BY <1>1, <1>2, NoTxIs DEF Inv, TypeInv
<1>4. DOMAIN cache' = Command /\ cache'[c] \in {cache[c], {}}
      /\ \A d \in Command : d # c => cache'[d] = cache[d]
  BY <1>1 DEF Inv, TypeInv
<1>5. TypeInv'
  BY <1>1, <1>3, <1>4, FS_EmptySet DEF Inv, TypeInv
<1>6. DbInv'
  <2>1. \A i \in Importer : pc[i] = "done" => pc'[i] = "done"
    BY <1>1, Constants DEF Inv, TypeInv
  <2>. QED BY <1>1, <2>1, DbKeeps DEF Inv
<1>7. Frame(c)
  <2>1. \A d \in Command \ {c} : /\ pc'[d] = pc[d] /\ page'[d] = page[d] /\ fresh'[d] = fresh[d]
                                 /\ cache'[d] = cache[d]
    BY <1>1, <1>4 DEF Inv, TypeInv
  <2>2. \A d \in Command \ {c} : tx'[Sql(d)] = tx[Sql(d)] /\ tx'[File(d)] = tx[File(d)]
    BY <1>3, Connections
  <2>. QED BY <1>1, <2>1, <2>2 DEF Frame
<1>8. SqlInv(c) /\ FileInv(c) /\ pc'[c] = "idle"
  BY <1>1 DEF Inv, TypeInv
<1>9. SqlInv(c)'
  BY <1>3, <1>8 DEF SqlInv
<1>10. FileInv(c)'
  BY <1>3, <1>8, NoTxIs, FS_EmptySet DEF FileInv, Filed
<1>11. c \in Importer => CacheInv(c)'
  BY <1>1, <1>4, <1>8 DEF CacheInv, Inv
<1>. QED BY <1>5, <1>6, <1>7, <1>9, <1>10, <1>11, Assemble

-----------------------------------------------------------------------------
(* The theorems about QueryProjection.                                     *)

(* Nothing is derived from empty tables. *)
LEMMA NothingDerived == Derived([text |-> {}, fp |-> {}, event |-> {}]) = Empty
<1>. DEFINE d == [text |-> {}, fp |-> {}, event |-> {}]
<1>1. Sound(d)
  BY FS_EmptySet DEF Sound
<1>2. Reliable(d.fp) = {}
  BY DEF Reliable
<1>3. RecordsOf(d) = {}
  <2>1. Pairs(Reliable(d.fp), d.event) = {}
    BY <1>2 DEF Pairs
  <2>. QED BY <2>1 DEF RecordsOf, Records
<1>4. Groups({}) = NoTable
  BY DEF Groups, NoTable
<1>5. ByIdentity({}) = NoTable /\ ByText({}) = NoTable
  BY DEF ByIdentity, ByText, NoTable
<1>6. Derived(d) = [member |-> {}, structure |-> NoTable, record |-> {},
                    identity |-> NoTable, text |-> NoTable]
  <2>. HIDE DEF d
  <2>. QED BY <1>1, <1>2, <1>3, <1>4, <1>5, DerivedIs
<1>. QED BY <1>6 DEF Empty

(* There is nothing yet.                                                   *)
LEMMA InitInv == Init => Inv
<1>1. SUFFICES ASSUME Init PROVE Inv
  OBVIOUS
<1>2. TypeInv
  BY <1>1, Constants, NoTxIs, FS_EmptySet DEF Init, TypeInv
<1>3. db = [text |-> {}, fp |-> {}, event |-> {}]
  BY <1>1 DEF Init
<1>4. db.text = {} /\ db.fp = {} /\ db.event = {}
  BY <1>3
<1>5. Rows(db)
  BY <1>3, <1>4, FS_EmptySet DEF Rows, Sound
<1>6. view = Derived(db)
  <2>1. view = Empty
    BY <1>1 DEF Init
  <2>. QED BY <1>3, <2>1, NothingDerived
<1>7. DbInv
  BY <1>4, <1>5, <1>6 DEF DbInv
<1>8. ASSUME NEW c \in Command
      PROVE  pc[c] = "idle" /\ tx[File(c)] = NoTx /\ tx[Sql(c)] = NoTx /\ cache[c] = {}
  BY <1>1, Connections DEF Init
<1>9. ASSUME NEW c \in Command PROVE SqlInv(c)
  BY <1>8 DEF SqlInv
<1>10. ASSUME NEW c \in Command PROVE FileInv(c)
  BY <1>8, NoTxIs, FS_EmptySet DEF FileInv, Filed
<1>11. ASSUME NEW i \in Importer PROVE CacheInv(i)
  BY <1>8, Constants DEF CacheInv
<1>. QED BY <1>2, <1>7, <1>9, <1>10, <1>11 DEF Inv

(* Every step keeps Inv.                                                   *)
LEMMA NextInv == Inv /\ [Next]_vars => Inv'
<1>1. SUFFICES ASSUME Inv, [Next]_vars PROVE Inv'
  OBVIOUS
<1>2. ASSUME NEW i \in Importer, Import(i) PROVE Inv'
  BY <1>1, <1>2, StartFileStep, ResolveStep, LockStep, WriteStep, RefreshSqlStep, CommitSqlStep,
     CopyStep, RefreshFileStep, CommitFileStep DEF Import
<1>3. ASSUME Prepare PROVE Inv'
  BY <1>1, <1>3, SelectStep, LockStep, WriteStep, RefreshSqlStep, CommitSqlStep DEF Prepare
<1>4. ASSUME Maintain PROVE Inv'
  BY <1>1, <1>4, EditEventStep, EditFingerprintStep, RefreshFileStep, CommitFileStep
     DEF Maintain
<1>5. ASSUME NEW c \in Command, Fail(c) PROVE Inv'
  BY <1>1, <1>5, FailStep
<1>6. ASSUME UNCHANGED vars PROVE Inv'
  <2>1. /\ db' = db /\ view' = view /\ lock' = lock /\ tx' = tx /\ pc' = pc
        /\ page' = page /\ fresh' = fresh /\ cache' = cache
    BY <1>6 DEF vars
  <2>2. Frame(People)
    BY <2>1 DEF Frame
  <2>3. Frame(Trainer)
    BY <2>1 DEF Frame
  <2>4. TypeInv'
    BY <1>1, <2>1 DEF Inv, TypeInv
  <2>5. DbInv'
    BY <1>1, <2>1, DbKeeps DEF Inv
  <2>6. ASSUME NEW d \in Command
        PROVE  SqlInv(d)' /\ FileInv(d)' /\ (d \in Importer => CacheInv(d)')
    <3>1. CASE d = People
      BY <1>1, <2>3, <3>1, OthersKeep, Constants
    <3>2. CASE d # People
      BY <1>1, <2>2, <3>2, OthersKeep, Constants
    <3>. QED BY <3>1, <3>2
  <2>. QED BY <2>4, <2>5, <2>6, Constants DEF Inv
<1>. QED BY <1>1, <1>2, <1>3, <1>4, <1>5, <1>6 DEF Next, Work

(* The invariant holds in every state of every run.                        *)
THEOREM Invariance == Spec => []Inv
BY InitInv, NextInv, PTL DEF Spec

(* ProjectionIsExact: at every commit of importers, training commands and  *)
(* people, in whatever order, the derived tables are those that a          *)
(* computation from nothing would give.                                    *)
THEOREM ProjectionsAreExact == Spec => []ProjectionIsExact
<1>1. Inv => ProjectionIsExact
  BY DEF Inv, DbInv, ProjectionIsExact
<1>. QED BY <1>1, Invariance, PTL

(* TextsAreUnique: a text is stored once, and a committed event has the    *)
(* text of its log.                                                        *)
THEOREM TextsStayUnique == Spec => []TextsAreUnique
<1>1. Inv => TextsAreUnique
  BY DEF Inv, DbInv, Rows, TextsAreUnique
<1>. QED BY <1>1, Invariance, PTL

=============================================================================
