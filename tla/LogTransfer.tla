---------------------------- MODULE LogTransfer ----------------------------
(***************************************************************************)
(* The way of a master's log files into the receiving directory, up to the *)
(* marker that lets the daily run import a day: the platform's pushes      *)
(* (daily/push-logs.sh), the intake of pushes (daily/intake_logs.py) and   *)
(* the fetch that may be used beside them (daily/fetch-logs.sh).           *)
(*                                                                         *)
(* A directory is a function from file names to sizes: sizes are all that  *)
(* these programs compare.  Push p runs when days 1 .. p are over, into a  *)
(* directory of its own, as the runbook asks for, at any moment of the     *)
(* other programs; the platform runs a plan once at a time.  Intake and    *)
(* fetch are the two ExecStartPre steps of one service, so they follow     *)
(* each other.  Each of the three may be cut short anywhere.               *)
(***************************************************************************)
EXTENDS Integers, FiniteSets

CONSTANTS
    Push,        \* pushes, numbered by the day after the last they cover
    File,        \* names of log files, numbered in their order
    DayOf,       \* [File -> the day in the name]
    Size,        \* sizes of whole files
    Unsteady,    \* files that may still change when their day is over
    Absent,      \* no such file
    Part,        \* the size of a file that was copied in part
    MaxChanges,  \* how often the files of past days change on the master
    MaxCuts      \* how often a push, an intake or a fetch is cut short

Marker == 0   \* the entry push.complete of a listing
NoDay  == 0
Day == {DayOf[f] : f \in File}

ASSUME TransferAssumption ==
    /\ DayOf \in [File -> Nat \ {0}]
    /\ File \subseteq Nat \ {Marker} /\ IsFiniteSet(File)
    /\ Push \subseteq Nat \ {0} /\ IsFiniteSet(Push)
    /\ Push # {} /\ Size # {}
    /\ Absent \notin Size /\ Part \notin Size /\ Absent # Part
    /\ Unsteady \subseteq File /\ MaxChanges \in Nat /\ MaxCuts \in Nat

VARIABLES
    source,      \* the log directory of the master
    found,       \* history: what looks at the source found of each day
    stage, plan, left,    \* a push: where it is, its frozen list, files to copy
    landing, sign, old,   \* its directory: logs, marker, beyond expire_hours
    inbox, sealed,        \* the receiving directory: logs, marked days
    pc, parsed, queue,    \* an intake: the manifests and pushes it found
    at, expired, allDone, days, day, todo,   \* the push and the day it is at
    fetch, listing, pending,   \* a fetch: its day, the list, files to copy
    changes, cuts

master   == <<source, changes>>
pushing  == <<stage, plan, left>>
landed   == <<landing, sign, old>>
receiver == <<inbox, sealed>>
intake   == <<pc, parsed, queue, at, expired, allDone, days, day, todo>>
fetching == <<fetch, listing, pending>>
vars == <<source, found, stage, plan, left, landing, sign, old, inbox, sealed,
          pc, parsed, queue, at, expired, allDone, days, day, todo,
          fetch, listing, pending, changes, cuts>>

Listing  == [File -> Size \cup {Absent}]
Empty    == [f \in File |-> Absent]
NoMarker == [f \in {} |-> Absent]
Names(dir)    == {f \in File : dir[f] # Absent}
Only(ds, dir) == [f \in File |-> IF DayOf[f] \in ds THEN dir[f] ELSE Absent]
Days(dir)     == {DayOf[f] : f \in Names(dir)}
First(ns)     == CHOOSE n \in ns : \A m \in ns : n <= m

TypeOK ==
    /\ source \in Listing
    /\ found \in [Day -> SUBSET Listing]
    /\ stage \in [Push -> {"new", "copying", "done", "failed"}]
    /\ plan \in [Push -> Listing] /\ left \in [Push -> SUBSET File]
    /\ landing \in [Push -> [File -> Size \cup {Absent, Part}]]
    /\ sign \in [Push -> Listing \cup {NoMarker}] /\ old \subseteq Push
    /\ inbox \in Listing /\ sealed \subseteq Day
    /\ pc \in {"idle", "next", "day", "move", "clean", "unlink"}
    /\ parsed \in [Push -> Listing \cup {NoMarker}] /\ queue \subseteq Push
    /\ at \in Push /\ expired \in BOOLEAN /\ allDone \in BOOLEAN
    /\ days \subseteq Day /\ day \in Day \cup {NoDay}
    /\ todo \subseteq File \cup {Marker}
    /\ fetch \in Day \cup {NoDay} /\ listing \in Listing
    /\ pending \subseteq File
    /\ changes \in 0 .. MaxChanges /\ cuts \in 0 .. MaxCuts

\* Sizes are only compared with other sizes of the same file.
Init ==
    /\ source = [f \in File |-> CHOOSE size \in Size : TRUE]
    /\ found = [d \in Day |-> {}]
    /\ stage = [p \in Push |-> "new"]
    /\ plan = [p \in Push |-> Empty] /\ left = [p \in Push |-> {}]
    /\ landing = [p \in Push |-> Empty] /\ sign = [p \in Push |-> NoMarker]
    /\ old = {}
    /\ inbox = Empty /\ sealed = {}
    /\ pc = "idle" /\ parsed = sign /\ queue = {} /\ at = First(Push)
    /\ expired = FALSE /\ allDone = FALSE /\ days = {} /\ day = NoDay /\ todo = {}
    /\ fetch = NoDay /\ listing = Empty /\ pending = {}
    /\ changes = 0 /\ cuts = 0

-----------------------------------------------------------------------------
(* The master: a file of a past day is removed, comes late or grows.       *)

Change ==
    /\ changes < MaxChanges
    /\ changes' = changes + 1
    /\ \E f \in Unsteady, size \in Size \cup {Absent} :
          /\ size # source[f]
          /\ source' = [source EXCEPT ![f] = size]
    /\ UNCHANGED <<found, pushing, landed, receiver, intake, fetching, cuts>>

\* A push ends: what it held in memory is gone.
EndPush(p, how) ==
    /\ stage' = [stage EXCEPT ![p] = how]
    /\ plan' = [plan EXCEPT ![p] = Empty] /\ left' = [left EXCEPT ![p] = {}]

\* A look at the source: what it found of the days.
Look(ds, list) ==
    found' = [d \in Day |-> IF d \in ds THEN found[d] \cup {Only({d}, list)} ELSE found[d]]

Cut == cuts < MaxCuts /\ cuts' = cuts + 1

-----------------------------------------------------------------------------
(* A push.                                                                 *)

\* Freezes names and sizes, makes the directory and empties it, as one step.
\* A push that failed may be repeated into its directory.
Start(p) ==
    /\ stage[p] \in {"new", "failed"} /\ \A q \in Push : stage[q] # "copying"
    /\ LET list == Only(1 .. p, source) IN
          /\ plan' = [plan EXCEPT ![p] = list]
          /\ left' = [left EXCEPT ![p] = Names(list)]
          /\ Look((1 .. p) \cap Day, source)
    /\ stage' = [stage EXCEPT ![p] = "copying"]
    /\ landing' = [landing EXCEPT ![p] = Empty]
    /\ old' = old \ {p}
    /\ UNCHANGED <<master, sign, receiver, intake, fetching, cuts>>

\* Copies the next file as it is now; one that is gone ends the push.
Copy(p) ==
    /\ stage[p] = "copying"
    /\ left[p] # {}
    /\ LET f == First(left[p]) IN
          IF source[f] = Absent
          THEN EndPush(p, "failed") /\ UNCHANGED <<landing, old>>
          ELSE /\ landing' = [landing EXCEPT ![p][f] = source[f]]
               /\ left' = [left EXCEPT ![p] = @ \ {f}]
               /\ old' = old \ {p}
               /\ UNCHANGED <<stage, plan>>
    /\ UNCHANGED <<master, found, sign, receiver, intake, fetching, cuts>>

\* The manifest is written under another name and renamed.
Publish(p) ==
    /\ stage[p] = "copying" /\ left[p] = {}
    /\ sign' = [sign EXCEPT ![p] = plan[p]]
    /\ EndPush(p, "done")
    /\ old' = old \ {p}
    /\ UNCHANGED <<master, found, landing, receiver, intake, fetching, cuts>>

\* The push is killed or loses its connection, perhaps within a file.
CutPush(p) ==
    /\ Cut
    /\ stage[p] = "copying"
    /\ EndPush(p, "failed")
    /\ \/ UNCHANGED landing
       \/ left[p] # {} /\ landing' = [landing EXCEPT ![p][First(left[p])] = Part]
    /\ UNCHANGED <<master, found, sign, old, receiver, intake, fetching>>

\* expire_hours pass after the last write of a push, also of one that stalls.
Age(p) ==
    /\ p \notin old
    /\ (sign[p] # NoMarker \/ Names(landing[p]) # {})
    /\ old' = old \cup {p}
    /\ UNCHANGED <<master, found, pushing, landing, sign, receiver, intake, fetching, cuts>>

Pushing == \E p \in Push : Start(p) \/ Copy(p) \/ Publish(p) \/ CutPush(p) \/ Age(p)

-----------------------------------------------------------------------------
(* An intake, under the lock of the landing directory.                     *)

\* Matches(dir, list, ns): the files ns have the sizes of the list.
Matches(dir, list, ns) == \A f \in ns : dir[f] = list[f]

\* The next push of those that were found, from the oldest manifest on.
Following ==
    LET unmarked == {p \in queue : parsed[p] = NoMarker}
    IN  First(IF unmarked = {} THEN queue ELSE unmarked)

\* Mutant: files that were received before are missed in the push.
ValidWithoutReceived(manifest, dir) == dir = manifest

\* Every file of the manifest is in the push or was received from it before,
\* and the push has no other log.
Valid(manifest, dir) ==
    \A f \in File :
        IF manifest[f] = Absent THEN dir[f] = Absent
        ELSE \/ dir[f] = manifest[f]
             \/ dir[f] = Absent /\ inbox[f] = manifest[f]

Leave(next) ==
    /\ pc' = next
    /\ expired' = FALSE /\ allDone' = FALSE
    /\ days' = {} /\ day' = NoDay /\ todo' = {}

IntakeOnly == UNCHANGED <<master, found, pushing, landed, receiver, fetching, cuts>>

\* Finds the directories with content and reads the markers.
Find ==
    /\ pc = "idle" /\ fetch = NoDay
    /\ queue' = {p \in Push : sign[p] # NoMarker \/ Names(landing[p]) # {}}
    /\ parsed' = sign
    /\ pc' = "next"
    /\ UNCHANGED <<at, expired, allDone, days, day, todo>>
    /\ IntakeOnly

\* Lists the next push and validates it; one that cannot be used is cleaned
\* when it has expired and retained before.
Take ==
    /\ pc = "next" /\ queue # {}
    /\ at' = Following
    /\ queue' = queue \ {Following}
    /\ LET p == Following IN
          IF parsed[p] # NoMarker /\ Valid(parsed[p], landing[p])
          THEN /\ pc' = "day"
               /\ days' = Days(parsed[p])
               /\ allDone' = TRUE /\ expired' = (p \in old)
          ELSE /\ pc' = IF p \in old THEN "clean" ELSE "next"
               /\ expired' = (p \in old)
               /\ UNCHANGED <<days, allDone>>
    /\ UNCHANGED <<parsed, day, todo>>
    /\ IntakeOnly

EndIntake ==
    /\ pc = "next" /\ queue = {}
    /\ Leave("idle")
    /\ parsed' = [p \in Push |-> NoMarker] /\ at' = First(Push)
    /\ UNCHANGED queue
    /\ IntakeOnly

manifestOf(d) == Only({d}, parsed[at])

\* Mutant: a day that failed does not keep the push.
FailDayQuietly ==
    /\ pc' = "day" /\ day' = NoDay /\ todo' = {}
    /\ UNCHANGED allDone

\* The day in hand is not received: the next one.
FailDay ==
    /\ pc' = "day" /\ day' = NoDay /\ todo' = {}
    /\ allDone' = FALSE

\* The next day: marked days stay as they are, and one with other files or
\* sizes in the receiving directory is left to people.  The days of this model
\* are over, on the master and here.
BeginDay ==
    /\ pc = "day" /\ days # {}
    /\ days' = days \ {First(days)}
    /\ LET d == First(days) IN
          \/ /\ d \in sealed
             /\ UNCHANGED <<pc, allDone, day, todo>>
          \/ /\ d \notin sealed
             /\ LET there == Only({d}, inbox) IN
                   IF Matches(there, manifestOf(d), Names(there))
                   THEN /\ pc' = "move" /\ day' = d
                        /\ todo' = Names(manifestOf(d)) \ Names(there)
                        /\ UNCHANGED allDone
                   ELSE FailDay
    /\ UNCHANGED <<parsed, queue, at, expired>>
    /\ IntakeOnly

\* Moves one file whose size is right and that is not in the way.
Move ==
    /\ pc = "move" /\ todo # {}
    /\ LET f == First(todo) IN
          \/ /\ landing[at][f] = parsed[at][f] /\ inbox[f] = Absent
             /\ landing' = [landing EXCEPT ![at][f] = Absent]
             /\ inbox' = [inbox EXCEPT ![f] = parsed[at][f]]
             /\ todo' = todo \ {f}
             /\ UNCHANGED <<pc, allDone, day>>
          \/ /\ landing[at][f] # parsed[at][f] \/ inbox[f] # Absent
             /\ FailDay
             /\ UNCHANGED <<landing, inbox>>
    /\ UNCHANGED <<master, found, pushing, sign, old, sealed, parsed, queue, at,
                   expired, days, fetching, cuts>>

\* The marker, once the receiving directory has the day of the manifest.
MarkDay ==
    /\ pc = "move" /\ todo = {}
    /\ IF Only({day}, inbox) = manifestOf(day)
       THEN /\ sealed' = sealed \cup {day}
            /\ pc' = "day" /\ day' = NoDay
            /\ UNCHANGED <<allDone, todo>>
       ELSE FailDay /\ UNCHANGED sealed
    /\ UNCHANGED <<master, found, pushing, landed, inbox, parsed, queue, at,
                   expired, days, fetching, cuts>>

EndDays ==
    /\ pc = "day" /\ days = {}
    /\ IF allDone \/ expired THEN pc' = "clean" /\ UNCHANGED <<expired, allDone>>
       ELSE pc' = "next" /\ expired' = FALSE /\ allDone' = FALSE
    /\ UNCHANGED <<parsed, queue, at, days, day, todo>>
    /\ IntakeOnly

\* Lists what is to be deleted, the marker with it.
Clean ==
    /\ pc = "clean"
    /\ todo' = Names(landing[at]) \cup (IF sign[at] = NoMarker THEN {} ELSE {Marker})
    /\ pc' = "unlink"
    /\ UNCHANGED <<parsed, queue, at, expired, allDone, days, day>>
    /\ IntakeOnly

\* Deletes one entry, the marker last; one that is gone ends the cleaning.
UnlinkLog ==
    /\ pc = "unlink" /\ todo \cap File # {}
    /\ LET f == First(todo \cap File) IN
          IF landing[at][f] = Absent
          THEN Leave("next") /\ UNCHANGED landing
          ELSE /\ landing' = [landing EXCEPT ![at][f] = Absent]
               /\ todo' = todo \ {f}
               /\ UNCHANGED <<pc, expired, allDone, days, day>>
    /\ UNCHANGED <<master, found, pushing, sign, old, receiver, parsed, queue, at,
                   fetching, cuts>>

UnlinkMarker ==
    /\ pc = "unlink" /\ todo \cap File = {}
    /\ sign' = IF Marker \in todo THEN [sign EXCEPT ![at] = NoMarker] ELSE sign
    /\ Leave("next")
    /\ UNCHANGED <<master, found, pushing, landing, old, receiver, parsed, queue, at,
                   fetching, cuts>>

\* The intake is killed.
CutIntake ==
    /\ Cut
    /\ pc # "idle"
    /\ Leave("idle")
    /\ queue' = {} /\ parsed' = [p \in Push |-> NoMarker] /\ at' = First(Push)
    /\ UNCHANGED <<master, found, pushing, landed, receiver, fetching>>

Intake ==
    \/ Take \/ EndIntake \/ BeginDay \/ Move \/ MarkDay \/ EndDays
    \/ Clean \/ UnlinkLog \/ UnlinkMarker

-----------------------------------------------------------------------------
(* A fetch of one day, under a lock of its own, while no intake runs.      *)

Rested == fetch' = NoDay /\ listing' = Empty /\ pending' = {}

FetchOnly == UNCHANGED <<master, found, pushing, landed, receiver, intake, cuts>>

\* Mutant: a marked day is fetched again when it is asked for.
FetchMarkedDay(d) ==
    /\ fetch = NoDay /\ pc = "idle"
    /\ LET list == Only({d}, source) IN
          /\ list # Empty
          /\ Names(Only({d}, inbox)) \subseteq Names(list)
          /\ fetch' = d /\ listing' = list /\ pending' = Names(list)
    /\ Look({d}, source)
    /\ UNCHANGED <<master, pushing, landed, receiver, intake, cuts>>

\* Lists the day on the source.  A marked day is not touched, and one with a
\* local file that the source does not have is left to people.
FetchDay(d) ==
    /\ fetch = NoDay /\ pc = "idle"
    /\ d \notin sealed
    /\ LET list == Only({d}, source) IN
          /\ list # Empty
          /\ Names(Only({d}, inbox)) \subseteq Names(list)
          /\ fetch' = d /\ listing' = list /\ pending' = Names(list)
    /\ Look({d}, source)
    /\ UNCHANGED <<master, pushing, landed, receiver, intake, cuts>>

\* A file with the right size is left; another is copied beside it and, when
\* its size is the listed one, renamed over it.
FetchFile ==
    /\ fetch # NoDay /\ pending # {}
    /\ LET f == First(pending) IN
          \/ /\ inbox[f] = listing[f] \/ source[f] = listing[f]
             /\ inbox' = [inbox EXCEPT ![f] = listing[f]]
             /\ pending' = pending \ {f}
             /\ UNCHANGED <<fetch, listing>>
          \/ /\ inbox[f] # listing[f] /\ source[f] # listing[f]
             /\ Rested
             /\ UNCHANGED inbox
    /\ UNCHANGED <<master, found, pushing, landed, sealed, intake, cuts>>

\* The source must list what it listed before.
FetchAgain ==
    /\ fetch # NoDay /\ pending = {}
    /\ IF Only({fetch}, source) = listing
       THEN sealed' = sealed \cup {fetch}
       ELSE UNCHANGED sealed
    /\ Rested
    /\ UNCHANGED <<master, found, pushing, landed, inbox, intake, cuts>>

\* The fetch is killed or the connection breaks.
CutFetch ==
    /\ Cut
    /\ fetch # NoDay
    /\ Rested
    /\ UNCHANGED <<master, found, pushing, landed, receiver, intake>>

Next ==
    \/ Change \/ Pushing \/ Find \/ Intake \/ CutIntake
    \/ (\E d \in Day : FetchDay(d)) \/ FetchFile \/ FetchAgain \/ CutFetch

Spec == Init /\ [][Next]_vars

\* The service is started every day, so an intake begins again and again
\* between the fetches, and both go on while nothing cuts them.
FairSpec ==
    /\ Spec
    /\ SF_vars(Find) /\ WF_vars(Intake)
    /\ WF_vars(FetchFile \/ FetchAgain)

-----------------------------------------------------------------------------
(* Properties.                                                             *)

\* A marked day is, and stays, the whole day as one look at the source found
\* it, whoever placed the marker and whatever was cut short before.
Received == INSTANCE SealedDays WITH
    Contents <- Listing, Nothing <- Empty, Open <- NoMarker,
    received <- [d \in Day |-> IF d \in sealed THEN Only({d}, inbox) ELSE NoMarker]

ImplementsSealedDays == Received!Spec

\* An intake deletes pushed logs only of days that are sealed, or when the
\* push has expired (intake_logs.py: intake, clean).
NothingUnreceivedGoes ==
    [][\A p \in Push, f \in File :
        UnlinkLog /\ at = p /\ landing[p][f] # Absent /\ landing'[p][f] = Absent
        => DayOf[f] \in sealed \/ expired]_vars

\* The push has its marker and all its files, but for those that an
\* intake moved before, and nobody removes it as expired.
Offers(p, d) ==
    /\ sign[p] # NoMarker /\ d \in Days(sign[p])
    /\ \A f \in Names(sign[p]) : landing[p][f] # Absent \/ inbox[f] # Absent
    /\ p \notin old /\ ~(at = p /\ expired)

Offered(d) == \E p \in Push : Offers(p, d)

\* A day that a push offers is received, however often intake was cut short,
\* while the push does not expire and the past does not change on the master.
PushIsReceived ==
    \A d \in Day : Offered(d) ~> d \in sealed \/ changes > 0 \/ ~Offered(d)
=============================================================================
