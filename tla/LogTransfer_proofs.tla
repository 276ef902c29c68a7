------------------------- MODULE LogTransfer_proofs -------------------------
(***************************************************************************)
(* The safety of LogTransfer, for any pushes, files, days and number of    *)
(* changes and cuts: what happens to a day in the receiving directory is   *)
(* what SealedDays promises, and an intake deletes only what it received   *)
(* or what has expired.                                                    *)
(*                                                                         *)
(* Two chains carry the argument.  A list of the source is always, day by  *)
(* day, something a look found: from the frozen plan to the manifest, from *)
(* the manifest to what an intake read (FoundInv), and in a fetch          *)
(* (FetchInv).  And a push with a manifest is done for good (DoneInv), so  *)
(* that between the moment an intake finds a push in order and the moment  *)
(* it deletes it, nobody but the intake touches its logs (IntakeInv).      *)
(***************************************************************************)
EXTENDS LogTransfer, WellFoundedInduction, TLAPS

(* A list whose days were all found by one of the looks, or are empty. *)
AsFound(list, looks) == \A d \in Day : Only({d}, list) \in looks[d] \cup {Empty}

FoundInv ==
    \A p \in Push :
        /\ AsFound(plan[p], found)
        /\ sign[p] # NoMarker => AsFound(sign[p], found)
        /\ parsed[p] # NoMarker => AsFound(parsed[p], found)

(* No push that has, or had, a manifest is ever started again. *)
DoneInv ==
    \A p \in Push : sign[p] # NoMarker \/ parsed[p] # NoMarker => stage[p] = "done"

(* A fetch runs alone, of a day that is not marked, and what is no longer  *)
(* pending has arrived as it was listed.                                   *)
FetchInv ==
    fetch # NoDay =>
        /\ pc = "idle" /\ fetch \notin sealed
        /\ listing \in found[fetch] \ {Empty}
        /\ pending \subseteq Names(listing)
        /\ \A f \in File :
              IF DayOf[f] = fetch
              THEN f \notin pending => inbox[f] = listing[f]
              ELSE listing[f] = Absent

(* The push at hand: it is in order, with no log of a day that is not in   *)
(* its manifest; the days that are done with were received, unless one     *)
(* failed; and its logs are deleted only then, or when it has expired.     *)
IntakeInv ==
    /\ pc \in {"day", "move"} =>
          /\ parsed[at] # NoMarker
          /\ days \subseteq Days(parsed[at])
          /\ Days(landing[at]) \subseteq Days(parsed[at])
          /\ allDone => Days(parsed[at]) \subseteq sealed \cup days \cup {day}
    /\ pc # "move" => day = NoDay
    /\ pc = "move" =>
          /\ day \in Days(parsed[at]) \ sealed
          /\ todo \subseteq Names(Only({day}, parsed[at]))
    /\ pc \in {"clean", "unlink"} /\ ~expired =>
          /\ parsed[at] # NoMarker
          /\ Days(landing[at]) \subseteq sealed

IInv == TypeOK /\ FoundInv /\ DoneInv /\ FetchInv /\ IntakeInv

-----------------------------------------------------------------------------
(* The constants, and the operators on lists and days.                     *)

(* What the assumption says, as plain facts. *)
LEMMA Constants ==
    /\ File \subseteq Nat /\ Marker \notin File
    /\ Push \subseteq Nat /\ Push # {} /\ Size # {}
    /\ Absent \notin Size /\ Part \notin Size /\ Absent # Part
    /\ Unsteady \subseteq File /\ MaxChanges \in Nat /\ MaxCuts \in Nat
    /\ Day \subseteq Nat /\ NoDay \notin Day
    /\ \A f \in File : DayOf[f] \in Day
BY TransferAssumption DEF Day, NoDay, Marker

(* First: a set of numbers that is not empty has a first one. *)
LEMMA FirstIsIn ==
  ASSUME NEW ns, ns \subseteq Nat, ns # {}
  PROVE  First(ns) \in ns
<1>1. PICK n \in ns : \A m \in ns : <<m, n>> \notin OpToRel(<, Nat)
  BY NatLessThanWellFounded, WFMin
<1>2. ASSUME NEW m \in ns PROVE ~(m < n)
  BY <1>1, Zenon DEF OpToRel
<1>3. \A m \in ns : n <= m
  BY <1>2
<1>. QED BY <1>3 DEF First

(* Following: the next push is one of those that were found. *)
LEMMA FollowingIsIn == ASSUME queue \subseteq Push, queue # {} PROVE Following \in Push
<1>. DEFINE unmarked == {p \in queue : parsed[p] = NoMarker}
<1>1. queue \subseteq Nat /\ unmarked \subseteq queue
  BY Constants
<1>2. CASE unmarked = {}
  BY <1>1, <1>2, FirstIsIn DEF Following
<1>3. CASE unmarked # {}
  BY <1>1, <1>3, FirstIsIn DEF Following
<1>. QED BY <1>2, <1>3

(* Only and Empty: what remains of a list is a list. *)
LEMMA Lists ==
    /\ Empty \in Listing
    /\ \A ds : \A dir \in Listing : Only(ds, dir) \in Listing
BY DEF Empty, Listing, Only

(* A list of files is not the absence of a manifest. *)
LEMMA ListIsNoMarker == ASSUME NEW f \in File, NEW list \in Listing PROVE list # NoMarker
BY DEF Listing, NoMarker

(* A day that a list names has a file in it. *)
LEMMA DayHasFiles ==
  ASSUME NEW list, NEW d \in Days(list)
  PROVE  d \in Day /\ Only({d}, list) # Empty
<1>1. PICK f \in File : list[f] # Absent /\ d = DayOf[f]
  BY DEF Days, Names
<1>2. Only({d}, list)[f] # Empty[f]
  BY <1>1 DEF Only, Empty
<1>. QED BY <1>1, <1>2 DEF Day

(* Nothing is always found. *)
LEMMA EmptyIsFound == ASSUME NEW looks PROVE AsFound(Empty, looks)
BY DEF AsFound, Only, Empty

(* What was found stays found. *)
LEMMA AsFoundStays ==
  ASSUME NEW list, NEW looks, NEW more, AsFound(list, looks),
         \A d \in Day : looks[d] \subseteq more[d]
  PROVE  AsFound(list, more)
BY DEF AsFound

-----------------------------------------------------------------------------
(* Types, part by part.                                                    *)

SourceType == source \in Listing /\ found \in [Day -> SUBSET Listing]
PushType ==
    /\ stage \in [Push -> {"new", "copying", "done", "failed"}]
    /\ plan \in [Push -> Listing] /\ left \in [Push -> SUBSET File]
LandedType ==
    /\ landing \in [Push -> [File -> Size \cup {Absent, Part}]]
    /\ sign \in [Push -> Listing \cup {NoMarker}] /\ old \subseteq Push
ReceiverType == inbox \in Listing /\ sealed \subseteq Day
IntakeType ==
    /\ pc \in {"idle", "next", "day", "move", "clean", "unlink"}
    /\ parsed \in [Push -> Listing \cup {NoMarker}] /\ queue \subseteq Push
    /\ at \in Push /\ expired \in BOOLEAN /\ allDone \in BOOLEAN
    /\ days \subseteq Day /\ day \in Day \cup {NoDay}
    /\ todo \subseteq File \cup {Marker}
FetchType ==
    /\ fetch \in Day \cup {NoDay} /\ listing \in Listing
    /\ pending \subseteq File
CountType == changes \in 0 .. MaxChanges /\ cuts \in 0 .. MaxCuts

(* The types are their parts. *)
LEMMA TypeParts ==
    TypeOK <=> /\ SourceType /\ PushType /\ LandedType /\ ReceiverType
               /\ IntakeType /\ FetchType /\ CountType
BY DEF TypeOK, SourceType, PushType, LandedType, ReceiverType, IntakeType,
       FetchType, CountType

(* The steps, one by one. *)
LEMMA Steps ==
  ASSUME Next
  PROVE  \/ Change
         \/ \E p \in Push : Start(p) \/ Copy(p) \/ Publish(p) \/ CutPush(p) \/ Age(p)
         \/ Find \/ Take \/ EndIntake \/ BeginDay \/ Move \/ MarkDay \/ EndDays
         \/ Clean \/ UnlinkLog \/ UnlinkMarker \/ CutIntake
         \/ (\E d \in Day : FetchDay(d)) \/ FetchFile \/ FetchAgain \/ CutFetch
BY DEF Next, Pushing, Intake

(* Looks only add to what was found. *)
LEMMA LooksAdd ==
  ASSUME SourceType, NEW ds, NEW list \in Listing, Look(ds, list)
  PROVE  /\ found' \in [Day -> SUBSET Listing]
         /\ \A d \in Day : found[d] \subseteq found'[d]
         /\ \A d \in ds \cap Day : Only({d}, list) \in found'[d]
BY Lists DEF SourceType, Look

(* Every step keeps the types of the source. *)
LEMMA SourceTypeStep == ASSUME SourceType, Next PROVE SourceType'
<1>. USE DEF master, pushing, landed, receiver, intake, fetching
<1>1. CASE Change
  BY <1>1, Constants DEF Change, SourceType, Listing
<1>2. ASSUME NEW q \in Push, Start(q) PROVE SourceType'
  BY <1>2, LooksAdd DEF Start, SourceType
<1>3. ASSUME NEW d \in Day, FetchDay(d) PROVE SourceType'
  BY <1>3, LooksAdd DEF FetchDay, SourceType
<1>4. CASE \/ Find \/ Take \/ EndIntake \/ BeginDay \/ Move \/ MarkDay \/ EndDays
           \/ Clean \/ UnlinkLog \/ UnlinkMarker \/ CutIntake \/ FetchFile
           \/ FetchAgain \/ CutFetch
  BY <1>4 DEF Find, IntakeOnly, Take, EndIntake, Leave, BeginDay, Move, MarkDay,
     EndDays, Clean, UnlinkLog, UnlinkMarker, CutIntake, Cut, FetchFile, Rested,
     FetchAgain, CutFetch, SourceType
<1>5. ASSUME NEW q \in Push, Copy(q) \/ Publish(q) \/ CutPush(q) \/ Age(q) PROVE SourceType'
  BY <1>5 DEF Copy, Publish, CutPush, Cut, Age, SourceType
<1>. QED BY <1>1, <1>2, <1>3, <1>4, <1>5, Steps

(* Every step keeps the types of plans. *)
LEMMA PushTypeStep == ASSUME SourceType, PushType, Next PROVE PushType'
<1>. USE DEF master, pushing, landed, receiver, intake, fetching
<1>1. ASSUME NEW q \in Push, Start(q) PROVE PushType'
  BY <1>1, Lists DEF Start, PushType, SourceType, Names
<1>2. ASSUME NEW q \in Push, Copy(q) PROVE PushType'
  BY <1>2, Lists DEF Copy, EndPush, PushType
<1>3. ASSUME NEW q \in Push, Publish(q) PROVE PushType'
  BY <1>3, Lists DEF Publish, EndPush, PushType
<1>4. ASSUME NEW q \in Push, CutPush(q) PROVE PushType'
  BY <1>4, Lists DEF CutPush, EndPush, Cut, PushType
<1>5. CASE \/ Change \/ Find \/ Take \/ EndIntake \/ BeginDay \/ Move \/ MarkDay
           \/ EndDays \/ Clean \/ UnlinkLog \/ UnlinkMarker \/ CutIntake \/ FetchFile
           \/ FetchAgain \/ CutFetch
  BY <1>5 DEF Change, Find, IntakeOnly, Take, EndIntake, Leave, BeginDay, Move, MarkDay,
     EndDays, Clean, UnlinkLog, UnlinkMarker, CutIntake, Cut, FetchFile, Rested,
     FetchAgain, CutFetch, PushType
<1>6. ASSUME NEW q \in Push, Age(q) PROVE PushType'
  BY <1>6 DEF Age, PushType
<1>7. ASSUME NEW d \in Day, FetchDay(d) PROVE PushType'
  BY <1>7 DEF FetchDay, PushType
<1>. QED BY <1>1, <1>2, <1>3, <1>4, <1>5, <1>6, <1>7, Steps

(* Every step keeps the types of the push directories. *)
LEMMA LandedTypeStep == ASSUME TypeOK, Next PROVE LandedType'
<1>. USE DEF master, pushing, landed, receiver, intake, fetching
<1>1. ASSUME NEW q \in Push, Start(q) PROVE LandedType'
  BY <1>1, TypeParts DEF Start, LandedType, Empty
<1>2. ASSUME NEW q \in Push, Copy(q) PROVE LandedType'
  <2>1. source \in Listing /\ left[q] \subseteq File /\ File \subseteq Nat
    BY TypeParts, Constants DEF SourceType, PushType
  <2>2. left[q] # {} => First(left[q]) \in File
    BY <2>1, FirstIsIn
  <2>. QED BY <1>2, <2>1, <2>2, TypeParts DEF Copy, EndPush, LandedType, Listing
<1>3. ASSUME NEW q \in Push, Publish(q) PROVE LandedType'
  BY <1>3, TypeParts DEF Publish, EndPush, LandedType, PushType
<1>4. ASSUME NEW q \in Push, CutPush(q) PROVE LandedType'
  <2>1. left[q] \subseteq File /\ File \subseteq Nat
    BY TypeParts, Constants DEF PushType
  <2>2. left[q] # {} => First(left[q]) \in File
    BY <2>1, FirstIsIn
  <2>. QED BY <1>4, <2>1, <2>2, TypeParts DEF CutPush, EndPush, LandedType
<1>5. ASSUME NEW q \in Push, Age(q) PROVE LandedType'
  BY <1>5, TypeParts DEF Age, LandedType
<1>6. CASE Move
  BY <1>6, TypeParts DEF Move, FailDay, LandedType
<1>7. CASE UnlinkLog
  <2>1. LandedType /\ at \in Push
    BY TypeParts DEF IntakeType
  <2>. DEFINE f == First(todo \cap File)
  <2>2. /\ landing' \in {landing, [landing EXCEPT ![at][f] = Absent]}
        /\ UNCHANGED <<sign, old>>
    BY <1>7 DEF UnlinkLog
  <2>3. f \in File
    BY <1>7, FirstIsIn, Constants DEF UnlinkLog
  <2>. HIDE DEF f
  <2>4. landing' \in [Push -> [File -> Size \cup {Absent, Part}]]
    <3>1. landing \in [Push -> [File -> Size \cup {Absent, Part}]]
      BY <2>1 DEF LandedType
    <3>2. [landing EXCEPT ![at][f] = Absent] \in [Push -> [File -> Size \cup {Absent, Part}]]
      BY <3>1, <2>1, <2>3
    <3>. QED BY <2>2, <3>1, <3>2
  <2>. QED BY <2>1, <2>2, <2>4, Zenon DEF LandedType
<1>8. CASE UnlinkMarker
  BY <1>8, TypeParts DEF UnlinkMarker, Leave, LandedType
<1>9. CASE \/ Change \/ Find \/ Take \/ EndIntake \/ BeginDay \/ MarkDay \/ EndDays
           \/ Clean \/ CutIntake \/ FetchFile \/ FetchAgain \/ CutFetch
  BY <1>9, TypeParts DEF Change, Find, IntakeOnly, Take, EndIntake, Leave, BeginDay,
     MarkDay, EndDays, Clean, CutIntake, Cut, FetchFile, Rested, FetchAgain, CutFetch,
     LandedType
<1>10. ASSUME NEW d \in Day, FetchDay(d) PROVE LandedType'
  BY <1>10, TypeParts DEF FetchDay, LandedType
<1>. QED BY <1>1, <1>2, <1>3, <1>4, <1>5, <1>6, <1>7, <1>8, <1>9, <1>10, Steps

(* Every step keeps the types of the receiving directory. *)
LEMMA ReceiverTypeStep == ASSUME TypeOK, FetchInv, IntakeInv, Next PROVE ReceiverType'
<1>. USE DEF master, pushing, landed, receiver, intake, fetching
<1>1. CASE Move
  <2>1. parsed[at] \in Listing /\ todo \subseteq File
    BY <1>1, TypeParts DEF Move, IntakeInv, IntakeType, Names
  <2>2. First(todo) \in File
    BY <1>1, <2>1, FirstIsIn, Constants DEF Move
  <2>3. parsed[at][First(todo)] \in Size \cup {Absent}
    BY <2>1, <2>2 DEF Listing
  <2>. QED BY <1>1, <2>2, <2>3, TypeParts DEF Move, FailDay, ReceiverType, Listing
<1>2. CASE MarkDay
  BY <1>2, TypeParts, DayHasFiles DEF MarkDay, FailDay, manifestOf, ReceiverType,
     IntakeInv
<1>3. CASE FetchFile
  <2>1. pending \subseteq File /\ listing \in Listing
    BY TypeParts DEF FetchType
  <2>2. First(pending) \in File
    BY <1>3, <2>1, FirstIsIn, Constants DEF FetchFile
  <2>3. listing[First(pending)] \in Size \cup {Absent}
    BY <2>1, <2>2 DEF Listing
  <2>. QED BY <1>3, <2>2, <2>3, TypeParts DEF FetchFile, Rested, ReceiverType, Listing
<1>4. CASE FetchAgain
  BY <1>4, TypeParts DEF FetchAgain, Rested, ReceiverType, FetchType
<1>5. CASE \/ Change \/ Find \/ Take \/ EndIntake \/ BeginDay \/ EndDays \/ Clean
           \/ UnlinkLog \/ UnlinkMarker \/ CutIntake \/ CutFetch
  BY <1>5, TypeParts DEF Change, Find, IntakeOnly, Take, EndIntake, Leave, BeginDay,
     EndDays, Clean, UnlinkLog, UnlinkMarker, CutIntake, Cut, CutFetch, Rested,
     ReceiverType
<1>6. ASSUME NEW q \in Push, Start(q) \/ Copy(q) \/ Publish(q) \/ CutPush(q) \/ Age(q)
      PROVE  ReceiverType'
  BY <1>6, TypeParts DEF Start, Copy, Publish, CutPush, Cut, Age, ReceiverType
<1>7. ASSUME NEW d \in Day, FetchDay(d) PROVE ReceiverType'
  BY <1>7, TypeParts DEF FetchDay, ReceiverType
<1>. QED BY <1>1, <1>2, <1>3, <1>4, <1>5, <1>6, <1>7, Steps

(* Every step keeps the types of an intake. *)
LEMMA IntakeTypeStep == ASSUME TypeOK, IntakeInv, Next PROVE IntakeType'
<1>. USE DEF master, pushing, landed, receiver, intake, fetching
<1>1. CASE Find
  BY <1>1, TypeParts DEF Find, IntakeOnly, IntakeType, LandedType
<1>2. CASE Take
  <2>1. queue \subseteq Push /\ queue # {} /\ queue \subseteq Nat
    BY <1>2, TypeParts, Constants DEF Take, IntakeType
  <2>2. Following \in Push
    BY <2>1, FollowingIsIn
  <2>3. Days(parsed[Following]) \subseteq Day
    BY DEF Days, Names, Day
  <2>4. IntakeType
    BY TypeParts
  <2>5. /\ at' = Following /\ queue' = queue \ {Following}
        /\ pc' \in {"day", "clean", "next"}
        /\ days' \in {days, Days(parsed[Following])}
        /\ allDone' \in {allDone, TRUE} /\ expired' = (Following \in old)
        /\ UNCHANGED <<parsed, day, todo>>
    BY <1>2 DEF Take
  <2>6. expired' \in BOOLEAN
    BY <2>5
  <2>7. allDone' \in BOOLEAN
    BY <2>4, <2>5 DEF IntakeType
  <2>. QED BY <2>2, <2>3, <2>4, <2>5, <2>6, <2>7 DEF IntakeType
<1>3. CASE EndIntake
  BY <1>3, TypeParts, FirstIsIn, Constants DEF EndIntake, IntakeOnly, Leave, IntakeType
<1>4. CASE BeginDay
  <2>1. days \subseteq Day /\ First(days) \in days
    BY <1>4, TypeParts, FirstIsIn, Constants DEF BeginDay, IntakeType
  <2>2. Names(manifestOf(First(days))) \subseteq File
    BY DEF Names
  <2>. QED BY <1>4, <2>1, <2>2, TypeParts DEF BeginDay, FailDay, IntakeOnly, IntakeType
<1>5. CASE Move
  BY <1>5, TypeParts DEF Move, FailDay, IntakeType
<1>6. CASE MarkDay
  BY <1>6, TypeParts DEF MarkDay, FailDay, manifestOf, IntakeType
<1>7. CASE EndDays
  BY <1>7, TypeParts DEF EndDays, IntakeOnly, IntakeType
<1>8. CASE Clean
  BY <1>8, TypeParts DEF Clean, IntakeOnly, IntakeType, Names
<1>9. CASE UnlinkLog
  BY <1>9, TypeParts DEF UnlinkLog, Leave, IntakeType
<1>10. CASE UnlinkMarker
  BY <1>10, TypeParts DEF UnlinkMarker, Leave, IntakeType
<1>11. CASE CutIntake
  BY <1>11, TypeParts, FirstIsIn, Constants DEF CutIntake, Leave, Cut, IntakeType
<1>12. CASE Change \/ FetchFile \/ FetchAgain \/ CutFetch
  BY <1>12, TypeParts DEF Change, FetchFile, Rested, FetchAgain, CutFetch, Cut,
     IntakeType
<1>13. ASSUME NEW q \in Push, Start(q) \/ Copy(q) \/ Publish(q) \/ CutPush(q) \/ Age(q)
       PROVE  IntakeType'
  BY <1>13, TypeParts DEF Start, Copy, Publish, CutPush, Cut, Age, IntakeType
<1>14. ASSUME NEW d \in Day, FetchDay(d) PROVE IntakeType'
  BY <1>14, TypeParts DEF FetchDay, IntakeType
<1>. QED BY <1>1, <1>2, <1>3, <1>4, <1>5, <1>6, <1>7, <1>8, <1>9, <1>10, <1>11, <1>12,
            <1>13, <1>14, Steps

(* Every step keeps the types of a fetch. *)
LEMMA FetchTypeStep == ASSUME TypeOK, Next PROVE FetchType'
<1>. USE DEF master, pushing, landed, receiver, intake, fetching
<1>1. ASSUME NEW d \in Day, FetchDay(d) PROVE FetchType'
  BY <1>1, TypeParts, Lists DEF FetchDay, FetchType, Names, SourceType
<1>2. CASE FetchFile
  BY <1>2, TypeParts, Lists DEF FetchFile, Rested, FetchType
<1>3. CASE FetchAgain
  BY <1>3, TypeParts, Lists DEF FetchAgain, Rested, FetchType
<1>4. CASE CutFetch
  BY <1>4, TypeParts, Lists DEF CutFetch, Rested, Cut, FetchType
<1>5. CASE \/ Change \/ Find \/ Take \/ EndIntake \/ BeginDay \/ Move \/ MarkDay
           \/ EndDays \/ Clean \/ UnlinkLog \/ UnlinkMarker \/ CutIntake
  BY <1>5, TypeParts DEF Change, Find, IntakeOnly, Take, EndIntake, Leave, BeginDay,
     Move, MarkDay, EndDays, Clean, UnlinkLog, UnlinkMarker, CutIntake, Cut, FetchType
<1>6. ASSUME NEW q \in Push, Start(q) \/ Copy(q) \/ Publish(q) \/ CutPush(q) \/ Age(q)
      PROVE  FetchType'
  BY <1>6, TypeParts DEF Start, Copy, Publish, CutPush, Cut, Age, FetchType
<1>. QED BY <1>1, <1>2, <1>3, <1>4, <1>5, <1>6, Steps

(* Every step keeps the counts within their bounds. *)
LEMMA CountTypeStep == ASSUME CountType, Next PROVE CountType'
<1>. USE DEF master, pushing, landed, receiver, intake, fetching
<1>1. CASE Change
  BY <1>1, Constants DEF Change, CountType
<1>2. ASSUME NEW q \in Push, CutPush(q) PROVE CountType'
  BY <1>2, Constants DEF CutPush, EndPush, Cut, CountType
<1>3. CASE CutIntake
  BY <1>3, Constants DEF CutIntake, Leave, Cut, CountType
<1>4. CASE CutFetch
  BY <1>4, Constants DEF CutFetch, Rested, Cut, CountType
<1>5. CASE \/ Find \/ Take \/ EndIntake \/ BeginDay \/ Move \/ MarkDay \/ EndDays
           \/ Clean \/ UnlinkLog \/ UnlinkMarker \/ FetchFile \/ FetchAgain
  BY <1>5 DEF Find, IntakeOnly, Take, EndIntake, Leave, BeginDay, Move, MarkDay,
     EndDays, Clean, UnlinkLog, UnlinkMarker, FetchFile, Rested, FetchAgain, CountType
<1>6. ASSUME NEW q \in Push, Start(q) \/ Copy(q) \/ Publish(q) \/ Age(q) PROVE CountType'
  BY <1>6 DEF Start, Copy, Publish, Age, CountType
<1>7. ASSUME NEW d \in Day, FetchDay(d) PROVE CountType'
  BY <1>7 DEF FetchDay, CountType
<1>. QED BY <1>1, <1>2, <1>3, <1>4, <1>5, <1>6, <1>7, Steps

(* Every step keeps a push with a manifest done. *)
LEMMA DoneStep == ASSUME TypeOK, DoneInv, Next PROVE DoneInv'
<1>. USE DEF master, pushing, landed, receiver, intake, fetching
<1>1. ASSUME NEW q \in Push, Start(q) PROVE DoneInv'
  BY <1>1, TypeParts DEF Start, DoneInv, PushType
<1>2. ASSUME NEW q \in Push, Copy(q) PROVE DoneInv'
  BY <1>2, TypeParts DEF Copy, EndPush, DoneInv, PushType
<1>3. ASSUME NEW q \in Push, Publish(q) PROVE DoneInv'
  BY <1>3, TypeParts DEF Publish, EndPush, DoneInv, PushType, LandedType
<1>4. ASSUME NEW q \in Push, CutPush(q) PROVE DoneInv'
  BY <1>4, TypeParts DEF CutPush, EndPush, Cut, DoneInv, PushType
<1>5. CASE Find
  BY <1>5, TypeParts DEF Find, IntakeOnly, DoneInv
<1>6. CASE EndIntake
  BY <1>6, TypeParts DEF EndIntake, IntakeOnly, Leave, DoneInv
<1>7. CASE UnlinkMarker
  BY <1>7, TypeParts DEF UnlinkMarker, Leave, DoneInv, LandedType
<1>8. CASE CutIntake
  BY <1>8, TypeParts DEF CutIntake, Leave, Cut, DoneInv
<1>9. CASE \/ Change \/ Take \/ BeginDay \/ Move \/ MarkDay \/ EndDays \/ Clean
           \/ UnlinkLog \/ FetchFile \/ FetchAgain \/ CutFetch
  BY <1>9, TypeParts DEF Change, Take, IntakeOnly, BeginDay, Move, MarkDay, EndDays,
     Clean, UnlinkLog, Leave, FetchFile, Rested, FetchAgain, CutFetch, Cut, DoneInv
<1>10. ASSUME NEW q \in Push, Age(q) PROVE DoneInv'
  BY <1>10, TypeParts DEF Age, DoneInv
<1>11. ASSUME NEW d \in Day, FetchDay(d) PROVE DoneInv'
  BY <1>11, TypeParts DEF FetchDay, DoneInv
<1>. QED BY <1>1, <1>2, <1>3, <1>4, <1>5, <1>6, <1>7, <1>8, <1>9, <1>10, <1>11, Steps

(* Every step keeps what plans and manifests list as found. *)
LEMMA FoundStep == ASSUME TypeOK, FoundInv, Next PROVE FoundInv'
<1>. USE DEF master, pushing, landed, receiver, intake, fetching
<1>1. ASSUME NEW q \in Push, Start(q) PROVE FoundInv'
  <2>. SUFFICES ASSUME NEW p \in Push
                PROVE  /\ AsFound(plan'[p], found')
                       /\ sign'[p] # NoMarker => AsFound(sign'[p], found')
                       /\ parsed'[p] # NoMarker => AsFound(parsed'[p], found')
    BY DEF FoundInv
  <2>1. /\ \A d \in Day : found[d] \subseteq found'[d]
        /\ \A d \in (1 .. q) \cap Day : Only({d}, source) \in found'[d]
    BY <1>1, LooksAdd, TypeParts DEF Start, SourceType
  <2>2. AsFound(Only(1 .. q, source), found')
    <3>. SUFFICES ASSUME NEW d \in Day
                  PROVE  Only({d}, Only(1 .. q, source)) \in found'[d] \cup {Empty}
      BY DEF AsFound
    <3>1. CASE d \in 1 .. q
      <4>1. Only({d}, Only(1 .. q, source)) = Only({d}, source)
        BY <3>1 DEF Only
      <4>. QED BY <2>1, <3>1, <4>1
    <3>2. CASE d \notin 1 .. q
      <4>1. Only({d}, Only(1 .. q, source)) = Empty
        BY <3>2 DEF Only, Empty
      <4>. QED BY <4>1
    <3>. QED BY <3>1, <3>2
  <2>3. plan'[p] = IF p = q THEN Only(1 .. q, source) ELSE plan[p]
    BY <1>1, TypeParts DEF Start, PushType
  <2>4. UNCHANGED <<sign, parsed>>
    BY <1>1 DEF Start
  <2>. QED BY <2>1, <2>2, <2>3, <2>4, AsFoundStays DEF FoundInv
<1>2. ASSUME NEW q \in Push, Copy(q) PROVE FoundInv'
  <2>. SUFFICES ASSUME NEW p \in Push
                PROVE  /\ AsFound(plan'[p], found')
                       /\ sign'[p] # NoMarker => AsFound(sign'[p], found')
                       /\ parsed'[p] # NoMarker => AsFound(parsed'[p], found')
    BY DEF FoundInv
  <2>. QED BY <1>2, EmptyIsFound, TypeParts DEF Copy, EndPush, FoundInv, PushType
<1>3. ASSUME NEW q \in Push, Publish(q) PROVE FoundInv'
  <2>. SUFFICES ASSUME NEW p \in Push
                PROVE  /\ AsFound(plan'[p], found')
                       /\ sign'[p] # NoMarker => AsFound(sign'[p], found')
                       /\ parsed'[p] # NoMarker => AsFound(parsed'[p], found')
    BY DEF FoundInv
  <2>. QED BY <1>3, EmptyIsFound, TypeParts DEF Publish, EndPush, FoundInv, PushType,
     LandedType
<1>4. ASSUME NEW q \in Push, CutPush(q) PROVE FoundInv'
  <2>. SUFFICES ASSUME NEW p \in Push
                PROVE  /\ AsFound(plan'[p], found')
                       /\ sign'[p] # NoMarker => AsFound(sign'[p], found')
                       /\ parsed'[p] # NoMarker => AsFound(parsed'[p], found')
    BY DEF FoundInv
  <2>. QED BY <1>4, EmptyIsFound, TypeParts DEF CutPush, EndPush, FoundInv, PushType
<1>5. CASE Find
  <2>. SUFFICES ASSUME NEW p \in Push
                PROVE  /\ AsFound(plan'[p], found')
                       /\ sign'[p] # NoMarker => AsFound(sign'[p], found')
                       /\ parsed'[p] # NoMarker => AsFound(parsed'[p], found')
    BY DEF FoundInv
  <2>. QED BY <1>5 DEF Find, IntakeOnly, FoundInv
<1>6. CASE EndIntake
  <2>. SUFFICES ASSUME NEW p \in Push
                PROVE  /\ AsFound(plan'[p], found')
                       /\ sign'[p] # NoMarker => AsFound(sign'[p], found')
                       /\ parsed'[p] # NoMarker => AsFound(parsed'[p], found')
    BY DEF FoundInv
  <2>. QED BY <1>6 DEF EndIntake, IntakeOnly, FoundInv
<1>7. CASE UnlinkMarker
  <2>. SUFFICES ASSUME NEW p \in Push
                PROVE  /\ AsFound(plan'[p], found')
                       /\ sign'[p] # NoMarker => AsFound(sign'[p], found')
                       /\ parsed'[p] # NoMarker => AsFound(parsed'[p], found')
    BY DEF FoundInv
  <2>. QED BY <1>7, TypeParts DEF UnlinkMarker, FoundInv, LandedType
<1>8. CASE CutIntake
  <2>. SUFFICES ASSUME NEW p \in Push
                PROVE  /\ AsFound(plan'[p], found')
                       /\ sign'[p] # NoMarker => AsFound(sign'[p], found')
                       /\ parsed'[p] # NoMarker => AsFound(parsed'[p], found')
    BY DEF FoundInv
  <2>. QED BY <1>8 DEF CutIntake, FoundInv
<1>9. ASSUME NEW d \in Day, FetchDay(d) PROVE FoundInv'
  <2>. SUFFICES ASSUME NEW p \in Push
                PROVE  /\ AsFound(plan'[p], found')
                       /\ sign'[p] # NoMarker => AsFound(sign'[p], found')
                       /\ parsed'[p] # NoMarker => AsFound(parsed'[p], found')
    BY DEF FoundInv
  <2>1. /\ \A e \in Day : found[e] \subseteq found'[e]
        /\ UNCHANGED <<plan, sign, parsed>>
    BY <1>9, LooksAdd, TypeParts DEF FetchDay, SourceType
  <2>. QED BY <2>1, AsFoundStays DEF FoundInv
<1>10. CASE \/ Change \/ Take \/ BeginDay \/ Move \/ MarkDay \/ EndDays \/ Clean
            \/ UnlinkLog \/ FetchFile \/ FetchAgain \/ CutFetch
  BY <1>10 DEF Change, Take, IntakeOnly, BeginDay, Move, MarkDay, EndDays, Clean,
     UnlinkLog, Leave, FetchFile, Rested, FetchAgain, CutFetch, Cut, FoundInv
<1>11. ASSUME NEW q \in Push, Age(q) PROVE FoundInv'
  BY <1>11 DEF Age, FoundInv
<1>. QED BY <1>1, <1>2, <1>3, <1>4, <1>5, <1>6, <1>7, <1>8, <1>9, <1>10, <1>11, Steps

(* Every step keeps a fetch true to its list. *)
LEMMA FetchStep == ASSUME TypeOK, FetchInv, IntakeInv, Next PROVE FetchInv'
<1>. USE DEF master, pushing, landed, receiver, intake, fetching
<1>1. ASSUME NEW q \in Push, Start(q) PROVE FetchInv'
  <2>1. \A d \in Day : found[d] \subseteq found'[d]
    BY <1>1, LooksAdd, TypeParts DEF Start, SourceType
  <2>2. UNCHANGED <<fetch, pc, sealed, listing, pending, inbox>>
    BY <1>1 DEF Start
  <2>. QED BY <2>1, <2>2, TypeParts DEF FetchInv, FetchType
<1>2. CASE Find
  BY <1>2, TypeParts DEF Find, IntakeOnly, FetchInv
<1>3. CASE Move
  BY <1>3, TypeParts DEF Move, FailDay, FetchInv
<1>4. CASE MarkDay
  BY <1>4, TypeParts DEF MarkDay, FailDay, manifestOf, FetchInv
<1>5. ASSUME NEW d \in Day, FetchDay(d) PROVE FetchInv'
  <2>. DEFINE list == Only({d}, source)
  <2>1. list \in found'[d]
    BY <1>5, LooksAdd, TypeParts DEF FetchDay, SourceType
  <2>2. /\ pc = "idle" /\ d \notin sealed /\ list # Empty
        /\ Names(Only({d}, inbox)) \subseteq Names(list)
        /\ fetch' = d /\ listing' = list /\ pending' = Names(list)
        /\ UNCHANGED <<pc, sealed, inbox>>
    BY <1>5 DEF FetchDay
  <2>3. ASSUME NEW f \in File
        PROVE  IF DayOf[f] = d THEN f \notin Names(list) => inbox[f] = list[f]
               ELSE list[f] = Absent
    BY <2>2 DEF Names, Only
  <2>. HIDE DEF list
  <2>. QED BY <2>1, <2>2, <2>3 DEF FetchInv
<1>6. CASE FetchFile
  <2>1. /\ pending \subseteq File /\ inbox \in Listing
        /\ First(pending) \in pending
    BY <1>6, FirstIsIn, Constants, TypeParts DEF FetchFile, FetchType, ReceiverType
  <2>2. inbox \in [File -> Size \cup {Absent}]
    BY <2>1 DEF Listing
  <2>. QED BY <1>6, <2>1, <2>2 DEF FetchFile, Rested, FetchInv
<1>7. CASE FetchAgain
  BY <1>7, TypeParts DEF FetchAgain, Rested, FetchInv
<1>8. CASE CutFetch
  BY <1>8, TypeParts DEF CutFetch, Rested, Cut, FetchInv
<1>9. CASE \/ Change \/ Take \/ EndIntake \/ BeginDay \/ EndDays \/ Clean
           \/ UnlinkLog \/ UnlinkMarker \/ CutIntake
  BY <1>9, TypeParts DEF Change, Take, IntakeOnly, EndIntake, Leave, BeginDay, EndDays,
     Clean, UnlinkLog, UnlinkMarker, CutIntake, Cut, FetchInv
<1>10. ASSUME NEW q \in Push, Copy(q) \/ Publish(q) \/ CutPush(q) \/ Age(q) PROVE FetchInv'
  BY <1>10, TypeParts DEF Copy, Publish, CutPush, Cut, Age, FetchInv
<1>. QED BY <1>1, <1>2, <1>3, <1>4, <1>5, <1>6, <1>7, <1>8, <1>9, <1>10, Steps

(* Every step of others leaves the push at hand alone, and every step of the
   intake keeps what is known of it. *)
LEMMA IntakeStep == ASSUME TypeOK, DoneInv, FetchInv, IntakeInv, Next PROVE IntakeInv'
<1>. USE DEF master, pushing, landed, receiver, intake, fetching
<1>1. CASE Change
  <2>1. UNCHANGED <<intake, landing, sealed>>
    BY <1>1 DEF Change
  <2>. QED BY <2>1 DEF IntakeInv
<1>2. ASSUME NEW q \in Push, Start(q) PROVE IntakeInv'
  <2>1. \A p \in Push : parsed[p] # NoMarker => stage[p] = "done"
    BY DEF DoneInv
  <2>2. at \in Push /\ LandedType
    BY TypeParts DEF IntakeType
  <2>3. /\ stage[q] # "done" /\ \A p \in Push \ {q} : landing'[p] = landing[p]
        /\ UNCHANGED intake /\ UNCHANGED sealed
    BY <1>2, <2>2 DEF Start, LandedType
  <2>. QED BY <2>1, <2>2, <2>3 DEF IntakeInv
<1>3. ASSUME NEW q \in Push, Copy(q) PROVE IntakeInv'
  <2>1. \A p \in Push : parsed[p] # NoMarker => stage[p] = "done"
    BY DEF DoneInv
  <2>2. at \in Push /\ LandedType
    BY TypeParts DEF IntakeType
  <2>3. /\ stage[q] # "done" /\ \A p \in Push \ {q} : landing'[p] = landing[p]
        /\ UNCHANGED intake /\ UNCHANGED sealed
    BY <1>3, <2>2 DEF Copy, EndPush, LandedType
  <2>. QED BY <2>1, <2>2, <2>3 DEF IntakeInv
<1>4. ASSUME NEW q \in Push, Publish(q) PROVE IntakeInv'
  <2>1. UNCHANGED <<intake, landing, sealed>>
    BY <1>4 DEF Publish
  <2>. QED BY <2>1 DEF IntakeInv
<1>5. ASSUME NEW q \in Push, CutPush(q) PROVE IntakeInv'
  <2>1. \A p \in Push : parsed[p] # NoMarker => stage[p] = "done"
    BY DEF DoneInv
  <2>2. at \in Push /\ LandedType
    BY TypeParts DEF IntakeType
  <2>3. /\ stage[q] # "done" /\ \A p \in Push \ {q} : landing'[p] = landing[p]
        /\ UNCHANGED intake /\ UNCHANGED sealed
    BY <1>5, <2>2 DEF CutPush, EndPush, Cut, LandedType
  <2>. QED BY <2>1, <2>2, <2>3 DEF IntakeInv
<1>6. ASSUME NEW q \in Push, Age(q) PROVE IntakeInv'
  <2>1. UNCHANGED <<intake, landing, sealed>>
    BY <1>6 DEF Age
  <2>. QED BY <2>1 DEF IntakeInv
<1>7. CASE Find
  BY <1>7 DEF Find, IntakeOnly, IntakeInv
<1>8. CASE Take
  <2>. DEFINE p == Following
  <2>1. CASE parsed[p] # NoMarker /\ Valid(parsed[p], landing[p])
    <3>1. Days(landing[p]) \subseteq Days(parsed[p])
      BY <2>1 DEF Valid, Days, Names
    <3>2. /\ pc' = "day" /\ at' = p /\ days' = Days(parsed[p])
          /\ UNCHANGED <<day, parsed, landing, sealed>>
      BY <1>8, <2>1 DEF Take, IntakeOnly
    <3>3. day = NoDay
      BY <1>8 DEF Take, IntakeInv
    <3>. HIDE DEF p
    <3>. QED BY <2>1, <3>1, <3>2, <3>3 DEF IntakeInv
  <2>2. CASE ~(parsed[p] # NoMarker /\ Valid(parsed[p], landing[p]))
    <3>1. pc' = (IF p \in old THEN "clean" ELSE "next") /\ expired' = (p \in old)
      BY <1>8, <2>2 DEF Take
    <3>2. p \in old => expired' = TRUE
      BY <3>1, Zenon
    <3>3. day = NoDay /\ day' = day
      BY <1>8 DEF Take, IntakeInv
    <3>. HIDE DEF p
    <3>. QED BY <3>1, <3>2, <3>3 DEF IntakeInv
  <2>. QED BY <2>1, <2>2
<1>9. CASE EndIntake
  BY <1>9 DEF EndIntake, IntakeOnly, Leave, IntakeInv
<1>10. CASE BeginDay
  <2>1. /\ pc = "day" /\ days \subseteq Nat /\ days # {}
    BY <1>10, TypeParts, Constants DEF BeginDay, IntakeType
  <2>. DEFINE d == First(days)
  <2>2. d \in days
    BY <2>1, FirstIsIn
  <2>3. /\ days' = days \ {d} /\ UNCHANGED <<at, parsed, landing, sealed, expired>>
    BY <1>10 DEF BeginDay, IntakeOnly
  <2>4. \/ d \in sealed /\ UNCHANGED <<pc, allDone, day, todo>>
        \/ pc' = "day" /\ day' = NoDay /\ allDone' = FALSE
        \/ /\ d \notin sealed /\ pc' = "move" /\ day' = d /\ allDone' = allDone
           /\ todo' \subseteq Names(Only({d}, parsed[at]))
    BY <1>10 DEF BeginDay, FailDay, manifestOf
  <2>5. NoDay \notin Days(parsed[at])
    BY Constants DEF Days, Names
  <2>. HIDE DEF d
  <2>. QED BY <2>1, <2>2, <2>3, <2>4, <2>5 DEF IntakeInv
<1>11. CASE Move
  <2>1. /\ at \in Push /\ LandedType
    BY TypeParts DEF IntakeType
  <2>2. Days(landing'[at]) \subseteq Days(landing[at])
    BY <1>11, <2>1 DEF Move, LandedType, Days, Names
  <2>3. /\ pc = "move" /\ UNCHANGED <<at, parsed, days, sealed, expired>>
        /\ \/ todo' \subseteq todo /\ UNCHANGED <<pc, allDone, day>>
           \/ pc' = "day" /\ day' = NoDay /\ allDone' = FALSE
    BY <1>11 DEF Move, FailDay
  <2>. QED BY <2>2, <2>3 DEF IntakeInv
<1>12. CASE MarkDay
  BY <1>12 DEF MarkDay, FailDay, manifestOf, IntakeInv
<1>13. CASE EndDays
  <2>1. pc = "day" => day = NoDay /\ NoDay \notin Days(parsed[at])
    BY Constants DEF IntakeInv, Days, Names
  <2>. QED BY <1>13, <2>1 DEF EndDays, IntakeOnly, IntakeInv
<1>14. CASE Clean
  BY <1>14 DEF Clean, IntakeOnly, IntakeInv
<1>15. CASE UnlinkLog
  <2>1. at \in Push /\ LandedType
    BY TypeParts DEF IntakeType
  <2>2. Days(landing'[at]) \subseteq Days(landing[at])
    <3>1. \A f \in File : landing'[at][f] \in {landing[at][f], Absent}
      <4>. DEFINE g == First(todo \cap File)
      <4>1. landing' = landing \/ landing' = [landing EXCEPT ![at][g] = Absent]
        BY <1>15 DEF UnlinkLog
      <4>2. landing \in [Push -> [File -> Size \cup {Absent, Part}]]
        BY <2>1 DEF LandedType
      <4>. HIDE DEF g
      <4>. QED BY <2>1, <4>1, <4>2
    <3>. QED BY <3>1 DEF Days, Names
  <2>. QED BY <1>15, <2>2 DEF UnlinkLog, Leave, IntakeInv
<1>16. CASE UnlinkMarker
  BY <1>16 DEF UnlinkMarker, Leave, IntakeInv
<1>17. CASE CutIntake
  BY <1>17 DEF CutIntake, Leave, Cut, IntakeInv
<1>18. ASSUME NEW d \in Day, FetchDay(d) PROVE IntakeInv'
  <2>1. UNCHANGED <<intake, landing, sealed>>
    BY <1>18 DEF FetchDay
  <2>. QED BY <2>1 DEF IntakeInv
<1>19. CASE FetchFile
  <2>1. UNCHANGED <<intake, landing, sealed>>
    BY <1>19 DEF FetchFile
  <2>. QED BY <2>1 DEF IntakeInv
<1>20. CASE FetchAgain
  BY <1>20 DEF FetchAgain, Rested, IntakeInv, FetchInv
<1>21. CASE CutFetch
  <2>1. UNCHANGED <<intake, landing, sealed>>
    BY <1>21 DEF CutFetch
  <2>. QED BY <2>1 DEF IntakeInv
<1>. QED BY <1>1, <1>2, <1>3, <1>4, <1>5, <1>6, <1>7, <1>8, <1>9, <1>10, <1>11, <1>12,
            <1>13, <1>14, <1>15, <1>16, <1>17, <1>18, <1>19, <1>20, <1>21, Steps

-----------------------------------------------------------------------------
(* The theorems.                                                           *)

(* At the start nothing has happened. *)
LEMMA InitInv == Init => IInv
<1>. SUFFICES ASSUME Init PROVE IInv
  OBVIOUS
<1>1. source \in Listing
  BY Constants DEF Init, Listing
<1>2. at \in Push
  BY Constants, FirstIsIn DEF Init
<1>3. TypeOK
  <2>1. SourceType /\ PushType /\ ReceiverType
    BY <1>1, Lists DEF Init, SourceType, PushType, ReceiverType
  <2>2. LandedType
    BY DEF Init, LandedType, Empty
  <2>3. IntakeType
    BY <1>2 DEF Init, IntakeType
  <2>4. FetchType /\ CountType
    BY Constants, Lists DEF Init, FetchType, CountType
  <2>. QED BY <2>1, <2>2, <2>3, <2>4, TypeParts
<1>4. FoundInv
  BY EmptyIsFound DEF Init, FoundInv
<1>. QED BY <1>3, <1>4 DEF Init, IInv, DoneInv, FetchInv, IntakeInv

(* The inductive invariant: the types, what lists were found, which pushes *)
(* are done, and what a fetch and an intake know of the day at hand.       *)
THEOREM Invariance == Spec => []IInv
<1>1. ASSUME IInv, [Next]_vars PROVE IInv'
  <2>1. TypeOK /\ FoundInv /\ DoneInv /\ FetchInv /\ IntakeInv
    BY <1>1 DEF IInv
  <2>2. CASE Next
    <3>1. TypeOK'
      <4>1. /\ SourceType' /\ PushType' /\ LandedType' /\ ReceiverType'
            /\ IntakeType' /\ FetchType' /\ CountType'
        BY <2>1, <2>2, TypeParts, SourceTypeStep, PushTypeStep, LandedTypeStep,
           ReceiverTypeStep, IntakeTypeStep, FetchTypeStep, CountTypeStep
      <4>. QED BY <4>1 DEF TypeOK, SourceType, PushType, LandedType, ReceiverType,
                           IntakeType, FetchType, CountType
    <3>2. FoundInv' /\ DoneInv'
      BY <2>1, <2>2, FoundStep, DoneStep
    <3>3. FetchInv' /\ IntakeInv'
      BY <2>1, <2>2, FetchStep, IntakeStep
    <3>. QED BY <3>1, <3>2, <3>3 DEF IInv
  <2>3. CASE UNCHANGED vars
    BY <2>1, <2>3 DEF vars, IInv, TypeOK, FoundInv, DoneInv, FetchInv, IntakeInv
  <2>. QED BY <1>1, <2>2, <2>3
<1>. QED BY <1>1, InitInv, PTL DEF Spec

(* NothingUnreceivedGoes: an intake deletes the logs of a push only when   *)
(* their days are marked in the receiving directory, or when the push has  *)
(* expired, whatever pushes, fetches, changes and cuts came between.       *)
THEOREM OnlyReceivedIsDeleted == Spec => NothingUnreceivedGoes
<1>1. ASSUME IInv, [Next]_vars
      PROVE  \A p \in Push, f \in File :
                UnlinkLog /\ at = p /\ landing[p][f] # Absent /\ landing'[p][f] = Absent
                => DayOf[f] \in sealed \/ expired
  <2>. SUFFICES ASSUME NEW f \in File, UnlinkLog, landing[at][f] # Absent, ~expired
                PROVE  DayOf[f] \in sealed
    OBVIOUS
  <2>1. pc = "unlink"
    BY DEF UnlinkLog
  <2>2. Days(landing[at]) \subseteq sealed
    BY <1>1, <2>1 DEF IInv, IntakeInv
  <2>. QED BY <2>2 DEF Days, Names
<1>2. IInv /\ [Next]_vars =>
        [\A p \in Push, f \in File :
            UnlinkLog /\ at = p /\ landing[p][f] # Absent /\ landing'[p][f] = Absent
            => DayOf[f] \in sealed \/ expired]_vars
  BY <1>1
<1>. QED BY <1>2, Invariance, PTL DEF Spec, NothingUnreceivedGoes

(* What the receiving directory promises: the content of marked days. *)
Marked == [d \in Day |-> IF d \in sealed THEN Only({d}, inbox) ELSE NoMarker]

(* A step that changes neither what was found nor a marked day. *)
LEMMA NothingSealed ==
  ASSUME found' = found, sealed' = sealed,
         \A f \in File : DayOf[f] \in sealed => inbox'[f] = inbox[f]
  PROVE  UNCHANGED Received!vars
<1>1. \A d \in sealed : Only({d}, inbox') = Only({d}, inbox)
  BY DEF Only
<1>. QED BY <1>1 DEF Received!vars

(* A step that marks a day with a content that was found. *)
LEMMA DaySealed ==
  ASSUME ReceiverType, NEW d \in Day \ sealed, found' = found, inbox' = inbox,
         sealed' = sealed \cup {d}, Only({d}, inbox) \in found[d] \ {Empty}
  PROVE  Received!Next
<1>1. Marked' = [Marked EXCEPT ![d] = Only({d}, inbox)] /\ Marked[d] = NoMarker
  BY DEF Marked
<1>. QED BY <1>1 DEF Marked, Received!Next, Received!Seal

(* A refinement.  Every step of the transfer looks at the source, or seals *)
(* one day with what a look found of it, or leaves what was found and the  *)
(* marked days as they are: a marker is only placed on a whole day, and    *)
(* no file of a marked day is ever added, replaced or removed.             *)
THEOREM SealedDaysAreImplemented == Spec => ImplementsSealedDays
<1>1. Init => Received!Init
  BY DEF Init, Received!Init
<1>2. ASSUME IInv, [Next]_vars PROVE [Received!Next]_(Received!vars)
  <2>. USE DEF master, pushing, landed, receiver, intake, fetching
  <2>1. /\ SourceType /\ ReceiverType /\ IntakeType /\ FetchType
        /\ FoundInv /\ FetchInv /\ IntakeInv
    BY <1>2, TypeParts DEF IInv
  <2>2. ASSUME NEW p \in Push, Start(p) PROVE Received!Next
    <3>1. sealed' = sealed /\ inbox' = inbox
      BY <2>2 DEF Start
    <3>2. found' \in [Day -> SUBSET Listing] /\ \A d \in Day : found[d] \subseteq found'[d]
      BY <2>1, <2>2, LooksAdd DEF Start, SourceType
    <3>. QED BY <3>1, <3>2 DEF Received!Next, Received!Look
  <2>3. ASSUME NEW d \in Day, FetchDay(d) PROVE Received!Next
    <3>1. sealed' = sealed /\ inbox' = inbox
      BY <2>3 DEF FetchDay
    <3>2. found' \in [Day -> SUBSET Listing] /\ \A e \in Day : found[e] \subseteq found'[e]
      BY <2>1, <2>3, LooksAdd DEF FetchDay, SourceType
    <3>. QED BY <3>1, <3>2 DEF Received!Next, Received!Look
  <2>4. CASE Move
    <3>1. /\ pc = "move" /\ todo \subseteq File /\ First(todo) \in todo
      <4>1. pc = "move" /\ todo \subseteq File /\ todo # {}
        BY <2>1, <2>4 DEF Move, IntakeInv, Names
      <4>. QED BY <4>1, FirstIsIn, Constants
    <3>2. DayOf[First(todo)] \notin sealed
      BY <2>1, <3>1 DEF IntakeInv, Names, Only
    <3>3. /\ found' = found /\ sealed' = sealed
          /\ \A f \in File : f # First(todo) => inbox'[f] = inbox[f]
      BY <2>1, <2>4 DEF Move, ReceiverType, Listing
    <3>. QED BY <3>2, <3>3, NothingSealed
  <2>5. CASE FetchFile
    <3>1. /\ fetch # NoDay /\ pending \subseteq File /\ First(pending) \in pending
      BY <2>1, <2>5, FirstIsIn, Constants DEF FetchFile, FetchType
    <3>2. DayOf[First(pending)] \notin sealed
      BY <2>1, <3>1 DEF FetchInv, Names
    <3>3. /\ found' = found /\ sealed' = sealed
          /\ \A f \in File : f # First(pending) => inbox'[f] = inbox[f]
      BY <2>1, <2>5 DEF FetchFile, ReceiverType, Listing
    <3>. QED BY <3>2, <3>3, NothingSealed
  <2>6. CASE MarkDay
    <3>1. pc = "move" /\ day \in Days(parsed[at]) \ sealed /\ parsed[at] # NoMarker
      BY <2>1, <2>6 DEF MarkDay, IntakeInv
    <3>2. CASE Only({day}, inbox) = manifestOf(day)
      <4>1. day \in Day /\ Only({day}, inbox) # Empty
        BY <3>1, <3>2, DayHasFiles DEF manifestOf
      <4>2. Only({day}, inbox) \in found[day] \cup {Empty}
        BY <2>1, <3>1, <3>2, <4>1 DEF manifestOf, FoundInv, AsFound, IntakeType
      <4>3. sealed' = sealed \cup {day} /\ inbox' = inbox /\ found' = found
        BY <2>6, <3>2 DEF MarkDay
      <4>. QED BY <2>1, <3>1, <4>1, <4>2, <4>3, DaySealed
    <3>3. CASE Only({day}, inbox) # manifestOf(day)
      <4>1. sealed' = sealed /\ inbox' = inbox /\ found' = found
        BY <2>6, <3>3 DEF MarkDay
      <4>. QED BY <4>1, NothingSealed
    <3>. QED BY <3>2, <3>3
  <2>7. CASE FetchAgain
    <3>1. /\ fetch \in Day \ sealed /\ listing \in found[fetch] \ {Empty}
          /\ \A f \in File : IF DayOf[f] = fetch THEN inbox[f] = listing[f]
                             ELSE listing[f] = Absent
      BY <2>1, <2>7 DEF FetchAgain, FetchInv, FetchType
    <3>2. Only({fetch}, inbox) = listing
      BY <2>1, <3>1 DEF Only, FetchType, Listing
    <3>3. /\ inbox' = inbox /\ found' = found
          /\ sealed' \in {sealed, sealed \cup {fetch}}
      BY <2>7 DEF FetchAgain
    <3>. QED BY <2>1, <3>1, <3>2, <3>3, DaySealed, NothingSealed
  <2>8. CASE \/ Change \/ Find \/ Take \/ EndIntake \/ BeginDay \/ EndDays \/ Clean
             \/ UnlinkLog \/ UnlinkMarker \/ CutIntake \/ CutFetch
             \/ \E p \in Push : Copy(p) \/ Publish(p) \/ CutPush(p) \/ Age(p)
    <3>1. found' = found /\ sealed' = sealed /\ inbox' = inbox
      BY <2>8 DEF Change, Find, Take, EndIntake, BeginDay, EndDays, Clean, UnlinkLog,
                  UnlinkMarker, CutIntake, CutFetch, Copy, Publish, CutPush, Age, IntakeOnly
    <3>. QED BY <3>1, NothingSealed
  <2>9. CASE UNCHANGED vars
    BY <2>9, NothingSealed DEF vars
  <2>. QED BY <1>2, <2>2, <2>3, <2>4, <2>5, <2>6, <2>7, <2>8, <2>9, Steps
<1>. QED BY <1>1, <1>2, Invariance, PTL DEF Spec, ImplementsSealedDays, Received!Spec
=============================================================================
