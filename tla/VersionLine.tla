---------------------------- MODULE VersionLine ----------------------------
(***************************************************************************)
(* What publication promises (sql_apm/storage/publication.py, and the      *)
(* tables publication and current_version): every build is answered at     *)
(* most once, every answer names the version that was current when it was  *)
(* given, and only the answer "published" moves the current version, on    *)
(* to the build that was answered.  Who publishes, and what crashes, is    *)
(* not seen here; ClusterTask implements this module.                      *)
(***************************************************************************)
CONSTANTS
    Build,     \* the builds a cluster may ever have
    None       \* no build: not an element of Build

VARIABLES
    result,    \* publication.result of each build
    previous,  \* publication.previous_build_id
    current    \* current_version.build_id

vars == <<result, previous, current>>

Answers == {"published", "no_samples", "check_failed", "publish_failed"}

TypeOK ==
    /\ result \in [Build -> Answers \cup {"none"}]
    /\ previous \in [Build -> Build \cup {None}]
    /\ current \in Build \cup {None}

Init ==
    /\ result = [b \in Build |-> "none"]
    /\ previous = [b \in Build |-> None]
    /\ current = None

Answer(b, answer) ==
    /\ result[b] = "none"
    /\ result' = [result EXCEPT ![b] = answer]
    /\ previous' = [previous EXCEPT ![b] = current]
    /\ current' = IF answer = "published" THEN b ELSE current

Next == \E b \in Build, answer \in Answers : Answer(b, answer)

Spec == Init /\ [][Next]_vars

-----------------------------------------------------------------------------
Published == {b \in Build : result[b] = "published"}

\* The published versions form one line that ends at the current one: no two
\* of them replaced the same version, and every one but the current was
\* replaced (previous_build_id as PublicationStore._record reads it).
LinearHistory ==
    /\ \A a, b \in Published : previous[a] = previous[b] => a = b
    /\ \A a \in Published : a # current => \E b \in Published : previous[b] = a
    /\ current # None => current \in Published
    /\ \A a \in Published : previous[a] # None => previous[a] \in Published \ {current}
=============================================================================
