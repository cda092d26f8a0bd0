---------------------------- MODULE KeyVersions ----------------------------
(***************************************************************************)
(* The version a replica has observed of a key, and the rules of           *)
(* internal/versioning/version.go for moving it.  A row of the table       *)
(* replica_key_versions is a version and a status; "unknown" is the row    *)
(* that does not exist.  Each rule of the code reads the row, decides, and *)
(* upserts a new one: the decision and the new row are separate operators, *)
(* because the module that composes them puts a database step between.     *)
(***************************************************************************)
EXTENDS Integers

\* KeyVersionStatus.  "superseded" is written only by SupersedeKey, which
\* nothing calls.
KeyStatus == {"unknown", "valid", "pending_invalidation", "stale", "superseded"}

Row   == [version : Int, status : KeyStatus]
NoRow == [version |-> 0, status |-> "unknown"]

Absent(cur) == cur.status = "unknown"

\* Mutant of ObserveOK: a version of any sign is observed.
ObserveAny(cur, v) == Absent(cur) \/ v >= cur.version

\* ObserveVersion refuses a version that is not positive or is older than the
\* row, leaves a row of the same version as it is, and moves to a newer one.
ObserveOK(cur, v) == v > 0 /\ (Absent(cur) \/ v >= cur.version)
Observed(cur, v)  == IF ~Absent(cur) /\ v = cur.version
                     THEN cur
                     ELSE [version |-> v, status |-> "valid"]

\* Mutant of InvalidateOK: the target is not compared with the row.
InvalidateAlways(cur, v) == TRUE

\* InvalidateKey takes any target that is not older than the row, even one
\* that is not positive.
InvalidateOK(cur, v) == Absent(cur) \/ v >= cur.version
Invalidated(cur, v)  == [version |-> v,
                         status  |-> IF cur.status = "valid" /\ cur.version = v
                                     THEN "pending_invalidation"
                                     ELSE "stale"]

\* ConfirmInvalidation needs a row and keeps its version.
Confirmed(cur) == [cur EXCEPT !.status = "stale"]

\* Mutant of ConvergedFor: the status is not looked at.
SameVersion(cur, v) == ~Absent(cur) /\ cur.version = v

\* IsConvergedFor: an absent row is never converged.
ConvergedFor(cur, v) == cur.version = v /\ cur.status \in {"valid", "superseded"}

=============================================================================
