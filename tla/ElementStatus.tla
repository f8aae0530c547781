--------------------------- MODULE ElementStatus ---------------------------
(***************************************************************************)
(* The table by which a parent element, a plan or a phase, gets its status  *)
(* from those of its children: ParentStatus of what they are at one moment, *)
(* StatusesRead of what they are in the course of a read, which has no lock *)
(* and asks them again in each of its cases.                                *)
(***************************************************************************)

StepStatuses == {"PENDING", "PREPARED", "STARTING", "STARTED", "COMPLETE"}

(* Mutant of ParentStatus: the children that are not candidates decide.     *)
ParentStatusAnyChild(kids, cands, isInterrupted) ==
    CASE kids \subseteq {"COMPLETE"} -> "COMPLETE"
      [] isInterrupted -> "WAITING"
      [] "PREPARED" \in kids -> "IN_PROGRESS"
      [] "WAITING" \in cands -> "WAITING"
      [] "PENDING" \in cands -> "PENDING"
      [] OTHER -> "ERROR"

(* ParentElement.getStatus, when nothing moves while it reads: from the     *)
(* statuses of the children and of those that are candidates.  Its order    *)
(* matters.                                                                 *)
ParentStatus(kids, cands, isInterrupted) ==
    IF "ERROR" \in kids THEN "ERROR"
    ELSE IF kids \subseteq {"COMPLETE"} THEN "COMPLETE"
    ELSE IF isInterrupted THEN "WAITING"
    ELSE IF "PREPARED" \in kids THEN "IN_PROGRESS"
    ELSE IF "WAITING" \in cands THEN "WAITING"
    ELSE IF \/ "IN_PROGRESS" \in cands
            \/ "COMPLETE" \in kids /\ cands \cap {"PENDING", "STARTING", "STARTED"} # {} THEN "IN_PROGRESS"
    ELSE IF "PENDING" \in cands THEN "PENDING"
    ELSE IF "WAITING" \in kids THEN "WAITING"
    ELSE IF "STARTING" \in cands THEN "STARTING"
    ELSE IF "STARTED" \in cands THEN "STARTED"
    ELSE "ERROR"

(* The same, when child c has the statuses seen[c] while it reads: every    *)
(* test may meet another of them, so that a case may hold, not hold, or     *)
(* both.  A child that moves between two tests may fit none: ERROR.         *)
StatusesRead(seen, cands, isInterrupted) ==
    LET kids == DOMAIN seen
        Any(cs, st) == \E c \in cs : st \in seen[c]
        NotAny(cs, st) == \A c \in cs : seen[c] # {st}
        Case(may, mayNot, shows, rest) == (IF may THEN {shows} ELSE {}) \cup (IF mayNot THEN rest ELSE {})
        OneOf(cs, st, rest) == Case(Any(cs, st), NotAny(cs, st), st, rest)
        partly == {"PENDING", "STARTING", "STARTED"} IN
    OneOf(kids, "ERROR",
    Case(\A c \in kids : "COMPLETE" \in seen[c], \E c \in kids : seen[c] # {"COMPLETE"}, "COMPLETE",
    Case(isInterrupted, ~isInterrupted, "WAITING",
    Case(Any(kids, "PREPARED"), NotAny(kids, "PREPARED"), "IN_PROGRESS",
    OneOf(cands, "WAITING",
    OneOf(cands, "IN_PROGRESS",
    Case(\E st \in partly : Any(kids, "COMPLETE") /\ Any(cands, st),
         \A st \in partly : NotAny(kids, "COMPLETE") \/ NotAny(cands, st), "IN_PROGRESS",
    OneOf(cands, "PENDING",
    OneOf(kids, "WAITING",
    OneOf(cands, "STARTING",
    OneOf(cands, "STARTED", {"ERROR"})))))))))))
=============================================================================
