-------------------------- MODULE FulfillmentHistory --------------------------
(***************************************************************************)
(* Fulfillment with two history variables.  They change no behaviour: each *)
(* remembers one overlap the code does not keep out, so that a property    *)
(* can say what holds short of exactly that overlap, while every other     *)
(* interleaving of the handlers stays in.                                  *)
(***************************************************************************)
EXTENDS Fulfillment

VARIABLES
    crossed,    \* a resolution wrote an incident another one moved since it was read
    late        \* a report went in while a completion was about to write, or after it

histVars == <<vars, crossed, late>>

-----------------------------------------------------------------------------
Completing == \E r \in Requests : req[r].op = "complete"

Crosses(r) ==
    LET row == incidents[req[r].incident]
    IN  \/ CommitPropose(r) /\ row.status = "RESOLVED"
        \/ CommitAccept(r) /\ (row.status = "RESOLVED" \/ row.accepted # req[r].seen)

ReportsLate(r) ==
    /\ CommitReport(r)
    /\ Completing \/ record.status = "FULFILLMENT_COMPLETED"

HistInit == Init /\ crossed = FALSE /\ late = FALSE

HistNext ==
    /\ Next
    /\ crossed' = (crossed \/ \E r \in Requests : Crosses(r))
    /\ late' = (late \/ \E r \in Requests : ReportsLate(r))

HistSpec == HistInit /\ [][HistNext]_histVars

-----------------------------------------------------------------------------
\* Once both sides have accepted, the incident is resolved and stays so, unless a
\* resolution wrote over one it had not read ("Double acceptance").
BothAcceptedResolves ==
    \A i \in Incidents :
        incidents[i].accepted = Sides => incidents[i].status = "RESOLVED" \/ crossed

\* A completed fulfillment has no unresolved blocking incident, and gets none later,
\* unless resolutions crossed or a report came late ("Completion after resolution").
CompletedHasNoBlockingIncident ==
    record.status = "FULFILLMENT_COMPLETED" =>
        \/ crossed \/ late
        \/ \A i \in Incidents : incidents[i].status \in {"ABSENT", "RESOLVED"}
                                  \/ ~(incidents[i].flag \/ incidents[i].typeBlocks)

=============================================================================
