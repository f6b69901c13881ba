---------------------------- MODULE MCBackground ----------------------------
\* What works beside the user: the files and what the language servers report.
\* The two share no state, and a behaviour is one of one of them.
EXTENDS DiskFile, LspReports

VARIABLE part

parts == <<part, fileVars, reportVars>>

\* The report is there and nobody asks.
NoReports ==
    /\ kind = "diagnostics" /\ version = 0 /\ report = Placed(0, 0) /\ previous = 0
    /\ pulls = [q \in Pulls |-> Resting] /\ push = Resting
    /\ session = "ready" /\ process = 0 /\ mishaps = {}

Init ==
    \/ part = "files" /\ FileInit /\ NoReports
    \/ part = "reports" /\ ReportsInit /\ FileInit /\ atomic /\ watching

Next ==
    \/ part = "files" /\ FileNext /\ UNCHANGED <<part, reportVars>>
    \/ part = "reports" /\ ReportsNext /\ UNCHANGED <<part, fileVars>>

\* Nothing is assumed of who asks and answers.  When the files rest their steps
\* are fair, since none can be taken.
Spec == Init /\ [][Next]_parts /\ FileFairness
=============================================================================
