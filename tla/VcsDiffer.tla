----------------------------- MODULE VcsDiffer -----------------------------
(***************************************************************************)
(* The version-control session for one document (internal/vcs/session.go,  *)
(* differ.go): goroutines that load the base of the diff, the differ with  *)
(* its worker, and the UI thread that edits, saves, closes and draws.      *)
(* Texts and heads are numbered by their versions; hunks are the pair of   *)
(* versions they were computed from.                                       *)
(*                                                                         *)
(*   head     the commit the repository is at                              *)
(*   text     the text of the document; `shown' whether it is open         *)
(*   loading  the flag of ensureDiffBase                                   *)
(*   load     the goroutines in loadDiffBase                               *)
(*   differ   the differ of the document, with its channel and worker      *)
(*   headID   the head the base is taken to be of                          *)
(*   sending  a text the UI thread waits to send to the worker             *)
(*   token    the channel of updates, of size one                          *)
(*   drawn    the hunks that were last drawn                               *)
(*   missed   not in the code: that the differ started from a text that    *)
(*            had been edited since ("edit"), or that its base may not be  *)
(*            that of headID ("head")                                      *)
(***************************************************************************)
EXTENDS Integers, Sequences

CONSTANTS Loads,      \* loads at a time
          Capacity,   \* of the channel of events; 64 in the code
          MaxText,    \* bound: edits
          MaxHead     \* bound: commits

ASSUME VcsAssumption == /\ Capacity \in Nat \ {0}
                        /\ MaxText \in Nat /\ MaxHead \in Nat

VARIABLES head, text, shown, loading, load, differ, headID, sending, token,
          drawn, missed

vcsVars == <<head, text, shown, loading, load, differ, headID, sending, token,
             drawn, missed>>

Nothing == -1
Texts == 0 .. MaxText
Heads == 0 .. MaxHead

NoLoad == [at |-> "none", ensure |-> FALSE, text |-> 0, base |-> 0, head |-> 0,
           to |-> 0]
Idling == {l \in Loads : load[l].at = "none"}

\* No hunks are shown for a document without a differ.
NoHunks == [base |-> Nothing, doc |-> Nothing]
NoDiffer == [life |-> 0, base |-> 0, doc |-> 0, hunks |-> NoHunks,
             events |-> <<>>, work |-> "none"]
HasDiffer == differ.work # "none"

\* Mutant: the first hunks are not computed.
NewDifferIdle(base, doc) ==
    [life |-> differ.life + 1, base |-> base, doc |-> doc, hunks |-> NoHunks,
     events |-> <<>>, work |-> "idle"]

\* NewDiffer: the worker starts with a recompute.
NewDiffer(base, doc) ==
    [life |-> differ.life + 1, base |-> base, doc |-> doc, hunks |-> NoHunks,
     events |-> <<>>, work |-> "computing"]

\* Mutant: one event more than the channel holds.
HasRoomForOneMore == Len(differ.events) <= Capacity
HasRoom == Len(differ.events) < Capacity
Send(kind, value) ==
    [differ EXCEPT !.events = Append(@, [kind |-> kind, value |-> value])]

VcsInit ==
    /\ head = 0 /\ text = 0 /\ shown = FALSE /\ loading = FALSE
    /\ load = [l \in Loads |-> NoLoad]
    /\ differ = NoDiffer /\ headID = Nothing
    /\ sending = Nothing /\ token = FALSE /\ drawn = NoHunks /\ missed = {}

\* A goroutine is started, any that is idle; the text is the one of this moment.
StartLoad(ensure) ==
    /\ Idling # {}
    /\ LET l == CHOOSE l \in Idling : TRUE
       IN  load' = [load EXCEPT ![l] = [NoLoad EXCEPT !.at = "start",
                                                      !.ensure = ensure,
                                                      !.text = text]]

\* ensureDiffBase: one load at a time, until there is a differ.
EnsureDiffBase ==
    IF HasDiffer \/ loading
    THEN UNCHANGED <<loading, load>>
    ELSE loading' = TRUE /\ StartLoad(TRUE)

DocumentOpened ==
    /\ ~ shown /\ differ.life = 0 /\ headID = Nothing /\ ~ loading
    /\ shown' = TRUE
    /\ EnsureDiffBase
    /\ UNCHANGED <<head, text, differ, headID, sending, token, drawn, missed>>

\* The UI thread is free.
Ui == shown /\ sending = Nothing

\* An edit; the UI thread waits when the channel is full.
DocumentChanged ==
    /\ Ui /\ text < MaxText
    /\ text' = text + 1
    /\ IF ~ HasDiffer
       THEN UNCHANGED <<differ, sending, missed>>
       ELSE /\ missed' = missed \ {"edit"}
            /\ IF HasRoom
               THEN differ' = Send("doc", text') /\ UNCHANGED sending
               ELSE sending' = text' /\ UNCHANGED differ
    /\ UNCHANGED <<head, shown, loading, load, headID, token, drawn>>

TextSent ==
    /\ sending # Nothing /\ HasRoom
    /\ differ' = Send("doc", sending)
    /\ sending' = Nothing
    /\ UNCHANGED <<head, text, shown, loading, load, headID, token, drawn, missed>>

DocumentSaved ==
    /\ Ui /\ StartLoad(FALSE)
    /\ UNCHANGED <<head, text, shown, loading, differ, headID, sending, token,
                   drawn, missed>>

\* Refresh: the repository has another head than the one that is known.
Refresh ==
    /\ Ui /\ headID # Nothing /\ headID # head /\ HasDiffer
    /\ StartLoad(FALSE)
    /\ UNCHANGED <<head, text, shown, loading, differ, headID, sending, token,
                   drawn, missed>>

DocumentClosed ==
    /\ Ui
    /\ shown' = FALSE
    /\ differ' = [NoDiffer EXCEPT !.life = differ.life]
    /\ headID' = Nothing
    /\ UNCHANGED <<head, text, loading, load, sending, token, drawn, missed>>

\* The UI draws the hunks, for the token of an update or for its own reasons.
Draw ==
    /\ Ui
    /\ token' = FALSE
    /\ drawn' = differ.hunks
    /\ EnsureDiffBase
    /\ UNCHANGED <<head, text, shown, differ, headID, sending, missed>>

\* Somebody commits.
Commit ==
    /\ head < MaxHead
    /\ head' = head + 1
    /\ UNCHANGED <<text, shown, loading, load, differ, headID, sending, token,
                   drawn, missed>>

-----------------------------------------------------------------------------
\* loadDiffBase.

LoadEnds(l) ==
    /\ load' = [load EXCEPT ![l] = NoLoad]
    /\ loading' = (loading /\ ~ load[l].ensure)

ReadBase(l) ==
    /\ load[l].at = "start"
    /\ load' = [load EXCEPT ![l].at = "read", ![l].base = head]
    /\ UNCHANGED <<head, text, shown, loading, differ, headID, sending, token,
                   drawn, missed>>

\* The file is not tracked, or git fails.
NoBase(l) ==
    /\ load[l].at = "start"
    /\ LoadEnds(l)
    /\ UNCHANGED <<head, text, shown, differ, headID, sending, token, drawn, missed>>

ReadHeadID(l) ==
    /\ load[l].at = "read"
    /\ load' = [load EXCEPT ![l].at = "named", ![l].head = head]
    /\ UNCHANGED <<head, text, shown, loading, differ, headID, sending, token,
                   drawn, missed>>

\* The base may not be that of the head that is taken down for it.
Doubtful(l) ==
    \/ load[l].base # load[l].head
    \/ \E k \in Loads \ {l} : load[k].at = "sending"

\* Mutant: a differ is started even if there is one.
InstallBaseAlways(l) ==
    /\ load[l].at = "named"
    /\ headID' = load[l].head
    /\ missed' = {m \in missed : m # "head"}
                    \union {m \in {"head"} : Doubtful(l)}
                    \union {m \in {"edit"} : ~ HasDiffer /\ load[l].text # text}
    /\ differ' = NewDiffer(load[l].base, load[l].text)
    /\ token' = TRUE
    /\ LoadEnds(l)
    /\ UNCHANGED <<head, text, shown, sending, drawn>>

\* Under the lock: the base is for the differ there is, or a new one.
InstallBase(l) ==
    /\ load[l].at = "named"
    /\ headID' = load[l].head
    /\ missed' = {m \in missed : m # "head"}
                    \union {m \in {"head"} : Doubtful(l)}
                    \union {m \in {"edit"} : ~ HasDiffer /\ load[l].text # text}
    /\ IF HasDiffer
       THEN /\ load' = [load EXCEPT ![l].at = "sending", ![l].to = differ.life]
            /\ UNCHANGED <<loading, differ, token>>
       ELSE /\ differ' = NewDiffer(load[l].base, load[l].text)
            /\ token' = TRUE
            /\ LoadEnds(l)
    /\ UNCHANGED <<head, text, shown, sending, drawn>>

\* SetBase, outside the lock, to the differ that was found.
SendBase(l) ==
    /\ load[l].at = "sending"
    /\ LET open == HasDiffer /\ differ.life = load[l].to
       IN  /\ open => HasRoom
           /\ differ' = IF open THEN Send("base", load[l].base) ELSE differ
    /\ LoadEnds(l)
    /\ UNCHANGED <<head, text, shown, headID, sending, token, drawn, missed>>

-----------------------------------------------------------------------------
\* The worker.

\* run and settle: events are taken until none comes for a while.
TakeEvent ==
    /\ differ.work \in {"idle", "settling"} /\ differ.events # <<>>
    /\ LET event == Head(differ.events)
       IN  differ' = [differ EXCEPT !.work = "settling", !.events = Tail(@),
                        !.base = IF event.kind = "base" THEN event.value ELSE @,
                        !.doc = IF event.kind = "doc" THEN event.value ELSE @]
    /\ UNCHANGED <<head, text, shown, loading, load, headID, sending, token,
                   drawn, missed>>

Settled ==
    /\ differ.work = "settling"
    /\ differ' = [differ EXCEPT !.work = "computing"]
    /\ UNCHANGED <<head, text, shown, loading, load, headID, sending, token,
                   drawn, missed>>

\* Mutant: nobody is told.
RecomputeSilently ==
    /\ differ.work = "computing"
    /\ differ' = [differ EXCEPT !.work = "idle",
                    !.hunks = [base |-> differ.base, doc |-> differ.doc]]
    /\ UNCHANGED <<head, text, shown, loading, load, headID, sending, token,
                   drawn, missed>>

\* Mutant: the worker waits until the token can be sent.
RecomputeWaits ==
    /\ differ.work = "computing" /\ ~ token
    /\ differ' = [differ EXCEPT !.work = "idle",
                    !.hunks = [base |-> differ.base, doc |-> differ.doc]]
    /\ token' = TRUE
    /\ UNCHANGED <<head, text, shown, loading, load, headID, sending, drawn, missed>>

\* recompute, and the token unless there is one.
Recompute ==
    /\ differ.work = "computing"
    /\ differ' = [differ EXCEPT !.work = "idle",
                    !.hunks = [base |-> differ.base, doc |-> differ.doc]]
    /\ token' = TRUE
    /\ UNCHANGED <<head, text, shown, loading, load, headID, sending, drawn, missed>>

LoadStep(l) ==
    ReadBase(l) \/ NoBase(l) \/ ReadHeadID(l) \/ InstallBase(l) \/ SendBase(l)
WorkerStep == TakeEvent \/ Settled \/ Recompute

VcsNext ==
    \/ DocumentOpened \/ DocumentChanged \/ TextSent \/ DocumentSaved \/ Refresh
    \/ DocumentClosed \/ Draw \/ Commit
    \/ \E l \in Loads : LoadStep(l)
    \/ WorkerStep

\* The goroutines run, and the UI thread goes on when it can; who waits at a
\* channel is served in turn.  The user and git need not do anything.
VcsFairness ==
    /\ \A l \in Loads : WF_vcsVars(LoadStep(l)) /\ SF_vcsVars(SendBase(l))
    /\ WF_vcsVars(WorkerStep)
    /\ SF_vcsVars(TextSent) /\ WF_vcsVars(token /\ Draw)

VcsSpec == VcsInit /\ [][VcsNext]_vcsVars /\ VcsFairness

-----------------------------------------------------------------------------
LoadTypes ==
    [at : {"none", "start", "read", "named", "sending"}, ensure : BOOLEAN,
     text : Texts, base : Heads, head : Heads, to : Nat]

\* The state of the session has its type, and a channel at most its capacity.
VcsTypeOK ==
    /\ head \in Heads /\ text \in Texts /\ shown \in BOOLEAN /\ loading \in BOOLEAN
    /\ load \in [Loads -> LoadTypes]
    /\ differ.work \in {"none", "idle", "settling", "computing"}
    /\ Len(differ.events) <= Capacity
    /\ headID \in Heads \union {Nothing}
    /\ sending \in Texts \union {Nothing} /\ token \in BOOLEAN
    /\ missed \subseteq {"edit", "head"}

\* Nothing is on its way to the differ.
Quiet ==
    /\ differ.work = "idle" /\ differ.events = <<>> /\ sending = Nothing
    /\ \A l \in Loads : load[l].at # "sending"

\* However edits, saves, commits and loads fall together: when nothing is on
\* its way, the hunks are those of the text of the document, unless the differ
\* was started from an older one, and of the head that is known, unless that
\* moved while it was read or two bases were sent at once.  So a head that has
\* moved is noticed by Refresh.
HunksFollow ==
    shown /\ Quiet =>
        /\ "edit" \notin missed => differ.hunks.doc = text
        /\ "head" \notin missed => differ.hunks.base = headID

\* A token is never lost: without one, what is drawn are the hunks there are.
DrawnIsCurrent == shown /\ ~ token /\ HasDiffer => drawn = differ.hunks

\* Of two loads at once only one starts a differ: a differ that were replaced
\* would never be closed.
DifferIsNotReplaced ==
    [][HasDiffer /\ differ'.work # "none" => differ'.life = differ.life]_vcsVars

\* The worker never waits for the UI thread, which may wait for the worker: an
\* edit gets through, and every load ends.
NobodyWaitsForever ==
    /\ sending # Nothing ~> sending = Nothing
    /\ \A l \in Loads : load[l].at = "sending" ~> load[l].at # "sending"

=============================================================================
