----------------------------- MODULE LspReports -----------------------------
(***************************************************************************)
(* What a language server reports of a document, and what the editor shows *)
(* of it: diagnostics, which a server is asked for with the id of the last *)
(* answer and may also send unasked, and the overlays (colors, links, inlay *)
(* hints, highlights), which it is asked for and which replace the old ones. *)
(*                                                                         *)
(* Every change of the document starts a goroutine that asks.  The answer  *)
(* is about the text the server has then, its positions are looked up in   *)
(* the text the editor has then, and it is stored after that; the id of a  *)
(* diagnostic report is stored after the report.  No step holds a lock     *)
(* over two of these.                                                      *)
(*                                                                         *)
(* One document and one server.  A text, and the report on it, is its      *)
(* version; a result id names the text it is of, whichever process of the  *)
(* server gave it.                                                         *)
(***************************************************************************)
EXTENDS Integers, FiniteSets

CONSTANTS
  Pulls,           \* the goroutines that ask
  MaxVersion,      \* bounds: changes of the document,
  MaxReload        \* and reloads of the configuration

ASSUME ReportsAssumption ==
  MaxVersion \in Nat /\ MaxReload \in Nat /\ IsFiniteSet(Pulls) /\ Pulls # {}

VARIABLES
  kind,        \* "diagnostics" or "overlays"
  version,     \* of the document, which is also Revision()
  report,      \* what is shown: the text it is of, whether it is at its place
  previous,    \* the stored result id (docState.diagIDs)
  pulls,
  push,        \* what the connection does with a report sent unasked
  session,     \* "ready", or how far a reload is
  process,     \* how many times the server has been started anew
  mishaps      \* what went wrong, which is not in the code

reportVars == <<kind, version, report, previous, pulls, push, session,
                process, mishaps>>

None == -1
Blank == [of |-> None, placed |-> TRUE]
Resting == [pc |-> "idle", previous |-> None, process |-> 0, of |-> None,
            on |-> None]

\* A report that is stored over a newer one; an id that is stored when its
\* report is shown no more; a request that failed.
AnyMishap == {"overtaken", "crossed", "failed"}

IsIdle(p) == pulls[p].pc = "idle"
IsQuiet == session = "ready" /\ push.pc = "idle" /\ \A p \in Pulls : IsIdle(p)

\* Goroutines are alike, and any idle one is started.
AnyOf(set) == CHOOSE p \in set : TRUE
Idle == {p \in Pulls : IsIdle(p)}
Spare == IF Idle = {} THEN {} ELSE {AnyOf(Idle)}

\* pullDocumentState: the goroutine is given the document.
Started(p) == [pulls EXCEPT ![p].pc = "started"]

\* The report on the text of was looked up in the text on.
Placed(of, on) == [of |-> of, placed |-> of = on /\ on = version]

ReportsInit ==
  /\ kind \in {"diagnostics", "overlays"}
  /\ version = 0 /\ report = Blank /\ previous = None
  /\ pulls = [[q \in Pulls |-> Resting] EXCEPT ![AnyOf(Pulls)].pc = "started"]
  /\ push = Resting /\ session = "ready" /\ process = 0 /\ mishaps = {}

-----------------------------------------------------------------------------
(* The UI thread *)

\* DocumentChanged.  remapOverlays moves what is shown along with the text; the
\* report on the new text is another one.
Change(p) ==
  /\ session = "ready" /\ IsIdle(p)
  /\ version < MaxVersion
  /\ version' = version + 1
  /\ pulls' = Started(p)
  /\ mishaps' = IF IsQuiet THEN {} ELSE mishaps
  /\ UNCHANGED <<kind, report, previous, push, session, process>>

\* DocumentSaved, or DiagnosticRefresh on the connection: nothing is changed,
\* and the server is asked again.
AskAgain(p) ==
  /\ IsIdle(p)
  /\ pulls' = Started(p)
  /\ UNCHANGED <<kind, version, report, previous, push, session, process,
                 mishaps>>

\* ReloadConfig forgets the ids,
ResetConfig ==
  /\ session = "ready" /\ process < MaxReload
  /\ session' = "reset"
  /\ process' = process + 1
  /\ previous' = None
  /\ UNCHANGED <<kind, version, report, pulls, push, mishaps>>

\* then clears what is shown,
ClearDocumentState ==
  /\ session = "reset"
  /\ session' = "cleared"
  /\ report' = Blank
  /\ UNCHANGED <<kind, version, previous, pulls, push, process, mishaps>>

\* then ends the old server, which ends what is asked of it, and opens the
\* document, which starts the new one and asks it.
CloseAndReopen(p) ==
  /\ session = "cleared" /\ IsIdle(p)
  /\ session' = "ready"
  /\ pulls' = [q \in Pulls |->
                 CASE q = p -> [pulls[p] EXCEPT !.pc = "started"]
                   [] pulls[q].pc = "asked" /\ pulls[q].process < process ->
                        Resting
                   [] OTHER -> pulls[q]]
  /\ UNCHANGED <<kind, version, report, previous, push, process, mishaps>>

-----------------------------------------------------------------------------
(* A goroutine that asks *)

\* The client is looked up and the id of the last answer is read.
PreviousDiagnosticID(p) ==
  /\ pulls[p].pc = "started"
  /\ pulls' = [pulls EXCEPT ![p].pc = "asked", ![p].process = process,
                 ![p].previous = IF kind = "diagnostics" THEN previous
                                                         ELSE None]
  /\ UNCHANGED <<kind, version, report, previous, push, session, process,
                 mishaps>>

\* The server, which has every change that was made, answers for the text it
\* has: with the report on it, or that it is the one it gave that id.
Answer(p) ==
  /\ pulls[p].pc = "asked"
  /\ pulls' = [pulls EXCEPT ![p].of = version,
                 ![p].pc = IF pulls[p].previous = version THEN "stored"
                                                          ELSE "answered"]
  /\ UNCHANGED <<kind, version, report, previous, push, session, process,
                 mishaps>>

\* The request is not answered in time, or in error.  Diagnostics are left;
\* overlays, of which none has come, are cleared.
RequestFails(p) ==
  /\ pulls[p].pc = "asked"
  /\ pulls' = [pulls EXCEPT ![p] = Resting]
  /\ report' = IF kind = "overlays" THEN Blank ELSE report
  /\ mishaps' = mishaps \cup {"failed"}
  /\ UNCHANGED <<kind, version, previous, push, session, process>>

\* The positions are looked up in the text of now.
Convert(p) ==
  /\ pulls[p].pc = "answered"
  /\ pulls' = [pulls EXCEPT ![p].pc = "converted", ![p].on = version]
  /\ UNCHANGED <<kind, version, report, previous, push, session, process,
                 mishaps>>

\* A Replace after which every goroutine stores an id.
ReplaceThenStoreId(p) ==
  /\ pulls[p].pc = "converted"
  /\ report' = Placed(pulls[p].of, pulls[p].on)
  /\ pulls' = [pulls EXCEPT ![p].pc = "stored"]
  /\ UNCHANGED <<kind, version, previous, push, session, process, mishaps>>

Replace(p) ==
  /\ pulls[p].pc = "converted"
  /\ report' = Placed(pulls[p].of, pulls[p].on)
  /\ mishaps' = IF report.of > pulls[p].of THEN mishaps \cup {"overtaken"}
                                           ELSE mishaps
  /\ pulls' = IF kind = "overlays" THEN [pulls EXCEPT ![p] = Resting]
              ELSE [pulls EXCEPT ![p].pc = "stored"]
  /\ UNCHANGED <<kind, version, previous, push, session, process>>

SetPreviousDiagnosticID(p) ==
  /\ pulls[p].pc = "stored"
  /\ previous' = pulls[p].of
  /\ mishaps' = IF report.of # pulls[p].of THEN mishaps \cup {"crossed"}
                                           ELSE mishaps
  /\ pulls' = [pulls EXCEPT ![p] = Resting]
  /\ UNCHANGED <<kind, version, report, push, session, process>>

-----------------------------------------------------------------------------
(* The goroutine of the connection *)

\* The server has sent a report on a text it had.
Publish ==
  /\ kind = "diagnostics" /\ push.pc = "idle"
  /\ \E of \in 0 .. version :
       push' = [Resting EXCEPT !.pc = "sent", !.of = of, !.process = process]
  /\ UNCHANGED <<kind, version, report, previous, pulls, session, process,
                 mishaps>>

\* The report of a publishDiagnostics without the look at its version.
PublishUnchecked ==
  /\ push.pc = "sent"
  /\ push' = [push EXCEPT !.pc = "converted", !.on = version]
  /\ UNCHANGED <<kind, version, report, previous, pulls, session, process,
                 mishaps>>

\* publishDiagnostics drops a report on another text than that of the document.
PublishDiagnostics ==
  /\ push.pc = "sent"
  /\ push' = IF push.of = version
             THEN [push EXCEPT !.pc = "converted", !.on = version]
             ELSE Resting
  /\ UNCHANGED <<kind, version, report, previous, pulls, session, process,
                 mishaps>>

ReplacePublished ==
  /\ push.pc = "converted"
  /\ report' = Placed(push.of, push.on)
  /\ mishaps' = IF report.of > push.of /\ push.of = push.on
                THEN mishaps \cup {"overtaken"} ELSE mishaps
  /\ push' = Resting
  /\ UNCHANGED <<kind, version, previous, pulls, session, process>>

-----------------------------------------------------------------------------

Pull(p) ==
  \/ PreviousDiagnosticID(p) \/ Answer(p) \/ RequestFails(p)
  \/ Convert(p) \/ Replace(p) \/ SetPreviousDiagnosticID(p)

ReportsNext ==
  \/ \E p \in Spare : Change(p) \/ AskAgain(p) \/ CloseAndReopen(p)
  \/ \E p \in Pulls : Pull(p)
  \/ ResetConfig \/ ClearDocumentState
  \/ Publish \/ PublishDiagnostics \/ ReplacePublished

ReportsSpec == ReportsInit /\ [][ReportsNext]_reportVars

-----------------------------------------------------------------------------

ReportsTypeOK ==
  /\ kind \in {"diagnostics", "overlays"}
  /\ version \in 0 .. MaxVersion
  /\ report \in [of : None .. version, placed : BOOLEAN]
  /\ previous \in None .. version
  /\ \A p \in Pulls : /\ pulls[p].of <= version /\ pulls[p].on <= version
                      /\ pulls[p].pc = "stored" => kind = "diagnostics"
  /\ session \in {"ready", "reset", "cleared"}
  /\ process \in 0 .. MaxReload
  /\ mishaps \subseteq AnyMishap

\* When nobody asks any more, what is shown is the report on the text there
\* is, in its place, and its id is what the server will be asked with; unless
\* requests overtook one another or failed, and then it is so again after the
\* next change that nothing disturbs (applyDiagnosticReport,
\* publishDiagnostics, SetDocumentColors and their like).
SettledIsFresh ==
  IsQuiet /\ mishaps = {} =>
    /\ report = [of |-> version, placed |-> TRUE]
    /\ kind = "diagnostics" => previous = version

=============================================================================
