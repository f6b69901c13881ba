------------------------------ MODULE LspSync -------------------------------
(***************************************************************************)
(* What the language servers know of the open documents: the client table, *)
(* the opened and pending flags and the notifications of internal/lsp.     *)
(*                                                                         *)
(* The UI thread runs the document handlers and the server commands to     *)
(* their end, one at a time.  Beside it run the goroutine that Attach      *)
(* starts and the goroutines that ask servers about a document, all of     *)
(* which come through clientsForDocument and may start a server or open    *)
(* the document there.  Threads meet at the locks of serverState and       *)
(* docState; a step is what a thread does between two such meetings.       *)
(*                                                                         *)
(* A text is its version.  A server has of a document the version that the *)
(* messages it got add up to.  All documents have one language, and        *)
(* messages of one step to several servers are sent together.              *)
(***************************************************************************)
EXTENDS Integers, Sequences, FiniteSets

CONSTANTS
  Names,              \* the servers of the language, in their order
  FullSync,           \* those that are sent whole texts
  Doc,
  Visible, Hidden,    \* what is open at first: in a pane, and in none
  UI, Startup,        \* the threads
  Worker,
  MaxVersion,         \* bounds: edits of a document,
  MaxClient           \* and starts of a server

Server == {Names[i] : i \in DOMAIN Names}
Thread == {UI, Startup} \cup Worker

\* What can go wrong between the threads and is not made up for:
\*   changeOpens    a change opens its document, with the text it changes to,
\*                  and is sent as a change after that;
\*   overtaken      a document is changed, closed or reopened after another
\*                  thread claimed it and before that sent its didOpen;
\*   lateRequest    a goroutine opens a document that is closed by now;
\*   untold         a server comes up and is not told of documents that are
\*                  open, the claim being one for all servers;
\*   reopened       a restart sends didOpen to a server that has the document;
\*   wiped          a reload forgets what was claimed at a server that came up
\*                  since the reload emptied the table;
\*   workspaceFile  a file was opened to bring a server up, and is a document.
AnyLapse == {"changeOpens", "overtaken", "lateRequest", "untold", "reopened",
             "wiped", "workspaceFile"}

Elsewhere == "elsewhere"    \* a file of the workspace that is no document

ASSUME LspSyncAssumption ==
  /\ Names \in Seq(Server) /\ FullSync \subseteq Server
  /\ IsFiniteSet(Doc) /\ Visible \in Seq(Doc) /\ Hidden \subseteq Doc
  /\ Elsewhere \notin Doc
  /\ UI # Startup /\ UI \notin Worker /\ Startup \notin Worker
  /\ "none" \notin Thread
  /\ MaxVersion \in Nat /\ MaxClient \in Nat

VARIABLES
  listed, fresh,  \* the documents of the editor, and those not opened yet
  version,        \* of each document (contentState.version)
  opened,         \* documents that were claimed for didOpen (docState)
  pendingOpen,    \* documents the startup goroutine has yet to open
  clients,        \* the number of each server's client, 0 for none
  born,           \* how many clients a server has had
  running,        \* server processes: <<server, number of its client>>
  starting,       \* the thread that holds serverState.starting, or "none"
  threads,
  mirror,         \* the version each server's client has of each document
  lapses          \* what has gone wrong (AnyLapse), which is not in the code

table == <<clients, born, running, starting>>
docs  == <<listed, fresh, version>>
flags == <<opened, pendingOpen>>
vars  == <<docs, flags, table, threads, mirror, lapses>>

Closed == -1        \* the server was told nothing, or that it is closed
Broken == -2        \* the messages do not add up

NoClients == [s \in Server |-> 0]
NoTexts == [d \in Doc |-> Closed]

\* What a thread is at, the servers it has still to look up, the clients it
\* has found, the servers it cannot do without, the text it is about to send,
\* the documents it has still to open; and whether the document was there when
\* it began, which is not in the code.
Idle == [pc |-> "idle", job |-> "none", doc |-> "none", todo |-> << >>,
         out |-> NoClients, must |-> {}, snap |-> 0,
         queue |-> << >>, there |-> FALSE]

Init ==
  /\ listed = {Visible[i] : i \in DOMAIN Visible} \cup Hidden
  /\ fresh = Doc \ listed
  /\ version = [d \in Doc |-> 0]
  /\ opened = {}
  /\ pendingOpen = {Visible[i] : i \in DOMAIN Visible}
  /\ clients = NoClients /\ born = NoClients /\ running = {}
  /\ starting = "none"
  /\ threads = [t \in Thread |->
                  IF t = Startup THEN [Idle EXCEPT !.queue = Visible] ELSE Idle]
  /\ mirror = [s \in Server |-> NoTexts]
  /\ lapses = {}

At(t, pc) == threads[t].pc = pc
DocOf(t) == threads[t].doc
JobOf(t) == threads[t].job

\* The thread has emptied the table and has yet to end the processes.
Reloads(t) == At(t, "resetting") \/ At(t, "reloading")

Moves(t, r) == threads' = [threads EXCEPT ![t] = r]

\* A job on a document begins with clientsForDocument.
Job(t, job, d) ==
  [threads[t] EXCEPT !.pc = "lookup", !.job = job, !.doc = d, !.todo = Names,
                     !.there = d \in listed]

Over(t) == [Idle EXCEPT !.queue = threads[t].queue]

Happens(ls) == lapses' = lapses \cup ls

\* Another thread has claimed the document and not sent its didOpen yet.
BeingOpened(d) ==
  \E t \in Thread \ {UI} :
    DocOf(t) = d /\ threads[t].pc \in {"snapshot", "opening"}

OvertakesOpen(d) == Happens(IF BeingOpened(d) THEN {"overtaken"} ELSE {})

(***************************************************************************)
(* What the user does.                                                     *)
(***************************************************************************)

Ready == At(UI, "idle") /\ threads[UI].queue = << >>

OpenFile ==
  /\ Ready
  /\ \E d \in fresh :
       /\ listed' = listed \cup {d} /\ fresh' = fresh \ {d}
       /\ Moves(UI, Job(UI, "open", d))
  /\ UNCHANGED <<version, flags, table, mirror, lapses>>

Edit ==
  /\ Ready
  /\ \E d \in listed :
       /\ version[d] < MaxVersion
       /\ version' = [version EXCEPT ![d] = @ + 1]
       /\ Moves(UI, Job(UI, "change", d))
       /\ OvertakesOpen(d)
  /\ UNCHANGED <<listed, fresh, flags, table, mirror>>

\* A didSave carries no text the server does not have.
Save ==
  /\ Ready
  /\ \E d \in listed : Moves(UI, Job(UI, "open", d))
  /\ UNCHANGED <<docs, flags, table, mirror, lapses>>

\* Servers are told only when they were told that it is open.
CloseDocument ==
  /\ Ready
  /\ \E d \in listed :
       /\ pendingOpen' = pendingOpen \ {d}
       /\ Moves(UI, IF d \in opened THEN Job(UI, "close", d)
                    ELSE [Job(UI, "close", d) EXCEPT !.pc = "forget"])
       /\ OvertakesOpen(d)
  /\ UNCHANGED <<docs, opened, table, mirror>>

\* Clients are taken out of the table and their processes ended.
StopClients(S) ==
  /\ clients' = [s \in Server |-> IF s \in S THEN 0 ELSE clients[s]]
  /\ running' = {p \in running : p # <<p[1], clients[p[1]]>> \/ p[1] \notin S}
  /\ mirror' = [s \in Server |-> IF s \in S THEN NoTexts ELSE mirror[s]]

StopLanguageServers ==
  /\ Ready
  /\ \E S \in (SUBSET Server) \ {{}} :
       /\ \E s \in S : clients[s] # 0
       /\ StopClients(S)
  /\ UNCHANGED <<docs, flags, born, starting, threads, lapses>>

Orders(S) == {q \in [1 .. Cardinality(S) -> S] : {q[i] : i \in DOMAIN q} = S}

\* The servers that were named come first, and must all come up.
RestartLanguageServers ==
  /\ Ready
  /\ \E d \in listed, S \in (SUBSET Server) \ {{}} :
       /\ StopClients(S)
       /\ \E q \in Orders(S) :
            Moves(UI, [Job(UI, "restart", d) EXCEPT !.must = S, !.todo = q])
       /\ OvertakesOpen(d)
  /\ UNCHANGED <<docs, flags, born, starting>>

\* The table is emptied; the documents, and then the old processes, are left to
\* the next steps, and a server may come up before either.
ReloadConfig ==
  /\ Ready
  /\ clients' = NoClients /\ mirror' = [s \in Server |-> NoTexts]
  /\ Moves(UI, [Idle EXCEPT !.pc = "resetting", !.out = clients])
  /\ UNCHANGED <<docs, flags, born, running, starting, lapses>>

(***************************************************************************)
(* The threads.                                                            *)
(***************************************************************************)

\* Mutant: the startup goroutine opens what has been closed in the meantime.
NextDocumentAny(t) ==
  /\ At(t, "idle") /\ threads[t].queue # << >>
  /\ LET d == Head(threads[t].queue)
     IN  /\ Moves(t, [Job(t, "open", d) EXCEPT !.queue = Tail(@)])
         /\ pendingOpen' = pendingOpen \ (IF t = Startup THEN {d} ELSE {})
  /\ UNCHANGED <<docs, opened, table, mirror, lapses>>

\* Attach and ReloadConfig open a list of documents; Attach looks for what was
\* closed before it got there.
NextDocument(t) ==
  /\ At(t, "idle") /\ threads[t].queue # << >>
  /\ LET d == Head(threads[t].queue)
     IN  /\ Moves(t, IF t = UI \/ d \in pendingOpen
                     THEN [Job(t, "open", d) EXCEPT !.queue = Tail(@)]
                     ELSE [threads[t] EXCEPT !.queue = Tail(@)])
         /\ pendingOpen' = pendingOpen \ (IF t = Startup THEN {d} ELSE {})
  /\ UNCHANGED <<docs, opened, table, mirror, lapses>>

Live(s) == <<s, clients[s]>> \in running

\* What was claimed and was to be opened is forgotten, under another lock.
ResetDocuments(t) ==
  /\ At(t, "resetting")
  /\ opened' = {} /\ pendingOpen' = {}
  /\ Moves(t, [threads[t] EXCEPT !.pc = "reloading"])
  /\ Happens(IF opened # {} /\ \E s \in Server : Live(s) THEN {"wiped"} ELSE {})
  /\ UNCHANGED <<docs, table, mirror>>

\* resetConfig waits for ensureWorkspaceServers, which holds the lock of the
\* workspace; then the processes are ended, and the documents in a pane opened
\* anew.
CloseOldClients(t) ==
  /\ At(t, "reloading")
  /\ JobOf(Startup) # "workspace"
  /\ running' = {p \in running : threads[t].out[p[1]] # p[2]}
  /\ \E S \in SUBSET listed : \E q \in Orders(S) :
       Moves(t, [Idle EXCEPT !.queue = q])
  /\ UNCHANGED <<docs, flags, clients, born, starting, mirror, lapses>>

\* ensureWorkspaceServers: a file of the workspace, which may be a document,
\* stands for the language.
WorkspaceServers ==
  /\ At(Startup, "idle") /\ threads[Startup].queue = << >>
  /\ \E d \in Doc \cup {Elsewhere} :
       Moves(Startup, Job(Startup, "workspace", d))
  /\ UNCHANGED <<docs, flags, table, mirror, lapses>>

\* A goroutine that was spawned by pullDocumentState, or for a request of the
\* user or the server, about a document that was there when it was spawned.
Ask(w) ==
  /\ At(w, "idle")
  /\ \E d \in Doc \ fresh : Moves(w, Job(w, "ask", d))
  /\ UNCHANGED <<docs, flags, table, mirror, lapses>>

Wanted(t) == Head(threads[t].todo)

Found(t, k) ==
  [threads[t] EXCEPT !.pc = "lookup", !.todo = Tail(@), !.out[Wanted(t)] = k]

\* A client of the table is used as it is; the servers of the workspace are
\* only looked at when this thread starts them.
FindClient(t) ==
  /\ At(t, "lookup") /\ threads[t].todo # << >>
  /\ clients[Wanted(t)] # 0
  /\ Moves(t, Found(t, IF JobOf(t) = "workspace" THEN 0
                       ELSE clients[Wanted(t)]))
  /\ UNCHANGED <<docs, flags, table, mirror, lapses>>

\* Mutant: without the lock.
StartClientUnlocked(t) ==
  /\ At(t, "lookup") /\ threads[t].todo # << >>
  /\ clients[Wanted(t)] = 0
  /\ starting' = t
  /\ Moves(t, [threads[t] EXCEPT !.pc = "starting"])
  /\ UNCHANGED <<docs, flags, clients, born, running, mirror,
                 lapses>>

\* One server is started at a time, and only when no one else has done it.
StartClient(t) ==
  /\ At(t, "lookup") /\ threads[t].todo # << >>
  /\ clients[Wanted(t)] = 0 /\ starting = "none"
  /\ starting' = t
  /\ Moves(t, [threads[t] EXCEPT !.pc = "starting"])
  /\ UNCHANGED <<docs, flags, clients, born, running, mirror,
                 lapses>>

\* A new client knows no document, and only a restart tells it of one that is
\* open already; ensureWorkspaceServers goes on to open its file there.
ClientStarted(t) ==
  LET s == Wanted(t)
      k == born[s] + 1
      own == IF JobOf(t) = "restart" THEN {DocOf(t)} ELSE {}
  IN  /\ At(t, "starting")
      /\ k <= MaxClient
      /\ born' = [born EXCEPT ![s] = k]
      /\ clients' = [clients EXCEPT ![s] = k]
      /\ running' = running \cup {<<s, k>>}
      /\ mirror' = [mirror EXCEPT ![s] = NoTexts]
      /\ starting' = "none"
      /\ Moves(t, [Found(t, k) EXCEPT
                     !.pc = IF JobOf(t) = "workspace" THEN "opening" ELSE @])
      /\ Happens(IF opened \subseteq own THEN {} ELSE {"untold"})
      /\ UNCHANGED <<docs, flags>>

\* Mutant: the lock is kept.
StartFailedLocked(t) ==
  /\ At(t, "starting")
  /\ Moves(t, IF threads[t].must # {} THEN Over(t) ELSE Found(t, 0))
  /\ UNCHANGED <<docs, flags, table, mirror, lapses>>

\* The process does not start or does not answer: the others go on without,
\* and a restart of the server is given up, with those that came up before it.
StartFailed(t) ==
  /\ At(t, "starting")
  /\ starting' = "none"
  /\ Moves(t, IF threads[t].must # {} THEN Over(t) ELSE Found(t, 0))
  /\ Happens(IF /\ threads[t].must # {} /\ threads[t].out # NoClients
                /\ DocOf(t) \in opened
             THEN {"untold"} ELSE {})
  /\ UNCHANGED <<docs, flags, clients, born, running, mirror>>

\* What comes after ensureDidOpen, and after the file of the workspace.
AfterOpen(t) ==
  CASE JobOf(t) \in {"change", "close", "restart"} ->
         [threads[t] EXCEPT !.pc = "tell"]
    [] JobOf(t) = "ask" -> [threads[t] EXCEPT !.pc = "request"]
    [] JobOf(t) = "open" -> Over(t)
    [] JobOf(t) = "workspace" ->
         [threads[t] EXCEPT !.pc = "lookup", !.out = NoClients]

LookedUp(t) ==
  At(t, "lookup") /\ threads[t].todo = << >> /\ threads[t].must = {}

\* notify looks all servers up once those of the restart are there.
Restarted(t) ==
  /\ At(t, "lookup") /\ threads[t].todo = << >> /\ threads[t].must # {}
  /\ Moves(t, [Job(t, "restart", DocOf(t)) EXCEPT
                 !.must = {}, !.out = NoClients])
  /\ UNCHANGED <<docs, flags, table, mirror, lapses>>

\* No server: nothing is claimed and no one is told.
NobodyToTell(t) ==
  /\ LookedUp(t) /\ threads[t].out = NoClients
  /\ Moves(t, CASE JobOf(t) = "close" -> [threads[t] EXCEPT !.pc = "forget"]
                [] JobOf(t) = "workspace" -> [Idle EXCEPT !.pc = "halted"]
                [] OTHER -> Over(t))
  /\ UNCHANGED <<docs, flags, table, mirror, lapses>>

OpenedAlready(t) ==
  /\ LookedUp(t) /\ threads[t].out # NoClients
  /\ DocOf(t) \in opened
  /\ Moves(t, AfterOpen(t))
  /\ UNCHANGED <<docs, flags, table, mirror, lapses>>

\* What is wrong with opening d now: the text has the change that is about to
\* be sent, the document is being closed or reopened or is gone, or a client
\* has come that this thread has not looked up.
ClaimLapses(t, d) ==
  LET incremental == \E s \in Server \ FullSync : threads[t].out[s] # 0
      ofUI == IF DocOf(UI) = d THEN JobOf(UI) ELSE "none"
  IN  {l \in AnyLapse :
         \/ l = "changeOpens" /\ ofUI = "change"
              /\ (incremental \/ t # UI)
         \/ l = "overtaken" /\ t # UI /\ ofUI \in {"close", "restart"}
         \/ l = "lateRequest" /\ d \notin listed
              /\ (t \in Worker \/ threads[t].there)
         \/ l = "untold" /\ \E s \in Server :
              clients[s] # 0 /\ clients[s] # threads[t].out[s]}

\* Mutant: the claim is not recorded.
ClaimOpenUnrecorded(t) ==
  /\ LookedUp(t) /\ threads[t].out # NoClients
  /\ DocOf(t) \notin opened
  /\ Moves(t, [threads[t] EXCEPT !.pc = "snapshot"])
  /\ Happens(ClaimLapses(t, DocOf(t)))
  /\ UNCHANGED <<docs, flags, table, mirror>>

ClaimOpen(t) ==
  /\ LookedUp(t) /\ threads[t].out # NoClients
  /\ DocOf(t) \notin opened
  /\ opened' = opened \cup {DocOf(t)}
  /\ Moves(t, [threads[t] EXCEPT !.pc = "snapshot"])
  /\ Happens(ClaimLapses(t, DocOf(t)))
  /\ UNCHANGED <<docs, pendingOpen, table, mirror>>

Snapshot(t) ==
  /\ At(t, "snapshot")
  /\ Moves(t, [threads[t] EXCEPT !.pc = "opening", !.snap = version[DocOf(t)]])
  /\ UNCHANGED <<docs, flags, table, mirror, lapses>>

\* A message reaches a client whose connection was not closed.
Reached(t) ==
  {s \in Server : clients[s] = threads[t].out[s] /\ Live(s)}

Tells(t, Told(_, _)) ==
  mirror' = [s \in Server |->
               IF s \in Reached(t) /\ DocOf(t) \in Doc
               THEN [mirror[s] EXCEPT ![DocOf(t)] = Told(s, @)] ELSE mirror[s]]

\* The three notifications, by what the server has of the document after them.
DidOpen(v, m) == IF m = Closed THEN v ELSE Broken

DidChange(s, v, m) ==
  CASE m = Closed -> Broken
    [] m # Closed /\ s \in FullSync -> v
    [] m # Closed /\ s \notin FullSync -> IF m = v - 1 THEN v ELSE Broken

DidClose(m) == IF m = Closed THEN Broken ELSE Closed

SendOpen(t) ==
  LET Told(s, m) == DidOpen(threads[t].snap, m)
  IN  /\ At(t, "opening")
      /\ Tells(t, Told)
      /\ Moves(t, AfterOpen(t))
      /\ Happens(IF JobOf(t) = "workspace" /\ DocOf(t) \in Doc
                 THEN {"workspaceFile"} ELSE {})
      /\ UNCHANGED <<docs, flags, table>>

\* Mutant: only the servers that are sent whole texts hear of a change.
TellChangeFull(t) ==
  LET Told(s, m) == IF s \in FullSync THEN DidChange(s, version[DocOf(t)], m)
                    ELSE m
  IN  /\ At(t, "tell") /\ JobOf(t) = "change"
      /\ Tells(t, Told)
      /\ Moves(t, Over(t))
      /\ UNCHANGED <<docs, flags, table, lapses>>

TellChange(t) ==
  LET Told(s, m) == DidChange(s, version[DocOf(t)], m)
  IN  /\ At(t, "tell") /\ JobOf(t) = "change"
      /\ Tells(t, Told)
      /\ Moves(t, Over(t))
      /\ UNCHANGED <<docs, flags, table, lapses>>

TellClosed(t) ==
  LET Told(s, m) == DidClose(m)
  IN  /\ At(t, "tell") /\ JobOf(t) = "close"
      /\ Tells(t, Told)
      /\ Moves(t, [threads[t] EXCEPT !.pc = "forget"])
      /\ UNCHANGED <<docs, flags, table, lapses>>

\* A restart sends didOpen to every server of the document, restarted or not.
TellReopened(t) ==
  LET Told(s, m) == DidOpen(version[DocOf(t)], m)
  IN  /\ At(t, "tell") /\ JobOf(t) = "restart"
      /\ Tells(t, Told)
      /\ Moves(t, Over(t))
      /\ Happens(IF \E s \in Reached(t) : mirror[s][DocOf(t)] # Closed
                 THEN {"reopened"} ELSE {})
      /\ UNCHANGED <<docs, flags, table>>

Forget(t) ==
  /\ At(t, "forget")
  /\ opened' = opened \ {DocOf(t)}
  /\ listed' = listed \ {DocOf(t)}
  /\ Moves(t, Over(t))
  /\ UNCHANGED <<fresh, version, pendingOpen, table, mirror, lapses>>

\* The servers answer, which changes nothing here; but a completion drops a
\* server that has ended from the table, unless it has been replaced.
Request(t) ==
  LET gone == {s \in Server : clients[s] = threads[t].out[s] /\ ~Live(s)}
  IN  /\ At(t, "request")
      /\ Moves(t, Over(t))
      /\ \E dropped \in {{}, gone} :
           clients' = [s \in Server |->
                         IF s \in dropped THEN 0 ELSE clients[s]]
      /\ UNCHANGED <<docs, flags, born, running, starting, mirror, lapses>>

\* A server process ends on its own.
Crash ==
  /\ \E s \in Server :
       /\ <<s, clients[s]>> \in running
       /\ running' = running \ {<<s, clients[s]>>}
       /\ mirror' = [mirror EXCEPT ![s] = NoTexts]
  /\ UNCHANGED <<docs, flags, clients, born, starting, threads,
                 lapses>>

Step(t) ==
  \/ FindClient(t) \/ StartClient(t) \/ ClientStarted(t) \/ StartFailed(t)
  \/ NobodyToTell(t) \/ OpenedAlready(t) \/ ClaimOpen(t) \/ Snapshot(t)
  \/ Restarted(t) \/ SendOpen(t) \/ TellClosed(t)
  \/ TellReopened(t) \/ Forget(t) \/ Request(t)
  \/ ResetDocuments(t) \/ CloseOldClients(t)

\* All but the opening and the editing of documents.
ServerNext ==
  \/ Save \/ CloseDocument
  \/ StopLanguageServers \/ RestartLanguageServers \/ ReloadConfig
  \/ \E t \in {UI, Startup} : NextDocument(t)
  \/ WorkspaceServers
  \/ \E w \in Worker : Ask(w)
  \/ \E t \in Thread : Step(t)
  \/ Crash

Next == OpenFile \/ Edit \/ (\E t \in Thread : TellChange(t)) \/ ServerNext

Spec == Init /\ [][Next]_vars

\* A user who neither opens nor edits a document.  Threads go on running, and a
\* server that was started answers or fails: the code sets no limit to how long
\* it waits for that.  The lock is a sync.Mutex, which does not let a waiter
\* starve.
FairSpec ==
  /\ Init /\ [][ServerNext]_vars
  /\ \A t \in Thread : WF_vars(Step(t)) /\ SF_vars(StartClient(t))
  /\ WF_vars(NextDocument(UI))

(***************************************************************************)
(* Properties.                                                             *)
(***************************************************************************)

\* Every variable has its type, a client of the table is one that was started,
\* and the lock is held by a thread that is starting a server.
TypeOK ==
  /\ listed \subseteq Doc /\ fresh \subseteq Doc \ listed
  /\ version \in [Doc -> 0 .. MaxVersion]
  /\ opened \subseteq Doc /\ pendingOpen \subseteq Doc
  /\ \A s \in Server : clients[s] \in 0 .. born[s] /\ born[s] <= MaxClient
  /\ \A p \in running : p[1] \in Server /\ p[2] \in 1 .. born[p[1]]
  /\ \A t \in Thread : At(t, "starting") <=> starting = t
  /\ mirror \in [Server -> [Doc -> Broken .. MaxVersion]]
  /\ lapses \subseteq AnyLapse

\* However many threads find a server missing at once, one process is started
\* for it, and every process that runs is in the table, so that a stop, a
\* restart or the end of the session reaches it, or about to be ended by
\* ReloadConfig.
NoOrphans ==
  \A p \in running :
    \/ clients[p[1]] = p[2]
    \/ Reloads(UI) /\ threads[UI].out[p[1]] = p[2]

\* Nobody is in the middle of telling the servers something about d.
Settled(d) ==
  \A t \in Thread :
    DocOf(t) = d => /\ threads[t].pc \notin {"snapshot", "opening"}
                    /\ JobOf(t) \notin {"change", "close", "restart"}

\* A server that runs has the current text of every document that was opened
\* and nothing of any other, through the races of edits, requests, closings and
\* starts of the threads, unless one of the lapses has happened.
ServersFollow ==
  lapses = {} =>
    \A s \in Server, d \in Doc :
      Live(s) /\ Settled(d) =>
        mirror[s][d] = IF d \in opened THEN version[d] ELSE Closed

\* No server is told of a change or a closing of what it was not told is open,
\* told twice that something is open, or sent a change of another text than the
\* one it has, unless one of the lapses has happened.
MessagesAddUp ==
  lapses = {} => \A s \in Server, d \in Doc : mirror[s][d] # Broken

\* "closed before its startup open ran": what is closed is not opened at a
\* server afterwards and not held open there, unless one of the lapses has
\* happened.
NothingLeftOpen ==
  lapses = {} =>
    /\ \A d \in Doc : Settled(d) => (d \in opened => d \in listed)
    /\ \A s \in Server, d \in Doc :
         Live(s) /\ Settled(d) /\ d \notin listed => mirror[s][d] = Closed

\* The UI thread, which starts servers and waits for the lock of others that
\* do, always comes back to the user.
Responsive == []<>Ready

=============================================================================
